--------------------------- MODULE Screens_proofs ---------------------------
(***************************************************************************)
(* Theorems about the two modules of what the user sees: Navigation,       *)
(* between screens, and Page, within one.                                  *)
(*                                                                         *)
(* Navigation, for every set of views and of URLs, with every button and   *)
(* every interleaving: the types, and that of all the views ever created   *)
(* the application holds exactly the one that is not destroyed.  Views     *)
(* come and go in three ways only: one is replaced (ShowView), one refuses *)
(* to be displayed (Refused), or the page is loaded again.  Everything     *)
(* else leaves `alive' and `current' as they are.  AliveIsCurrent needs    *)
(* the types beside it, nothing more.  And for the users who wait: what is *)
(* shown is of the URL, and what it shows was meant for it.                *)
(*                                                                         *)
(* Page, for any scenarios, submits and changes.  A button counts at most  *)
(* the operations under way that are its own, and is disabled, or about to *)
(* be, while it counts any.  What was judged valid stays so, whether or    *)
(* not passwords are legible, until the user changes it.  The submit that  *)
(* said that it takes long knows it did.  One tooltip is shown at most,    *)
(* and a mark on an input is that tooltip's.                               *)
(***************************************************************************)
EXTENDS MCNavigation, Page, FiniteSetTheorems, WellFoundedInduction, TLAPS

-----------------------------------------------------------------------------
(***************************************************************************)
(* Navigation.                                                             *)
(***************************************************************************)
IInv == TypeOK /\ AliveIsCurrent

\* The views and the current one fit together.
Fit(vs, cur) ==
    /\ vs \in Seq(Instance) /\ Len(vs) <= MaxViews
    /\ cur \in DOMAIN vs \cup {0}
    /\ \A i \in DOMAIN vs : vs[i].alive <=> i = cur

\* What ShowView does to a view of the same class: it stays, with another page.
Stays(vs, page, models, attrs) ==
    /\ current # 0 /\ ViewOf[vs[current].page.url] = ViewOf[page.url]
    /\ current' = current /\ DOMAIN views' = DOMAIN vs /\ Len(views') = Len(vs)
    /\ views'[current] = [vs[current] EXCEPT !.page = page]
    /\ \A i \in DOMAIN vs : /\ i # current => views'[i] = vs[i]
                            /\ views'[i].is = vs[i].is /\ views'[i].model = vs[i].model
                            /\ views'[i].alive = vs[i].alive
    /\ views'[current].page = page
    /\ attributes' = IF models # <<>>
                     THEN [attrs EXCEPT ![vs[current].model] = @ \cup attrs[Top(models)]]
                     ELSE attrs

\* What it does otherwise: another view becomes the current one.
Replaced(vs, page, models, attrs) ==
    LET new == Len(vs) + 1
    IN  /\ current # 0 => ViewOf[vs[current].page.url] # ViewOf[page.url]
        /\ current' = new /\ new <= MaxViews /\ Len(vs) \in Nat
        /\ DOMAIN vs = 1..Len(vs) /\ DOMAIN views' = DOMAIN vs \cup {new} /\ Len(views') = new
        /\ new \notin DOMAIN vs /\ new # 0
        /\ views'[new].page = page /\ views'[new].is = "rendering" /\ views'[new].alive
        /\ views'[new].model = IF models = <<>> THEN Own(new) ELSE Top(models)
        /\ \A i \in DOMAIN vs : /\ views'[i].is = vs[i].is /\ views'[i].page = vs[i].page
                                /\ views'[i].model = vs[i].model /\ ~views'[i].alive
        /\ attributes' = attrs

-----------------------------------------------------------------------------
\* A sequence of views of which one is changed is one of the same length.
LEMMA OneChanged ==
    ASSUME NEW vs \in Seq(Instance), NEW i \in DOMAIN vs, NEW x \in Instance
    PROVE  /\ [vs EXCEPT ![i] = x] \in Seq(Instance)
           /\ Len([vs EXCEPT ![i] = x]) = Len(vs)
           /\ DOMAIN [vs EXCEPT ![i] = x] = DOMAIN vs
  OBVIOUS

\* The models are those of the navigations and those of the views.
LEMMA ModelTypes ==
    /\ Data \ {0} = 1..MaxNavigations /\ Data \ {0} \subseteq Model /\ 0 \in Data
    /\ \A i \in 1..MaxViews : Own(i) \in Model /\ Own(i) \notin Data
    /\ \A i, j \in 1..MaxViews : Own(i) = Own(j) => i = j
  BY NavigationAssumption DEF Data, Model, Own

\* The top of a stack that is not empty is the number of a navigation
\* (Router.getCurrentViewModel).
LEMMA TopType ==
    ASSUME NEW models \in Seq(Data \ {0}), models # <<>>
    PROVE  Top(models) \in Data \ {0}
<1>1. Len(models) \in 1..Len(models) OBVIOUS
<1>2. models[Len(models)] \in Data \ {0} BY <1>1
<1> QED BY <1>2 DEF Top

\* Giving the current view another page, or destroying it for a new one, keeps
\* exactly one view alive (AppView.showView).
LEMMA ShowViewFits ==
    ASSUME NEW vs, Fit(vs, current), NEW page \in Page, NEW models \in Seq(Data \ {0}),
           canGoBack \in BOOLEAN, NEW attrs \in [Model -> SUBSET Page],
           ShowView(vs, page, models, attrs)
    PROVE  /\ Fit(views', current') /\ DOMAIN vs \subseteq DOMAIN views' /\ shown' = shown
           /\ attributes' \in [Model -> SUBSET Page]
           /\ Stays(vs, page, models, attrs) \/ Replaced(vs, page, models, attrs)
<1> DEFINE model == IF models = <<>> THEN Own(Len(vs) + 1) ELSE Top(models)
           new == NewView(page, model)
           left == IF current = 0 THEN vs ELSE [vs EXCEPT ![current].alive = FALSE]
<1>0. /\ vs \in Seq(Instance) /\ Len(vs) \in Nat /\ Len(vs) < MaxViews /\ DOMAIN vs = 1..Len(vs)
      /\ shown' = shown
  BY DEF Fit, ShowView
<1>1. model \in Model
  <2>1. CASE models = <<>>
    <3>1. Len(vs) + 1 \in 1..MaxViews BY <1>0, NavigationAssumption
    <3> QED BY <2>1, <3>1, ModelTypes
  <2>2. CASE models # <<>> BY <2>2, TopType, ModelTypes
  <2> QED BY <2>1, <2>2
<1> HIDE DEF model
<1>2. /\ new \in Instance /\ new.alive /\ new.page = page /\ new.model = model
      /\ new.is = "rendering"
  BY <1>1 DEF NewView, Instance
<1>3. CASE current # 0 /\ ViewOf[vs[current].page.url] = ViewOf[page.url]
  <2>1. /\ views' = [vs EXCEPT ![current].page = page]
        /\ current' = current
        /\ attributes' = IF models # <<>>
                         THEN [attrs EXCEPT ![vs[current].model] = @ \cup attrs[Top(models)]]
                         ELSE attrs
    BY <1>3 DEF ShowView
  <2>2. current \in DOMAIN vs BY <1>3 DEF Fit
  <2> DEFINE x == [vs[current] EXCEPT !.page = page]
  <2>a. vs[current] \in Instance BY <2>2 DEF Fit
  <2>b. /\ x \in Instance /\ x.page = page /\ x.is = vs[current].is /\ x.model = vs[current].model
        /\ x.alive = vs[current].alive
    BY <2>a DEF Instance
  <2>c. views' = [vs EXCEPT ![current] = x] BY <2>1
  <2>d. x = [vs[current] EXCEPT !.page = page] OBVIOUS
  <2>4. attributes' \in [Model -> SUBSET Page]
    <3>1. CASE models = <<>> BY <2>1, <3>1
    <3>2. CASE models # <<>>
      <4>1. Top(models) \in Model BY <3>2, TopType, ModelTypes
      <4>2. vs[current].model \in Model BY <2>a DEF Instance
      <4>3. attrs[Top(models)] \in SUBSET Page /\ attrs[vs[current].model] \in SUBSET Page
        BY <4>1, <4>2
      <4>4. attrs[vs[current].model] \cup attrs[Top(models)] \in SUBSET Page BY <4>3
      <4> QED BY <2>1, <3>2, <4>2, <4>4
    <3> QED BY <3>1, <3>2
  <2> HIDE DEF x
  <2>3. views' \in Seq(Instance) /\ DOMAIN views' = DOMAIN vs /\ Len(views') = Len(vs)
    BY <2>2, <2>b, <2>c, OneChanged DEF Fit
  <2>5. views'[current] = x /\ \A i \in DOMAIN vs : i # current => views'[i] = vs[i]
    BY <2>2, <2>c, <1>0
  <2>6. \A i \in DOMAIN vs : views'[i].alive = vs[i].alive /\ views'[i].is = vs[i].is /\ views'[i].model = vs[i].model
    BY <2>5, <2>b
  <2>7. Fit(views', current') BY <2>1, <2>3, <2>6 DEF Fit
  <2>8. Stays(vs, page, models, attrs) BY <1>3, <2>1, <2>3, <2>5, <2>6, <2>b, <2>d DEF Stays
  <2> QED BY <1>0, <2>3, <2>4, <2>7, <2>8
<1>4. CASE ~(current # 0 /\ ViewOf[vs[current].page.url] = ViewOf[page.url])
  <2>1. /\ views' = Append(left, new)
        /\ current' = Len(vs) + 1
        /\ attributes' = attrs
    BY <1>4 DEF ShowView, model
  <2>2. left \in Seq(Instance) /\ Len(left) = Len(vs)
        /\ \A i \in DOMAIN vs : /\ ~left[i].alive /\ left[i].is = vs[i].is
                                /\ left[i].page = vs[i].page /\ left[i].model = vs[i].model
    <3>1. CASE current = 0
      <4>1. \A i \in DOMAIN vs : i # 0 BY DEF Fit
      <4> QED BY <3>1, <4>1 DEF Fit
    <3>2. CASE current # 0
      <4>1. current \in DOMAIN vs BY <3>2 DEF Fit
      <4>2. vs[current] \in Instance BY <4>1 DEF Fit
      <4> DEFINE x == [vs[current] EXCEPT !.alive = FALSE]
      <4>3. x \in Instance /\ ~x.alive /\ x.is = vs[current].is /\ x.page = vs[current].page
            /\ x.model = vs[current].model
        BY <4>2 DEF Instance
      <4>4. left = [vs EXCEPT ![current] = x] BY <3>2, <4>1
      <4> HIDE DEF left, x
      <4>5. left \in Seq(Instance) /\ Len(left) = Len(vs) /\ DOMAIN left = DOMAIN vs
        BY <4>1, <4>3, <4>4, OneChanged DEF Fit
      <4>6. left[current] = x /\ \A i \in DOMAIN vs : i # current => left[i] = vs[i] /\ ~vs[i].alive
        BY <1>0, <4>1, <4>4 DEF Fit
      <4> QED BY <4>3, <4>5, <4>6
    <3> QED BY <3>1, <3>2
  <2> HIDE DEF left, new
  <2>3. /\ views' \in Seq(Instance)
        /\ Len(views') = Len(vs) + 1
        /\ views'[Len(vs) + 1] = new
        /\ \A i \in 1..Len(vs) : views'[i] = left[i]
    BY <1>2, <2>1, <2>2
  <2>4. Len(vs) + 1 <= MaxViews BY <1>0, NavigationAssumption
  <2>5. /\ DOMAIN views' = 1..(Len(vs) + 1)
        /\ DOMAIN views' = DOMAIN vs \cup {Len(vs) + 1} /\ Len(vs) + 1 \notin DOMAIN vs
    BY <1>0, <2>3
  <2>6. \A i \in DOMAIN views' : views'[i].alive <=> i = Len(vs) + 1
    BY <1>0, <1>2, <2>2, <2>3, <2>5
  <2>7. Fit(views', current') BY <2>1, <2>3, <2>4, <2>5, <2>6 DEF Fit
  <2>8. views'[Len(vs) + 1].model = IF models = <<>> THEN Own(Len(vs) + 1) ELSE Top(models)
    BY <1>2, <2>3 DEF model
  <2>9. Replaced(vs, page, models, attrs)
    <3>1. Len(vs) + 1 # 0 BY <1>0
    <3>2. /\ views'[Len(vs) + 1].page = page /\ views'[Len(vs) + 1].is = "rendering"
          /\ views'[Len(vs) + 1].alive
      BY <1>2, <2>3
    <3>3. \A i \in DOMAIN vs : /\ views'[i].is = vs[i].is /\ views'[i].page = vs[i].page
                               /\ views'[i].model = vs[i].model /\ ~views'[i].alive
      BY <1>0, <2>2, <2>3
    <3> QED BY <1>0, <1>4, <2>1, <2>3, <2>4, <2>5, <2>8, <3>1, <3>2, <3>3 DEF Replaced
  <2> QED BY <1>0, <2>1, <2>5, <2>7, <2>9
<1> QED BY <1>3, <1>4

\* Following a route shows the view now, or leaves everything for later.
LEMMA RouteFits ==
    ASSUME NEW vs, Fit(vs, current), NEW page \in Page, NEW models \in Seq(Data \ {0}),
           NEW attrs \in [Model -> SUBSET Page],
           canGoBack \in BOOLEAN, loading \subseteq Page, Route(vs, page, models, attrs)
    PROVE  /\ Fit(views', current') /\ loading' \subseteq Page
           /\ attributes' \in [Model -> SUBSET Page]
           /\ DOMAIN vs \subseteq DOMAIN views' /\ shown' = shown
<1>1. CASE ShowView(vs, page, models, attrs) /\ UNCHANGED loading
  BY <1>1, ShowViewFits
<1>2. CASE loading' = loading \cup {page} /\ views' = vs /\ attributes' = attrs /\ UNCHANGED <<current, shown>>
  BY <1>2
<1> QED BY <1>1, <1>2 DEF Route

\* What a view is doing says nothing of whether it is alive.
LEMMA MarkedFits ==
    ASSUME NEW vs, NEW cur, Fit(vs, cur), NEW i \in DOMAIN vs,
           NEW what \in {"rendering", "navigated", "shown", "refused", "failed"}
    PROVE  /\ Fit([vs EXCEPT ![i].is = what], cur) /\ DOMAIN [vs EXCEPT ![i].is = what] = DOMAIN vs
           /\ \A j \in DOMAIN vs : /\ [vs EXCEPT ![i].is = what][j].page = vs[j].page
                                   /\ [vs EXCEPT ![i].is = what][j].model = vs[j].model
                                   /\ [vs EXCEPT ![i].is = what][j].is = IF j = i THEN what ELSE vs[j].is
<1> DEFINE x == [vs[i] EXCEPT !.is = what]
           w == [vs EXCEPT ![i] = x]
<1>1. vs[i] \in Instance BY DEF Fit
<1>2. x \in Instance /\ x.alive = vs[i].alive /\ x.page = vs[i].page /\ x.model = vs[i].model /\ x.is = what
  BY <1>1 DEF Instance
<1>3. [vs EXCEPT ![i].is = what] = w OBVIOUS
<1> HIDE DEF x
<1>4. w \in Seq(Instance) /\ Len(w) = Len(vs) /\ DOMAIN w = DOMAIN vs
  BY <1>2, OneChanged DEF Fit
<1>5. \A j \in DOMAIN vs : /\ w[j].alive = vs[j].alive /\ w[j].page = vs[j].page
                           /\ w[j].model = vs[j].model /\ w[j].is = IF j = i THEN what ELSE vs[j].is
  BY <1>2 DEF Fit
<1> HIDE DEF w
<1>6. Fit(w, cur) BY <1>4, <1>5 DEF Fit
<1> QED BY <1>3, <1>4, <1>5, <1>6

\* A stack of models stays one when the model of a navigation is put on it.
LEMMA PushedType ==
    ASSUME viewModels \in Seq(Data \ {0}), made + 1 \in Data \ {0}, NEW replace
    PROVE  Pushed(replace) \in Seq(Data \ {0})
<1>1. CASE replace /\ viewModels # <<>>
  <2>1. Len(viewModels) \in DOMAIN viewModels BY <1>1
  <2> QED BY <1>1, <2>1 DEF Pushed
<1>2. CASE ~(replace /\ viewModels # <<>>) BY <1>2 DEF Pushed
<1> QED BY <1>1, <1>2

\* The types without those of the views, which Fit has.
Others ==
    /\ history \in Seq(Page) /\ place \in DOMAIN history
    /\ back \in Nat /\ canGoBack \in BOOLEAN
    /\ made \in Data /\ viewModels \in Seq(Data \ {0})
    /\ attributes \in [Model -> SUBSET Page]
    /\ loading \subseteq Page

\* Navigating, for a link or to redirect a view (Router.navigate).
LEMMA NavigateKeeps ==
    ASSUME NEW vs, Fit(vs, current), Others, NEW url \in Url, NEW replace \in BOOLEAN,
           Navigate(vs, url, replace)
    PROVE  /\ Fit(views', current') /\ Others'
           /\ DOMAIN vs \subseteq DOMAIN views' /\ shown' = shown
<1> DEFINE page == [url |-> url, data |-> made + 1]
           attrs == [attributes EXCEPT ![made + 1] = {page}]
<1>1. made + 1 \in Data \ {0}
  BY NavigationAssumption DEF Navigate, Others, Data
<1>2. page \in Page BY <1>1 DEF Page
<1>3. Pushed(replace) \in Seq(Data \ {0}) BY <1>1, PushedType DEF Others
<1>4. /\ made' = made + 1 /\ viewModels' = Pushed(replace)
      /\ UNCHANGED <<back, canGoBack>>
  BY DEF Navigate
<1>5. attrs \in [Model -> SUBSET Page]
  <2>1. {page} \in SUBSET Page BY <1>2
  <2> QED BY <1>1, <2>1, ModelTypes DEF Others
<1>6. CASE views' = vs /\ attributes' = attrs /\ UNCHANGED <<history, place, loading, current, shown>>
  BY <1>1, <1>3, <1>4, <1>5, <1>6 DEF Others
<1>7. CASE /\ history' = IF replace THEN [history EXCEPT ![place] = page]
                         ELSE Append(SubSeq(history, 1, place), page)
           /\ place' = IF replace THEN place ELSE place + 1
           /\ Route(vs, page, Pushed(replace), attrs)
  <2>1. /\ Fit(views', current') /\ loading' \subseteq Page
        /\ attributes' \in [Model -> SUBSET Page]
        /\ DOMAIN vs \subseteq DOMAIN views' /\ shown' = shown
    BY <1>2, <1>3, <1>5, <1>7, RouteFits DEF Others
  <2>3. history' \in Seq(Page) /\ place' \in DOMAIN history'
    <3> HIDE DEF page
    <3>1. CASE replace BY <1>2, <1>7, <3>1 DEF Others
    <3>2. CASE ~replace
      <4>1. SubSeq(history, 1, place) \in Seq(Page) /\ Len(SubSeq(history, 1, place)) = place
        BY DEF Others
      <4>2. place \in Nat BY DEF Others
      <4> QED BY <1>2, <1>7, <3>2, <4>1, <4>2
    <3> QED BY <3>1, <3>2
  <2> QED BY <1>1, <1>3, <1>4, <2>1, <2>3 DEF Others
<1> QED BY <1>6, <1>7 DEF Navigate

-----------------------------------------------------------------------------
\* The invariant, taken apart the way the lemmas take it.
LEMMA IInvParts == IInv <=> Fit(views, current) /\ Others /\ shown \in Created \cup {0}
  BY DEF IInv, TypeOK, AliveIsCurrent, Fit, Others, Created

LEMMA InitOK == Init => IInv
<1> USE NavigationAssumption
<1> SUFFICES ASSUME Init PROVE IInv OBVIOUS
<1> DEFINE page == [url |-> First, data |-> 0]
           w == [page |-> page, model |-> Own(1), alive |-> TRUE, canGoBack |-> FALSE,
                 is |-> "rendering"]
<1>1. 0 \in Data /\ Own(1) \in Model BY ModelTypes
<1>2. page \in Page BY <1>1 DEF Page
<1>3. w \in Instance /\ w.alive BY <1>1, <1>2 DEF Instance
<1>4. /\ history = <<page>> /\ place = 1 /\ back = 0 /\ canGoBack = FALSE
      /\ made = 0 /\ viewModels = <<>> /\ loading = {}
      /\ attributes = [m \in Model |-> {}]
      /\ views = <<w>> /\ current = 1 /\ shown = 0
  BY DEF Init, NewView
<1> HIDE DEF page, w, Init
<1>5. Fit(views, current) BY <1>3, <1>4 DEF Fit
<1>6. history \in Seq(Page) /\ place \in DOMAIN history BY <1>2, <1>4
<1>7. canGoBack \in BOOLEAN BY <1>4
<1>8. viewModels \in Seq(Data \ {0}) /\ back \in Nat /\ made \in Data /\ loading \subseteq Page
      /\ attributes \in [Model -> SUBSET Page]
  BY <1>1, <1>4
<1>9. Others BY <1>6, <1>7, <1>8 DEF Others
<1> QED BY <1>4, <1>5, <1>9, IInvParts

\* Every step keeps it.
LEMMA StepOK == IInv /\ [Next]_vars => IInv'
<1> SUFFICES ASSUME IInv, [Next]_vars PROVE IInv' OBVIOUS
<1>a. Fit(views, current) /\ Others /\ shown \in Created \cup {0} BY IInvParts
<1> SUFFICES Fit(views', current') /\ Others' /\ (shown \in Created \cup {0})'
  BY IInvParts DEF Fit, IInv, TypeOK, AliveIsCurrent, Others, Created
<1>1. ASSUME NEW url \in Url, NEW replace \in BOOLEAN, Go(url, replace)
      PROVE  Fit(views', current') /\ Others' /\ (shown \in Created \cup {0})'
  BY <1>a, <1>1, NavigateKeeps DEF Go, Created
<1>2. ASSUME NEW i \in Created, NEW url \in Url, Redirect(i, url)
      PROVE  Fit(views', current') /\ Others' /\ (shown \in Created \cup {0})'
  <2> DEFINE vs == [views EXCEPT ![i].is = "navigated"]
  <2>1. Fit(vs, current) BY <1>a, MarkedFits DEF Created
  <2>2. DOMAIN vs = Created BY DEF Created
  <2>3. Navigate(vs, url, FALSE) BY <1>2 DEF Redirect
  <2> QED BY <1>a, <2>1, <2>2, <2>3, NavigateKeeps DEF Created
<1>3. ASSUME NEW i \in Created, Refused(i)
      PROVE  Fit(views', current') /\ Others' /\ (shown \in Created \cup {0})'
  <2> DEFINE x == [views[i] EXCEPT !.is = "refused", !.alive = FALSE]
  <2>1. views[i] \in Instance BY <1>a DEF Fit, Created
  <2>2. x \in Instance /\ ~x.alive BY <2>1 DEF Instance
  <2>3. views' = [views EXCEPT ![i] = x] BY <1>3, <2>1 DEF Refused, Instance
  <2>4. /\ current' = IF current = i THEN 0 ELSE current
        /\ UNCHANGED <<history, place, back, canGoBack, made, viewModels, attributes, loading, shown>>
    BY <1>3 DEF Refused, browser
  <2> HIDE DEF x
  <2>5. views' \in Seq(Instance) /\ Len(views') = Len(views) /\ DOMAIN views' = DOMAIN views
    BY <1>a, <2>2, <2>3, OneChanged DEF Fit, Created
  <2>6. \A j \in DOMAIN views : views'[j].alive <=> views[j].alive /\ j # i
    BY <1>a, <2>2, <2>3 DEF Fit
  <2>7. 0 \notin DOMAIN views BY <1>a DEF Fit
  <2>8. Fit(views', current') BY <1>a, <2>4, <2>5, <2>6, <2>7 DEF Fit
  <2> QED BY <1>a, <2>4, <2>5, <2>8 DEF Others, Created
<1>4. ASSUME NEW i \in Created, Rendered(i)
      PROVE  Fit(views', current') /\ Others' /\ (shown \in Created \cup {0})'
  <2>1. /\ views' = [views EXCEPT ![i].is = "shown"]
        /\ shown' = i /\ canGoBack' = TRUE
        /\ UNCHANGED <<history, place, back, made, viewModels, attributes, loading, current>>
    BY <1>4 DEF Rendered, browser
  <2>2. Fit(views', current') BY <1>a, <2>1, MarkedFits DEF Created
  <2> QED BY <1>a, <2>1, <2>2 DEF Others, Created
<1>12. ASSUME NEW i \in Created, RenderFails(i)
      PROVE  Fit(views', current') /\ Others' /\ (shown \in Created \cup {0})'
  <2>1. /\ views' = [views EXCEPT ![i].is = "failed"] /\ shown' = 0
        /\ UNCHANGED <<history, place, back, canGoBack, made, viewModels, attributes, loading, current>>
    BY <1>12 DEF RenderFails, browser
  <2>2. Fit(views', current') BY <1>a, <2>1, MarkedFits DEF Created
  <2> QED BY <1>a, <2>1, <2>2 DEF Others, Created
<1>5. ASSUME NEW page \in loading, Imported(page)
      PROVE  Fit(views', current') /\ Others' /\ (shown \in Created \cup {0})'
  <2>1. /\ loading' = loading \ {page} /\ ShowView(views, page, viewModels, attributes)
        /\ UNCHANGED <<history, place, back, canGoBack, made, viewModels>>
    BY <1>5 DEF Imported, browser
  <2>2. page \in Page BY <1>a DEF Others
  <2>3. /\ Fit(views', current') /\ DOMAIN views \subseteq DOMAIN views' /\ shown' = shown
        /\ attributes' \in [Model -> SUBSET Page]
    BY <1>a, <2>1, <2>2, ShowViewFits DEF Others
  <2> QED BY <1>a, <2>1, <2>3 DEF Others, Created
<1>6. ASSUME NEW i \in Created, Back(i)
      PROVE  Fit(views', current') /\ Others' /\ (shown \in Created \cup {0})'
  <2> DEFINE x == [views[i] EXCEPT !.canGoBack = FALSE]
  <2>1. views[i] \in Instance BY <1>a DEF Fit, Created
  <2>2. x \in Instance /\ x.alive = views[i].alive BY <2>1 DEF Instance
  <2>3. /\ views' = [views EXCEPT ![i] = x] /\ back' = back + 1
        /\ UNCHANGED <<history, place, canGoBack, made, attributes, loading, current, shown>>
        /\ viewModels' = IF viewModels = <<>> THEN <<>>
                         ELSE SubSeq(viewModels, 1, Len(viewModels) - 1)
    BY <1>6 DEF Back
  <2> HIDE DEF x
  <2>4. views' \in Seq(Instance) /\ Len(views') = Len(views) /\ DOMAIN views' = DOMAIN views
    BY <1>a, <2>2, <2>3, OneChanged DEF Fit, Created
  <2>5. \A j \in DOMAIN views : views'[j].alive = views[j].alive
    BY <1>a, <2>2, <2>3 DEF Fit
  <2>6. Fit(views', current') BY <1>a, <2>3, <2>4, <2>5 DEF Fit
  <2>7. viewModels' \in Seq(Data \ {0})
    <3>1. viewModels \in Seq(Data \ {0}) BY <1>a DEF Others
    <3>2. CASE viewModels # <<>>
      <4>1. SubSeq(viewModels, 1, Len(viewModels) - 1) \in Seq(Data \ {0}) BY <3>1, <3>2
      <4> QED BY <2>3, <3>2, <4>1
    <3> QED BY <2>3, <3>1, <3>2
  <2> QED BY <1>a, <2>3, <2>4, <2>6, <2>7 DEF Others, Created
<1>7. ASSUME NEW to \in DOMAIN history, Traverse(to), back' \in Nat
      PROVE  Fit(views', current') /\ Others' /\ (shown \in Created \cup {0})'
  <2>1. place' = to /\ UNCHANGED <<history, canGoBack, made, viewModels>>
    BY <1>7 DEF Traverse
  <2>2. history[to] \in Page BY <1>a DEF Others
  <2>3. CASE Route(views, history[to], viewModels, attributes)
    <3>1. /\ Fit(views', current') /\ loading' \subseteq Page
          /\ attributes' \in [Model -> SUBSET Page]
          /\ DOMAIN views \subseteq DOMAIN views' /\ shown' = shown
      BY <1>a, <2>2, <2>3, RouteFits DEF Others
    <3> QED BY <1>a, <1>7, <2>1, <3>1 DEF Others, Created
  <2>4. CASE UNCHANGED app
    BY <1>a, <1>7, <2>1, <2>4 DEF Others, Created, app
  <2> QED BY <1>7, <2>3, <2>4 DEF Traverse
<1>8. CASE PopState
  <2>1. Traverse(place - 1) /\ place - 1 \in DOMAIN history /\ back' \in Nat
    BY <1>a, <1>8 DEF PopState, Traverse, Others
  <2> QED BY <1>7, <2>1
<1>9. ASSUME NEW to \in DOMAIN history, BrowserTraverses(to)
      PROVE  Fit(views', current') /\ Others' /\ (shown \in Created \cup {0})'
  BY <1>a, <1>7, <1>9 DEF BrowserTraverses, Others
<1>10. CASE Reload
  <2> DEFINE w == NewView(history[place], Own(1))
  <2>1. /\ views' = <<w>> /\ current' = 1 /\ shown' = 0
        /\ viewModels' = <<>> /\ loading' = {} /\ back' = 0
        /\ attributes' = [m \in Model |-> {}]
        /\ UNCHANGED <<history, place, canGoBack, made>>
    BY <1>10 DEF Reload
  <2>2. w \in Instance /\ w.alive
    <3>1. history[place] \in Page /\ canGoBack \in BOOLEAN BY <1>a DEF Others
    <3>2. Own(1) \in Model BY NavigationAssumption, ModelTypes
    <3> QED BY <3>1, <3>2 DEF NewView, Instance
  <2> HIDE DEF w
  <2>3. Fit(views', current') BY <2>1, <2>2, NavigationAssumption DEF Fit
  <2>4. attributes' \in [Model -> SUBSET Page] BY <2>1
  <2> QED BY <1>a, <2>1, <2>3, <2>4 DEF Others, Created
<1>11. CASE UNCHANGED vars
  BY <1>a, <1>11 DEF vars, browser, app, Fit, Others, Created
<1> QED BY <1>1, <1>2, <1>3, <1>4, <1>5, <1>6, <1>8, <1>9, <1>10, <1>11, <1>12 DEF Next

\* Every reachable state has the types the module claims, for any views, any
\* bounds and any buttons.
THEOREM TypesHold == Spec => []TypeOK
<1>1. IInv => TypeOK BY DEF IInv
<1> QED BY <1>1, InitOK, StepOK, PTL DEF Spec

\* The view the application holds is the only one not destroyed, however
\* navigations, redirections, imports, renderings and reloads interleave
\* (AppView.showView and the comment on #3187 in it).
THEOREM OneViewIsAlive == Spec => []AliveIsCurrent
<1>1. IInv => AliveIsCurrent BY DEF IInv
<1> QED BY <1>1, InitOK, StepOK, PTL DEF Spec

-----------------------------------------------------------------------------
(***************************************************************************)
(* The users of MCNavigation who wait for each screen.  They navigate when *)
(* nothing renders and nothing is imported, except for a redirection, of   *)
(* the only view that renders: that is the current one, a view that is     *)
(* imported is that of the page one is at, and what is shown when all is   *)
(* done is the current view.                                               *)
(*                                                                         *)
(* For the one who keeps to the buttons of the screens, the stack of       *)
(* models and the history go together. They are changed in different       *)
(* places, and a page that goes back has taken the model off the stack     *)
(* before the browser has moved: what agrees is the stack and the history  *)
(* up to `place - back'.  A reload empties the stack, so that it may be    *)
(* shorter.  What a model has been filled with is meant for the view that  *)
(* has the model, and for that of the page whose navigation made it: so    *)
(* filling the one from the other mixes nothing.                           *)
(***************************************************************************)
Quiet(vs) == \A i \in DOMAIN vs : vs[i].is # "rendering"
Calm(vs) == \A i \in DOMAIN vs : vs[i].is \in {"shown", "refused", "failed"}

\* The current view can give way to that of the page.
Ready(vs, page) ==
    current # 0 =>
        /\ vs[current].is # "refused"
        /\ vs[current].is = "navigated" => ViewOf[vs[current].page.url] # ViewOf[page.url]
        /\ vs[current].is \in {"shown", "failed"} => shown \in {0, current}

Waits ==
    /\ \A i \in DOMAIN views : views[i].is = "rendering" => i = current
    /\ Ready(views, history[place])
    /\ current # 0 /\ views[current].is = "navigated" => loading # {}
    /\ current = 0 => loading # {}
    /\ current # 0 /\ loading = {} => views[current].page.url = history[place].url
    /\ back \in {0, 1} /\ back < place
    /\ back = 1 => Calm(views) /\ loading = {}
    /\ loading # {} => loading = {history[place]} /\ Quiet(views)

\* What the models are filled with is meant for the views that have them, and
\* for the pages of the navigations that made them. Nothing is in a model that
\* is not used yet.
Kinds(vs, attrs, pages, n) ==
    /\ \A i \in DOMAIN vs :
          /\ vs[i].model \in 1..n \cup {Own(i)}
          /\ attrs[vs[i].model] = {} => vs[i].model = Own(i)
          /\ \A q \in attrs[vs[i].model] : ViewOf[q.url] = ViewOf[vs[i].page.url]
    /\ \A k \in DOMAIN pages :
          /\ pages[k].data \in 0..n
          /\ pages[k].data # 0 => \A q \in attrs[pages[k].data] : ViewOf[q.url] = ViewOf[pages[k].url]
    /\ \A j \in (1..MaxViews) \ DOMAIN vs : attrs[Own(j)] = {}

\* The models are those of the last pages up to the n-th.
InStep(models, pages, n) ==
    /\ Len(models) <= n
    /\ \A k \in 1..Len(models) : models[k] = pages[n - Len(models) + k].data

\* They have the data of those pages.
Filled(models, pages, attrs, n) ==
    \A k \in DOMAIN models :
        /\ models[k] \in 1..n
        /\ \A j \in DOMAIN pages : pages[j].data = models[k] => pages[j] \in attrs[models[k]]

\* The current view has data of the URL.
Has(vs, cur, attrs, models, url) ==
    cur # 0 /\ models # <<>> => \E page \in attrs[vs[cur].model] : page.url = url

Agrees ==
    /\ Kinds(views, attributes, history, made)
    /\ InStep(viewModels, history, place - back)
    /\ Filled(viewModels, history, attributes, made)
    /\ loading = {} => Has(views, current, attributes, viewModels, history[place].url)

PatientInv ==
    /\ IInv
    /\ user \in {"hasty", "patient", "browsing"}
    /\ user # "hasty" => Waits
    /\ user = "patient" => Agrees

-----------------------------------------------------------------------------
(***************************************************************************)
(* Waiting.                                                                *)
(***************************************************************************)
LEMMA ShowWaits ==
    ASSUME NEW vs, Fit(vs, current), Quiet(vs), NEW page, Ready(vs, page),
           NEW models, NEW attrs, shown' = shown,
           Stays(vs, page, models, attrs) \/ Replaced(vs, page, models, attrs),
           loading' = {}, back' = 0, place' \in Nat \ {0}, history'[place'] = page
    PROVE  Waits'
<1>1. current # 0 => current \in DOMAIN vs /\ vs[current] \in Instance BY DEF Fit
<1>2. CASE Stays(vs, page, models, attrs)
  <2>1. /\ current # 0 /\ current' = current /\ DOMAIN views' = DOMAIN vs
        /\ \A i \in DOMAIN vs : views'[i].is = vs[i].is
        /\ views'[current].page = page
        /\ ViewOf[vs[current].page.url] = ViewOf[page.url]
    BY <1>2 DEF Stays
  <2>2. vs[current].is \in {"shown", "failed"} BY <1>1, <2>1 DEF Ready, Quiet, Instance
  <2>3. shown' \in {0, current'} BY <2>1, <2>2 DEF Ready
  <2>4. views'[current'].is \in {"shown", "failed"} BY <1>1, <2>1, <2>2
  <2>5. Quiet(views') BY <2>1 DEF Quiet
  <2> QED BY <2>1, <2>3, <2>4, <2>5 DEF Waits, Ready, Quiet
<1>3. CASE Replaced(vs, page, models, attrs)
  <2>1. PICK new : /\ current' = new /\ new # 0 /\ DOMAIN views' = DOMAIN vs \cup {new}
                   /\ views'[new].page = page /\ views'[new].is = "rendering"
                   /\ \A i \in DOMAIN vs : views'[i].is = vs[i].is
    BY <1>3 DEF Replaced
  <2>2. \A i \in DOMAIN views' : views'[i].is = "rendering" => i = current' BY <2>1 DEF Quiet
  <2> QED BY <2>1, <2>2 DEF Waits, Ready
<1> QED BY <1>2, <1>3

LEMMA RouteWaits ==
    ASSUME NEW vs, Fit(vs, current), Quiet(vs), NEW page \in Page, Ready(vs, page),
           NEW models \in Seq(Data \ {0}), NEW attrs \in [Model -> SUBSET Page],
           canGoBack \in BOOLEAN, loading = {}, Route(vs, page, models, attrs),
           back' = 0, place' \in Nat \ {0}, history'[place'] = page
    PROVE  Waits'
<1>1. CASE ShowView(vs, page, models, attrs) /\ UNCHANGED loading
  <2>1. /\ shown' = shown
        /\ Stays(vs, page, models, attrs) \/ Replaced(vs, page, models, attrs)
    BY <1>1, ShowViewFits
  <2> QED BY <1>1, <2>1, ShowWaits
<1>2. CASE loading' = loading \cup {page} /\ views' = vs /\ UNCHANGED <<current, shown>>
  BY <1>2 DEF Waits, Ready, Quiet
<1> QED BY <1>1, <1>2 DEF Route

-----------------------------------------------------------------------------
(***************************************************************************)
(* The stack of models, the history and what the models are filled with.   *)
(***************************************************************************)
LEMMA TopInStep ==
    ASSUME NEW models \in Seq(Data \ {0}), models # <<>>, NEW pages, NEW n \in Nat,
           InStep(models, pages, n)
    PROVE  Top(models) = pages[n].data
<1>1. Len(models) \in 1..Len(models) /\ n - Len(models) + Len(models) = n OBVIOUS
<1> QED BY <1>1 DEF Top, InStep

\* A model that is filled still has what it had (Backbone's Model.set).
LEMMA ShowFills ==
    ASSUME NEW vs, NEW page, NEW models, NEW attrs \in [Model -> SUBSET Page],
           Stays(vs, page, models, attrs) \/ Replaced(vs, page, models, attrs)
    PROVE  \A m \in Model : attrs[m] \subseteq attributes'[m]
<1>1. attributes' = [attrs EXCEPT ![vs[current].model] = @ \cup attrs[Top(models)]] \/ attributes' = attrs
  BY DEF Stays, Replaced
<1> QED BY <1>1

LEMMA StillFilled ==
    ASSUME NEW models \in Seq(Data \ {0}), NEW pages, NEW attrs, NEW more, NEW n,
           Filled(models, pages, attrs, n), \A m \in Model : attrs[m] \subseteq more[m]
    PROVE  Filled(models, pages, more, n)
<1>1. \A k \in DOMAIN models : models[k] \in Model BY ModelTypes
<1> QED BY <1>1 DEF Filled

\* Showing the view of a page mixes no data of two views, and gives the view
\* that of its URL.
LEMMA ShowAgrees ==
    ASSUME NEW vs, Fit(vs, current), NEW page \in Page, NEW models \in Seq(Data \ {0}),
           NEW attrs \in [Model -> SUBSET Page], NEW pages, NEW n \in Data,
           Kinds(vs, attrs, pages, n), NEW k \in DOMAIN pages, pages[k] = page,
           models # <<>> => Top(models) = page.data /\ page \in attrs[Top(models)],
           Stays(vs, page, models, attrs) \/ Replaced(vs, page, models, attrs)
    PROVE  /\ Kinds(views', attributes', pages, n)
           /\ Has(views', current', attributes', models, page.url)
<1>0. /\ \A i \in DOMAIN vs : vs[i] \in Instance /\ vs[i].model \in Model /\ i \in 1..MaxViews
      /\ current # 0 => current \in DOMAIN vs
      /\ n \in Nat /\ n <= MaxNavigations /\ MaxViews \in Nat
      /\ 1..n \subseteq Data \ {0}
  <2>1. n \in Nat /\ n <= MaxNavigations /\ MaxViews \in Nat /\ 1..n \subseteq Data \ {0}
    BY NavigationAssumption DEF Data
  <2>2. vs \in Seq(Instance) /\ Len(vs) <= MaxViews /\ (current # 0 => current \in DOMAIN vs)
    BY DEF Fit
  <2>3. DOMAIN vs = 1..Len(vs) /\ Len(vs) \in Nat /\ \A i \in DOMAIN vs : vs[i] \in Instance BY <2>2
  <2>4. \A i \in DOMAIN vs : i \in 1..MaxViews BY <2>1, <2>2, <2>3
  <2>5. \A i \in DOMAIN vs : vs[i].model \in Model BY <2>3 DEF Instance
  <2> QED BY <2>1, <2>2, <2>3, <2>4, <2>5
<1>a. models # <<>> => /\ Top(models) \in Model /\ Top(models) \in Data \ {0}
                       /\ \A q \in attrs[Top(models)] : ViewOf[q.url] = ViewOf[page.url]
  BY TopType, ModelTypes DEF Kinds
<1>1. CASE Stays(vs, page, models, attrs)
  <2> DEFINE c == vs[current].model
  <2>1. /\ current # 0 /\ current' = current /\ DOMAIN views' = DOMAIN vs
        /\ ViewOf[vs[current].page.url] = ViewOf[page.url]
        /\ views'[current].page = page
        /\ \A i \in DOMAIN vs : /\ i # current => views'[i] = vs[i]
                                /\ views'[i].model = vs[i].model
    BY <1>1 DEF Stays
  <2>2. c \in Model /\ current \in DOMAIN vs BY <1>0, <2>1
  <2>3. /\ \A m \in Model \ {c} : attributes'[m] = attrs[m]
        /\ models = <<>> => attributes'[c] = attrs[c]
        /\ models # <<>> => attributes'[c] = attrs[c] \cup attrs[Top(models)]
    BY <1>1, <2>2 DEF Stays
  <2>4. \A i \in DOMAIN vs : ViewOf[views'[i].page.url] = ViewOf[vs[i].page.url]
    BY <2>1
  <2>5. \A q \in attributes'[c] : ViewOf[q.url] = ViewOf[page.url]
    BY <1>a, <2>1, <2>2, <2>3 DEF Kinds
  <2>6. attrs[c] = {} => c = Own(current) BY <2>2 DEF Kinds
  <2>7. ASSUME NEW i \in DOMAIN views'
        PROVE  /\ views'[i].model \in 1..n \cup {Own(i)}
               /\ attributes'[views'[i].model] = {} => views'[i].model = Own(i)
               /\ \A q \in attributes'[views'[i].model] : ViewOf[q.url] = ViewOf[views'[i].page.url]
    <3>1. /\ i \in DOMAIN vs /\ views'[i].model = vs[i].model /\ vs[i].model \in Model
          /\ vs[i].model \in 1..n \cup {Own(i)}
          /\ attrs[vs[i].model] = {} => vs[i].model = Own(i)
          /\ \A q \in attrs[vs[i].model] : ViewOf[q.url] = ViewOf[vs[i].page.url]
      BY <1>0, <2>1 DEF Kinds
    <3>2. CASE vs[i].model # c BY <2>3, <2>4, <3>1, <3>2
    <3>3. CASE vs[i].model = c
      <4>1. CASE attrs[c] = {}
        <5>1. c = Own(current) /\ Own(current) \notin 1..n /\ current \in 1..MaxViews
          BY <1>0, <2>2, <2>6, <4>1, ModelTypes
        <5>2. i = current BY <1>0, <3>1, <3>3, <5>1, ModelTypes
        <5> QED BY <2>1, <2>5, <3>1, <3>3, <5>1, <5>2
      <4>2. CASE attrs[c] # {}
        <5>1. PICK q \in attrs[c] : TRUE BY <4>2
        <5>2. /\ ViewOf[q.url] = ViewOf[vs[i].page.url] /\ ViewOf[q.url] = ViewOf[vs[current].page.url]
          BY <2>2, <3>1, <3>3, <5>1 DEF Kinds
        <5>3. ViewOf[views'[i].page.url] = ViewOf[page.url] BY <2>1, <2>4, <3>1, <5>2
        <5>4. attributes'[c] # {} BY <2>3, <4>2
        <5> QED BY <2>5, <3>1, <3>3, <5>3, <5>4
      <4> QED BY <4>1, <4>2
    <3> QED BY <3>2, <3>3
  <2>8. ASSUME NEW j \in DOMAIN pages
        PROVE  /\ pages[j].data \in 0..n
               /\ pages[j].data # 0 => \A q \in attributes'[pages[j].data] : ViewOf[q.url] = ViewOf[pages[j].url]
    <3>1. pages[j].data \in 0..n BY DEF Kinds
    <3>2. CASE pages[j].data = 0 BY <3>1, <3>2
    <3>3. CASE pages[j].data # 0
      <4>0. pages[j].data \in 1..n BY <1>0, <3>1, <3>3
      <4>1. pages[j].data \in Data \ {0} /\ pages[j].data \in Model
        BY <1>0, <4>0, ModelTypes
      <4>2. \A q \in attrs[pages[j].data] : ViewOf[q.url] = ViewOf[pages[j].url] BY <3>3 DEF Kinds
      <4>3. CASE pages[j].data # c BY <2>3, <3>1, <4>1, <4>2, <4>3
      <4>4. CASE pages[j].data = c
        <5>1. attrs[c] # {} BY <1>0, <2>2, <2>6, <4>1, <4>4, ModelTypes
        <5>2. PICK q \in attrs[c] : TRUE BY <5>1
        <5>3. ViewOf[q.url] = ViewOf[pages[j].url] /\ ViewOf[q.url] = ViewOf[vs[current].page.url]
          BY <2>2, <4>2, <4>4, <5>2 DEF Kinds
        <5> QED BY <2>1, <2>5, <3>1, <4>4, <5>3
      <4> QED BY <4>3, <4>4
    <3> QED BY <3>2, <3>3
  <2>9. ASSUME NEW j \in (1..MaxViews) \ DOMAIN views' PROVE attributes'[Own(j)] = {}
    <3>1. j \in (1..MaxViews) \ DOMAIN vs /\ attrs[Own(j)] = {} /\ Own(j) \in Model
      BY <2>1, ModelTypes DEF Kinds
    <3>2. Own(j) # c
      <4>1. c \in 1..n \cup {Own(current)} /\ current \in 1..MaxViews /\ j # current
        BY <1>0, <2>2, <3>1 DEF Kinds
      <4>2. Own(j) \notin 1..n BY <1>0, <3>1, ModelTypes
      <4> QED BY <4>1, <4>2, <3>1, ModelTypes
    <3> QED BY <2>3, <3>1, <3>2
  <2>10. Kinds(views', attributes', pages, n) BY <2>7, <2>8, <2>9 DEF Kinds
  <2>11. Has(views', current', attributes', models, page.url)
    <3>1. models # <<>> => page \in attributes'[c] BY <2>3
    <3>2. views'[current'].model = c BY <2>1, <2>2
    <3> QED BY <3>1, <3>2 DEF Has
  <2> QED BY <2>10, <2>11
<1>2. CASE Replaced(vs, page, models, attrs)
  <2> DEFINE new == Len(vs) + 1
  <2>1. /\ current' = new /\ new <= MaxViews /\ Len(vs) \in Nat /\ DOMAIN vs = 1..Len(vs)
        /\ DOMAIN views' = DOMAIN vs \cup {new} /\ new \notin DOMAIN vs
        /\ views'[new].page = page
        /\ views'[new].model = IF models = <<>> THEN Own(new) ELSE Top(models)
        /\ \A i \in DOMAIN vs : views'[i].page = vs[i].page /\ views'[i].model = vs[i].model
        /\ attributes' = attrs
    BY <1>2 DEF Replaced
  <2>2. new \in (1..MaxViews) \ DOMAIN vs BY <1>0, <2>1
  <2>3. attrs[Own(new)] = {} BY <2>2 DEF Kinds
  <2> HIDE DEF new
  <2>4. /\ views'[new].model \in 1..n \cup {Own(new)}
        /\ attrs[views'[new].model] = {} => views'[new].model = Own(new)
        /\ \A q \in attrs[views'[new].model] : ViewOf[q.url] = ViewOf[page.url]
    <3>1. CASE models = <<>> BY <2>1, <2>3, <3>1
    <3>2. CASE models # <<>>
      <4>1. Top(models) = page.data /\ page.data \in 0..n /\ page.data # 0 /\ page \in attrs[Top(models)]
        BY <1>a, <3>2 DEF Kinds
      <4>2. Top(models) \in 1..n BY <1>0, <4>1
      <4> QED BY <1>a, <2>1, <3>2, <4>1, <4>2
    <3> QED BY <3>1, <3>2
  <2>5. Kinds(views', attributes', pages, n) BY <2>1, <2>4 DEF Kinds
  <2>6. Has(views', current', attributes', models, page.url)
    <3>1. models # <<>> => page \in attrs[views'[new].model] BY <2>1
    <3> QED BY <2>1, <3>1 DEF Has
  <2> QED BY <2>5, <2>6
<1> QED BY <1>1, <1>2

\* So does showing it with the models on the stack.
LEMMA ShowInStep ==
    ASSUME NEW vs, Fit(vs, current), NEW models \in Seq(Data \ {0}), canGoBack \in BOOLEAN,
           NEW attrs \in [Model -> SUBSET Page], NEW pages \in Seq(Page), NEW n \in Data,
           Kinds(vs, attrs, pages, n), NEW k \in DOMAIN pages,
           InStep(models, pages, k), Filled(models, pages, attrs, n),
           ShowView(vs, pages[k], models, attrs)
    PROVE  /\ Kinds(views', attributes', pages, n)
           /\ Filled(models, pages, attributes', n)
           /\ Has(views', current', attributes', models, pages[k].url)
<1>1. pages[k] \in Page /\ k \in Nat OBVIOUS
<1>2. Stays(vs, pages[k], models, attrs) \/ Replaced(vs, pages[k], models, attrs)
  BY <1>1, ShowViewFits
<1>3. models # <<>> => Top(models) = pages[k].data /\ pages[k] \in attrs[Top(models)]
  <2> SUFFICES ASSUME models # <<>> PROVE Top(models) = pages[k].data /\ pages[k] \in attrs[Top(models)]
    OBVIOUS
  <2>1. Top(models) = pages[k].data BY <1>1, TopInStep
  <2>2. Len(models) \in DOMAIN models /\ Top(models) = models[Len(models)] BY DEF Top
  <2> QED BY <2>1, <2>2 DEF Filled
<1>4. \A m \in Model : attrs[m] \subseteq attributes'[m] BY <1>2, ShowFills
<1>5. Filled(models, pages, attributes', n) BY <1>4, StillFilled
<1>6. Kinds(views', attributes', pages, n) /\ Has(views', current', attributes', models, pages[k].url)
  BY <1>1, <1>2, <1>3, ShowAgrees
<1> QED BY <1>5, <1>6

LEMMA RouteInStep ==
    ASSUME NEW vs, Fit(vs, current), NEW models \in Seq(Data \ {0}), canGoBack \in BOOLEAN,
           NEW attrs \in [Model -> SUBSET Page], NEW pages \in Seq(Page), NEW n \in Data,
           Kinds(vs, attrs, pages, n), NEW k \in DOMAIN pages,
           InStep(models, pages, k), Filled(models, pages, attrs, n),
           Route(vs, pages[k], models, attrs)
    PROVE  /\ Kinds(views', attributes', pages, n)
           /\ Filled(models, pages, attributes', n)
           /\ loading' = {} => Has(views', current', attributes', models, pages[k].url)
<1>1. CASE ShowView(vs, pages[k], models, attrs) BY <1>1, ShowInStep
<1>2. CASE loading' = loading \cup {pages[k]} /\ views' = vs /\ attributes' = attrs BY <1>2
<1> QED BY <1>1, <1>2 DEF Route

-----------------------------------------------------------------------------
(***************************************************************************)
(* Navigating.                                                             *)
(***************************************************************************)
NewPage(url) == [url |-> url, data |-> made + 1]
NewAttributes(url) == [attributes EXCEPT ![made + 1] = {NewPage(url)}]

Arrives(vs, url, replace) ==
    /\ NewPage(url) \in Page /\ NewAttributes(url) \in [Model -> SUBSET Page]
    /\ made + 1 \in Data \ {0} /\ made' = made + 1
    /\ viewModels' = Pushed(replace) /\ viewModels' \in Seq(Data \ {0})
    /\ back' = back
    /\ history' = IF replace THEN [history EXCEPT ![place] = NewPage(url)]
                  ELSE Append(SubSeq(history, 1, place), NewPage(url))
    /\ place' = IF replace THEN place ELSE place + 1
    /\ history' \in Seq(Page) /\ place' \in DOMAIN history' /\ place' \in Nat \ {0}
    /\ history'[place'] = NewPage(url)
    /\ \A k \in DOMAIN history' :
          history'[k] = NewPage(url) \/ \E j \in DOMAIN history : history'[k] = history[j]
    /\ Route(vs, NewPage(url), viewModels', NewAttributes(url))

\* Where a navigation leads (Router.navigate).
LEMMA Navigating ==
    ASSUME Others, NEW vs, NEW url \in Url, NEW replace \in BOOLEAN,
           Navigate(vs, url, replace), history' # history
    PROVE  Arrives(vs, url, replace)
<1>1. /\ made < MaxNavigations /\ made' = made + 1
      /\ viewModels' = Pushed(replace) /\ back' = back
      /\ history' = IF replace THEN [history EXCEPT ![place] = NewPage(url)]
                    ELSE Append(SubSeq(history, 1, place), NewPage(url))
      /\ place' = IF replace THEN place ELSE place + 1
      /\ Route(vs, NewPage(url), Pushed(replace), NewAttributes(url))
  BY DEF Navigate, NewPage, NewAttributes
<1>2. made + 1 \in Data \ {0} BY <1>1, NavigationAssumption DEF Others, Data
<1>3. NewPage(url) \in Page BY <1>2 DEF NewPage, Page
<1>4. {NewPage(url)} \in SUBSET Page BY <1>3
<1>5. NewAttributes(url) \in [Model -> SUBSET Page]
  BY <1>2, <1>4, ModelTypes DEF Others, NewAttributes
<1>6. Pushed(replace) \in Seq(Data \ {0}) BY <1>2, PushedType DEF Others
<1>7. /\ history \in Seq(Page) /\ place \in 1..Len(history) /\ Len(history) \in Nat
      /\ DOMAIN history = 1..Len(history)
  BY DEF Others
<1>8. /\ history' \in Seq(Page) /\ place' \in DOMAIN history' /\ place' \in Nat \ {0}
      /\ history'[place'] = NewPage(url)
      /\ \A k \in DOMAIN history' :
            history'[k] = NewPage(url) \/ \E j \in DOMAIN history : history'[k] = history[j]
  <2>1. CASE replace BY <1>1, <1>3, <1>7, <2>1
  <2>2. CASE ~replace
    <3> DEFINE s == SubSeq(history, 1, place)
    <3>1. s \in Seq(Page) /\ Len(s) = place /\ \A k \in 1..place : s[k] = history[k] BY <1>7
    <3>2. history' = Append(s, NewPage(url)) /\ place' = place + 1 BY <1>1, <2>2
    <3> DEFINE p == NewPage(url)
    <3>a. p \in Page /\ history' = Append(s, p) BY <1>3, <3>2
    <3>b. place \in Nat BY <1>7
    <3> HIDE DEF s, p
    <3>c. /\ history' \in Seq(Page) /\ DOMAIN history' = 1..(place + 1)
          /\ history'[place + 1] = p /\ \A k \in 1..place : history'[k] = s[k]
      BY <3>a, <3>b, <3>1
    <3>3. /\ history' \in Seq(Page) /\ DOMAIN history' = 1..(place + 1)
          /\ history'[place + 1] = NewPage(url) /\ \A k \in 1..place : history'[k] = s[k]
      BY <3>c DEF p
    <3>4. \A k \in 1..(place + 1) : k = place + 1 \/ k \in 1..place BY <1>7
    <3>5. \A k \in 1..place : k \in DOMAIN history BY <1>7
    <3>6. \A k \in 1..place : history'[k] = history[k] BY <3>1, <3>3
    <3>7. place' \in DOMAIN history' /\ place' \in Nat \ {0} /\ history'[place'] = NewPage(url)
      BY <3>b, <3>2, <3>3
    <3>8. \A k \in DOMAIN history' :
            history'[k] = NewPage(url) \/ \E j \in DOMAIN history : history'[k] = history[j]
      BY <3>3, <3>4, <3>5, <3>6
    <3> QED BY <3>3, <3>7, <3>8
  <2> QED BY <2>1, <2>2
<1> QED BY <1>1, <1>2, <1>3, <1>5, <1>6, <1>8 DEF Arrives

\* What it puts on the stack is the model of the page it adds to the history,
\* or replaces in it.
LEMMA PushedInStep ==
    ASSUME Others, InStep(viewModels, history, place), NEW replace \in BOOLEAN,
           NEW page, page.data = made + 1,
           history' = IF replace THEN [history EXCEPT ![place] = page]
                      ELSE Append(SubSeq(history, 1, place), page),
           place' = IF replace THEN place ELSE place + 1,
           viewModels' = Pushed(replace)
    PROVE  InStep(viewModels', history', place') /\ history'[place'] = page
<1> DEFINE n == Len(viewModels)
<1>1. place \in Nat \ {0} /\ place <= Len(history) /\ n \in Nat /\ n <= place
      /\ history \in Seq(Page) /\ viewModels \in Seq(Data \ {0})
  BY DEF Others, InStep
<1>2. CASE replace
  <2>1. /\ history'[place] = page /\ place' = place
        /\ \A k \in 1..(place - 1) : history'[k] = history[k]
    BY <1>1, <1>2
  <2>2. CASE viewModels = <<>>
    <3>1. viewModels' = <<made + 1>> BY <1>2, <2>2 DEF Pushed
    <3>2. Len(viewModels') = 1 /\ viewModels'[1] = made + 1 BY <3>1
    <3>3. place - 1 + 1 = place BY <1>1
    <3> QED BY <1>1, <2>1, <3>2, <3>3 DEF InStep
  <2>3. CASE viewModels # <<>>
    <3>1. viewModels' = [viewModels EXCEPT ![n] = made + 1] BY <1>2, <2>3 DEF Pushed
    <3>2. n > 0 BY <1>1, <2>3
    <3>3. /\ Len(viewModels') = n /\ viewModels'[n] = made + 1
          /\ \A k \in 1..(n - 1) : viewModels'[k] = viewModels[k]
      BY <1>1, <3>1, <3>2
    <3>4. \A k \in 1..(n - 1) : place - n + k \in 1..(place - 1) /\ k \in 1..n BY <1>1, <3>2
    <3>5. \A k \in 1..(n - 1) : viewModels'[k] = history'[place - n + k].data
      BY <2>1, <3>3, <3>4 DEF InStep
    <3>6. place - n + n = place BY <1>1
    <3>7. \A k \in 1..n : k = n \/ k \in 1..(n - 1) BY <1>1
    <3>8. viewModels'[n] = history'[place - n + n].data BY <2>1, <3>3, <3>6
    <3>9. \A k \in 1..n : viewModels'[k] = history'[place - n + k].data BY <3>5, <3>7, <3>8
    <3>10. Len(viewModels') = n /\ n <= place /\ place' = place BY <1>1, <2>1, <3>3
    <3> HIDE DEF n
    <3>11. InStep(viewModels', history', place') BY <3>9, <3>10 DEF InStep
    <3> QED BY <2>1, <3>11
  <2> QED BY <2>2, <2>3
<1>3. CASE ~replace
  <2>1. /\ history'[place + 1] = page /\ place' = place + 1
        /\ \A k \in 1..place : history'[k] = history[k]
    <3>1. SubSeq(history, 1, place) \in Seq(Page) /\ Len(SubSeq(history, 1, place)) = place
          /\ \A k \in 1..place : SubSeq(history, 1, place)[k] = history[k]
      BY <1>1
    <3> QED BY <1>1, <1>3, <3>1
  <2>2. viewModels' = Append(viewModels, made + 1) BY <1>3 DEF Pushed
  <2>3. /\ Len(viewModels') = n + 1 /\ viewModels'[n + 1] = made + 1
        /\ \A k \in 1..n : viewModels'[k] = viewModels[k]
    BY <1>1, <2>2
  <2>4. \A k \in 1..n : place - n + k \in 1..place /\ place + 1 - (n + 1) + k = place - n + k BY <1>1
  <2>5. \A k \in 1..n : viewModels'[k] = history'[place + 1 - (n + 1) + k].data
    BY <2>1, <2>3, <2>4 DEF InStep
  <2>6. place + 1 - (n + 1) + (n + 1) = place + 1 BY <1>1
  <2>7. \A k \in 1..(n + 1) : k = n + 1 \/ k \in 1..n BY <1>1
  <2>8. \A k \in 1..(n + 1) : viewModels'[k] = history'[place + 1 - (n + 1) + k].data
    <3>1. viewModels'[n + 1] = history'[place + 1 - (n + 1) + (n + 1)].data
      BY <2>1, <2>3, <2>6
    <3> QED BY <2>5, <2>7, <3>1
  <2>9. n + 1 <= place + 1 BY <1>1
  <2>10. place' = place + 1 /\ Len(viewModels') = n + 1 BY <2>1, <2>3
  <2>11. \A k \in 1..Len(viewModels') : viewModels'[k] = history'[place' - Len(viewModels') + k].data
    <3> HIDE DEF n
    <3> TAKE k \in 1..Len(viewModels')
    <3>1. k \in 1..(n + 1) BY <2>10
    <3>2. place' - Len(viewModels') + k = place + 1 - (n + 1) + k BY <2>10
    <3>3. viewModels'[k] = history'[place + 1 - (n + 1) + k].data BY <2>8, <3>1
    <3> QED BY <3>2, <3>3
  <2>12. Len(viewModels') <= place' BY <2>9, <2>10
  <2>13. InStep(viewModels', history', place') BY ONLY <2>11, <2>12 DEF InStep
  <2> QED BY <2>1, <2>13
<1> QED BY <1>2, <1>3

\* The models, the pages and what is in the models after it, before its view is
\* shown.
LEMMA NavigateInStep ==
    ASSUME NEW vs, Fit(vs, current), Others, NEW url \in Url, NEW replace \in BOOLEAN,
           Kinds(vs, attributes, history, made), InStep(viewModels, history, place),
           Filled(viewModels, history, attributes, made),
           Navigate(vs, url, replace), history' # history
    PROVE  /\ Kinds(vs, NewAttributes(url), history', made + 1)
           /\ InStep(viewModels', history', place')
           /\ Filled(viewModels', history', NewAttributes(url), made + 1)
<1> DEFINE page == NewPage(url)
           attrs == NewAttributes(url)
<1>z. Arrives(vs, url, replace) BY Navigating
<1>0. /\ made + 1 \in Data \ {0} /\ viewModels' = Pushed(replace)
      /\ history' = IF replace THEN [history EXCEPT ![place] = page]
                    ELSE Append(SubSeq(history, 1, place), page)
      /\ place' = IF replace THEN place ELSE place + 1
      /\ \A k \in DOMAIN history' :
            history'[k] = page \/ \E j \in DOMAIN history : history'[k] = history[j]
  BY <1>z DEF Arrives
<1>1. page.data = made + 1 /\ page.url = url BY DEF NewPage
<1>2. /\ made + 1 \in Model /\ made \in Nat /\ made + 1 \notin 1..made /\ made + 1 \notin 0..made
      /\ 1..made \subseteq 1..(made + 1) /\ 0..made \subseteq 0..(made + 1)
      /\ made + 1 \in 1..(made + 1)
  BY <1>0, ModelTypes DEF Others, Data
<1>3. /\ attrs[made + 1] = {page} /\ \A m \in Model \ {made + 1} : attrs[m] = attributes[m]
  BY <1>2 DEF NewAttributes, Others
<1>4. \A j \in 1..MaxViews : Own(j) \in Model /\ Own(j) # made + 1 BY <1>0, ModelTypes
<1>5. \A i \in DOMAIN vs : i \in 1..MaxViews /\ vs[i].model \in Model
  <2>1. vs \in Seq(Instance) /\ Len(vs) <= MaxViews /\ MaxViews \in Nat BY NavigationAssumption DEF Fit
  <2>2. \A i \in DOMAIN vs : vs[i] \in Instance /\ i \in 1..MaxViews BY <2>1
  <2> QED BY <2>2 DEF Instance
<1>6. 1..made \subseteq Model BY NavigationAssumption DEF Others, Data, Model
<1>i. InStep(viewModels', history', place')
  <2> HIDE DEF page
  <2> QED BY <1>0, <1>1, PushedInStep
<1> HIDE DEF page, attrs
<1>7. ASSUME NEW i \in DOMAIN vs
      PROVE  /\ vs[i].model \in 1..(made + 1) \cup {Own(i)}
             /\ attrs[vs[i].model] = {} => vs[i].model = Own(i)
             /\ \A q \in attrs[vs[i].model] : ViewOf[q.url] = ViewOf[vs[i].page.url]
  <2>1. vs[i].model \in 1..made \cup {Own(i)} BY DEF Kinds
  <2>2. vs[i].model # made + 1 BY <1>2, <1>4, <1>5, <2>1
  <2>3. attrs[vs[i].model] = attributes[vs[i].model] BY <1>3, <1>5, <2>2
  <2> QED BY <1>2, <2>1, <2>3 DEF Kinds
<1>8. ASSUME NEW k \in DOMAIN history'
      PROVE  /\ history'[k].data \in 0..(made + 1)
             /\ history'[k].data # 0 => \A q \in attrs[history'[k].data] : ViewOf[q.url] = ViewOf[history'[k].url]
  <2>1. CASE history'[k] = page BY <1>1, <1>2, <1>3, <2>1
  <2>2. CASE \E j \in DOMAIN history : history'[k] = history[j]
    <3>1. PICK j \in DOMAIN history : history'[k] = history[j] BY <2>2
    <3>2. history[j].data \in 0..made BY DEF Kinds
    <3>3. history[j].data # 0 => attrs[history[j].data] = attributes[history[j].data]
      <4>1. history[j].data # 0 => history[j].data \in 1..made BY <1>2, <3>2
      <4> QED BY <1>2, <1>3, <1>6, <4>1
    <3> QED BY <1>2, <3>1, <3>2, <3>3 DEF Kinds
  <2> QED BY <1>0, <2>1, <2>2
<1>9. \A j \in (1..MaxViews) \ DOMAIN vs : attrs[Own(j)] = {} BY <1>3, <1>4 DEF Kinds
<1>10. Kinds(vs, attrs, history', made + 1) BY <1>7, <1>8, <1>9 DEF Kinds
<1>11. \A k \in DOMAIN viewModels' :
          viewModels'[k] = made + 1 \/ \E l \in DOMAIN viewModels : viewModels'[k] = viewModels[l]
  <2>1. viewModels \in Seq(Data \ {0}) BY DEF Others
  <2> QED BY <1>0, <2>1 DEF Pushed
<1>12. ASSUME NEW k \in DOMAIN viewModels'
       PROVE  /\ viewModels'[k] \in 1..(made + 1)
              /\ \A j \in DOMAIN history' : history'[j].data = viewModels'[k] => history'[j] \in attrs[viewModels'[k]]
  <2>1. CASE viewModels'[k] = made + 1
    <3>1. ASSUME NEW j \in DOMAIN history', history'[j].data = made + 1 PROVE history'[j] \in attrs[made + 1]
      <4>1. CASE history'[j] = page BY <1>3, <4>1
      <4>2. CASE \E l \in DOMAIN history : history'[j] = history[l]
        BY <1>2, <3>1, <4>2 DEF Kinds
      <4> QED BY <1>0, <4>1, <4>2
    <3> QED BY <1>2, <2>1, <3>1
  <2>2. CASE \E l \in DOMAIN viewModels : viewModels'[k] = viewModels[l]
    <3>1. PICK l \in DOMAIN viewModels : viewModels'[k] = viewModels[l] BY <2>2
    <3>2. viewModels[l] \in 1..made BY DEF Filled
    <3>3. attrs[viewModels[l]] = attributes[viewModels[l]] BY <1>2, <1>3, <1>6, <3>2
    <3>4. ASSUME NEW j \in DOMAIN history', history'[j].data = viewModels[l]
          PROVE  history'[j] \in attrs[viewModels[l]]
      <4>1. history'[j] # page BY <1>1, <1>2, <3>2, <3>4
      <4>2. PICK h \in DOMAIN history : history'[j] = history[h] BY <1>0, <4>1
      <4> QED BY <3>3, <3>4, <4>2 DEF Filled
    <3> QED BY <1>2, <3>1, <3>2, <3>4
  <2> QED BY <1>11, <2>1, <2>2
<1>13. Filled(viewModels', history', attrs, made + 1) BY <1>12 DEF Filled
<1> QED BY <1>i, <1>10, <1>13 DEF attrs
\* Showing a view leaves what the others are doing as it is.
LEMMA NavigateKeepsIs ==
    ASSUME NEW vs, Fit(vs, current), Others, NEW url \in Url, NEW replace \in BOOLEAN,
           Navigate(vs, url, replace)
    PROVE  DOMAIN vs \subseteq DOMAIN views' /\ \A i \in DOMAIN vs : views'[i].is = vs[i].is
<1> DEFINE page == NewPage(url)
           attrs == NewAttributes(url)
<1>1. \/ views' = vs
      \/ ShowView(vs, page, Pushed(replace), attrs)
  BY DEF Navigate, Route, NewPage, NewAttributes
<1>2. made + 1 \in Data \ {0} BY NavigationAssumption DEF Navigate, Others, Data
<1>3. page \in Page BY <1>2 DEF NewPage, Page
<1>4. attrs \in [Model -> SUBSET Page]
  <2>1. {page} \in SUBSET Page BY <1>3
  <2> QED BY <1>2, <2>1, ModelTypes DEF NewAttributes, Others
<1>5. Pushed(replace) \in Seq(Data \ {0}) BY <1>2, PushedType DEF Others
<1>6. canGoBack \in BOOLEAN BY DEF Others
<1> HIDE DEF page, attrs
<1>7. CASE ShowView(vs, page, Pushed(replace), attrs)
  <2>1. /\ DOMAIN vs \subseteq DOMAIN views'
        /\ Stays(vs, page, Pushed(replace), attrs) \/ Replaced(vs, page, Pushed(replace), attrs)
    BY <1>3, <1>4, <1>5, <1>6, <1>7, ShowViewFits
  <2> QED BY <2>1 DEF Stays, Replaced
<1> QED BY <1>1, <1>7

\* Who waits goes nowhere while anything is under way, and redirects what
\* renders.
LEMMA WaitingNavigates ==
    ASSUME Fit(views, current), Others, WaitingStep
    PROVE  /\ \A url \in Url, replace \in BOOLEAN : Go(url, replace) => Settled /\ history' # history
           /\ \A i \in Created, url \in Url : Redirect(i, url) => history' # history
<1>1. ASSUME NEW url \in Url, NEW replace \in BOOLEAN, Go(url, replace)
      PROVE  Settled /\ history' # history
  <2>1. Navigate(views, url, replace) BY <1>1 DEF Go
  <2>2. made' # made BY <2>1 DEF Navigate, Others, Data
  <2>3. history' # history BY <2>2 DEF WaitingStep
  <2>4. DOMAIN views \subseteq DOMAIN views' /\ \A i \in DOMAIN views : views'[i].is = views[i].is
    BY <2>1, NavigateKeepsIs
  <2>5. Redirecting = {} BY <2>4 DEF Redirecting, Created
  <2> QED BY <2>2, <2>3, <2>5 DEF WaitingStep
<1>2. ASSUME NEW i \in Created, NEW url \in Url, Redirect(i, url)
      PROVE  history' # history
  <2>1. made' # made BY <1>2 DEF Redirect, Navigate, Others, Data
  <2> QED BY <2>1 DEF WaitingStep
<1> QED BY <1>1, <1>2

\* The state in which one who waits goes somewhere.
LEMMA SettledState ==
    ASSUME Fit(views, current), Waits, Settled
    PROVE  /\ Quiet(views) /\ Calm(views) /\ loading = {} /\ back = 0
           /\ \A page : Ready(views, page)
<1>1. Calm(views) /\ loading = {} /\ back = 0 BY DEF Settled, Calm, Created
<1>2. Quiet(views) BY <1>1 DEF Quiet, Calm
<1>3. current # 0 => current \in DOMAIN views BY DEF Fit
<1>4. \A page : Ready(views, page) BY <1>1, <1>3 DEF Ready, Waits, Calm
<1> QED BY <1>1, <1>2, <1>4

\* The view that is redirected.
Marked(i) == [views EXCEPT ![i].is = "navigated"]

LEMMA RedirectedState ==
    ASSUME Fit(views, current), Waits, NEW i \in Created, NEW url \in Url, Redirect(i, url)
    PROVE  /\ Fit(Marked(i), current) /\ DOMAIN Marked(i) = DOMAIN views
           /\ \A j \in DOMAIN views : /\ Marked(i)[j].page = views[j].page
                                      /\ Marked(i)[j].model = views[j].model
           /\ Quiet(Marked(i)) /\ loading = {} /\ back = 0
           /\ Ready(Marked(i), NewPage(url))
           /\ Navigate(Marked(i), url, FALSE)
<1>1. views[i].is = "rendering" /\ ViewOf[url] # ViewOf[views[i].page.url] /\ Navigate(Marked(i), url, FALSE)
  BY DEF Redirect, Marked
<1>2. i = current /\ i \in DOMAIN views /\ current # 0
  <2>1. i \in DOMAIN views /\ i # 0 BY DEF Created, Fit
  <2> QED BY <1>1, <2>1 DEF Waits
<1>3. loading = {} /\ back = 0
  BY <1>1, <1>2 DEF Waits, Quiet, Calm
<1>4. /\ Fit(Marked(i), current) /\ DOMAIN Marked(i) = DOMAIN views
      /\ \A j \in DOMAIN views : /\ Marked(i)[j].page = views[j].page
                                 /\ Marked(i)[j].model = views[j].model
                                 /\ Marked(i)[j].is = IF j = i THEN "navigated" ELSE views[j].is
  <2>1. Fit([views EXCEPT ![i].is = "navigated"], current) BY <1>2, MarkedFits
  <2>2. views[i] \in Instance /\ DOMAIN Marked(i) = DOMAIN views BY <1>2 DEF Fit, Marked
  <2>3. /\ Marked(i)[i].page = views[i].page /\ Marked(i)[i].model = views[i].model
        /\ Marked(i)[i].is = "navigated"
        /\ \A j \in DOMAIN views : j # i => Marked(i)[j] = views[j]
    BY <1>2, <2>2 DEF Marked, Instance
  <2> QED BY <1>2, <2>1, <2>2, <2>3 DEF Marked
<1>5. Quiet(Marked(i)) BY <1>2, <1>4 DEF Quiet, Waits
<1>6. Ready(Marked(i), NewPage(url))
  <2>1. NewPage(url).url = url BY DEF NewPage
  <2> QED BY <1>1, <1>2, <1>4, <2>1 DEF Ready
<1> QED BY <1>1, <1>3, <1>4, <1>5, <1>6

-----------------------------------------------------------------------------
(***************************************************************************)
(* Every step of one who waits.                                            *)
(***************************************************************************)
LEMMA NavigateWaits ==
    ASSUME NEW vs, Fit(vs, current), Others, NEW url \in Url, NEW replace \in BOOLEAN,
           Quiet(vs), Ready(vs, NewPage(url)), loading = {}, back = 0,
           Navigate(vs, url, replace), history' # history
    PROVE  Waits'
<1>1. Arrives(vs, url, replace) BY Navigating
<1>2. /\ NewPage(url) \in Page /\ NewAttributes(url) \in [Model -> SUBSET Page]
      /\ viewModels' \in Seq(Data \ {0}) /\ back' = 0
      /\ place' \in Nat \ {0} /\ history'[place'] = NewPage(url)
      /\ Route(vs, NewPage(url), viewModels', NewAttributes(url))
  BY <1>1 DEF Arrives
<1>3. canGoBack \in BOOLEAN BY DEF Others
<1> QED BY <1>2, <1>3, RouteWaits

LEMMA TraverseWaits ==
    ASSUME Fit(views, current), Others, Waits, Calm(views), loading = {}, back' = 0,
           NEW to \in DOMAIN history, Traverse(to)
    PROVE  Waits'
<1>1. place' = to /\ UNCHANGED <<history, canGoBack, made, viewModels>> BY DEF Traverse
<1>2. /\ history[to] \in Page /\ to \in Nat \ {0} /\ canGoBack \in BOOLEAN
      /\ viewModels \in Seq(Data \ {0}) /\ attributes \in [Model -> SUBSET Page]
  BY DEF Others
<1>3. current # 0 => current \in DOMAIN views BY DEF Fit
<1>4. Ready(views, history[to]) /\ Quiet(views) BY <1>3 DEF Ready, Quiet, Waits, Calm
<1>5. CASE Route(views, history[to], viewModels, attributes)
  BY <1>1, <1>2, <1>4, <1>5, RouteWaits
<1>6. CASE history[to].url = history[place].url /\ UNCHANGED app
  <2>1. UNCHANGED <<views, current, shown, loading>> BY <1>6 DEF app
  <2>2. history'[place'] = history[to] BY <1>1
  <2>3. Ready(views, history[to])' BY <1>1, <1>4, <2>1 DEF Ready
  <2> QED BY <1>1, <1>2, <1>4, <1>6, <2>1, <2>2, <1>3 DEF Waits, Ready, Calm, Quiet
<1> QED BY <1>5, <1>6 DEF Traverse

LEMMA WaitsStep ==
    ASSUME IInv, Waits, Next, WaitingStep
    PROVE  Waits'
<1>0. Fit(views, current) /\ Others BY IInvParts
<1>a. /\ place \in Nat \ {0} /\ canGoBack \in BOOLEAN /\ viewModels \in Seq(Data \ {0})
      /\ attributes \in [Model -> SUBSET Page] /\ history[place] \in Page
      /\ back \in {0, 1} /\ back < place
  BY <1>0 DEF Others, Waits
<1>b. /\ current # 0 => current \in DOMAIN views
      /\ \A i \in DOMAIN views : views[i] \in Instance /\ i # 0
  BY <1>0 DEF Fit
<1>1. ASSUME NEW url \in Url, NEW replace \in BOOLEAN, Go(url, replace) PROVE Waits'
  <2>1. Settled /\ history' # history BY <1>0, <1>1, WaitingNavigates
  <2>2. Navigate(views, url, replace) BY <1>1 DEF Go
  <2>3. Quiet(views) /\ loading = {} /\ back = 0 /\ Ready(views, NewPage(url))
    BY <1>0, <2>1, SettledState
  <2> QED BY <1>0, <2>1, <2>2, <2>3, NavigateWaits
<1>2. ASSUME NEW i \in Created, NEW url \in Url, Redirect(i, url) PROVE Waits'
  <2>1. history' # history BY <1>0, <1>2, WaitingNavigates
  <2>2. /\ Fit(Marked(i), current) /\ Quiet(Marked(i)) /\ loading = {} /\ back = 0
        /\ Ready(Marked(i), NewPage(url)) /\ Navigate(Marked(i), url, FALSE)
    BY <1>0, <1>2, RedirectedState
  <2> QED BY <1>0, <2>1, <2>2, NavigateWaits
<1>3. ASSUME NEW i \in Created, Refused(i) PROVE Waits'
  <2>1. /\ views[i].is = "navigated" /\ i \in DOMAIN views
        /\ current' = IF current = i THEN 0 ELSE current
        /\ UNCHANGED <<history, place, back, loading, shown>>
    BY <1>3 DEF Refused, browser, Created
  <2>2. /\ DOMAIN views' = DOMAIN views /\ views'[i].is = "refused"
        /\ \A j \in DOMAIN views : j # i => views'[j] = views[j]
    BY <1>3, <1>b, <2>1 DEF Refused, Instance
  <2>3. current = i => loading # {} BY <1>b, <2>1 DEF Waits
  <2>4. back = 0 BY <1>a, <2>1 DEF Waits, Calm
  <2>5. Quiet(views) => Quiet(views') BY <2>1, <2>2 DEF Quiet
  <2>6. \A j \in DOMAIN views' : views'[j].is = "rendering" => j = current'
    BY <2>1, <2>2 DEF Waits
  <2>7. Ready(views, history[place])' BY <1>b, <2>1, <2>2 DEF Waits, Ready
  <2>8. current' # 0 => current' = current /\ views'[current'] = views[current] BY <1>b, <2>1, <2>2
  <2> QED BY <1>a, <2>1, <2>3, <2>4, <2>5, <2>6, <2>7, <2>8 DEF Waits
<1>4. ASSUME NEW i \in Created, Rendered(i) PROVE Waits'
  <2>1. /\ views[i].is = "rendering" /\ i \in DOMAIN views
        /\ shown' = i /\ UNCHANGED <<history, place, back, loading, current>>
        /\ views' = [views EXCEPT ![i].is = "shown"]
    BY <1>4 DEF Rendered, browser, Created
  <2>2. /\ DOMAIN views' = DOMAIN views /\ views'[i].is = "shown" /\ views'[i].page = views[i].page
        /\ \A j \in DOMAIN views : j # i => views'[j] = views[j]
    BY <1>b, <2>1 DEF Instance
  <2>3. i = current /\ loading = {} /\ back = 0
    BY <1>a, <2>1 DEF Waits, Calm, Quiet
  <2> QED BY <1>a, <2>1, <2>2, <2>3 DEF Waits, Ready
<1>5. ASSUME NEW i \in Created, RenderFails(i) PROVE Waits'
  <2>1. /\ views[i].is \in {"rendering", "navigated"} /\ i \in DOMAIN views
        /\ shown' = 0 /\ UNCHANGED <<history, place, back, loading, current>>
        /\ views' = [views EXCEPT ![i].is = "failed"]
    BY <1>5 DEF RenderFails, browser, Created
  <2>2. /\ DOMAIN views' = DOMAIN views /\ views'[i].is = "failed" /\ views'[i].page = views[i].page
        /\ \A j \in DOMAIN views : j # i => views'[j] = views[j]
    BY <1>b, <2>1 DEF Instance
  <2>3. back = 0 BY <1>a, <2>1 DEF Waits, Calm
  <2>4. \A j \in DOMAIN views' : views'[j].is = "rendering" => j = current'
    BY <2>1, <2>2 DEF Waits
  <2>5. Quiet(views) => Quiet(views') BY <2>2 DEF Quiet
  <2>6. Ready(views, history[place])' BY <1>b, <2>1, <2>2 DEF Waits, Ready
  <2>7. current # 0 => views'[current].page = views[current].page BY <1>b, <2>2
  <2>8. current # 0 /\ views'[current].is = "navigated" => views[current].is = "navigated"
    BY <1>b, <2>2
  <2> QED BY <1>a, <2>1, <2>3, <2>4, <2>5, <2>6, <2>7, <2>8 DEF Waits
<1>6. ASSUME NEW page \in loading, Imported(page) PROVE Waits'
  <2>1. loading = {history[place]} /\ back = 0 /\ Quiet(views) BY <1>a, <1>6 DEF Waits
  <2>2. /\ loading' = {} /\ ShowView(views, page, viewModels, attributes) /\ page = history[place]
        /\ UNCHANGED <<history, place, back>>
    BY <1>6, <2>1 DEF Imported, browser
  <2>3. Ready(views, page) BY <2>2 DEF Waits
  <2>4. /\ shown' = shown
        /\ Stays(views, page, viewModels, attributes) \/ Replaced(views, page, viewModels, attributes)
    BY <1>0, <1>a, <2>2, ShowViewFits
  <2>5. history'[place'] = page /\ place' \in Nat \ {0} /\ back' = 0 BY <1>a, <2>1, <2>2
  <2> QED BY <1>0, <2>1, <2>2, <2>3, <2>4, <2>5, ShowWaits
<1>7. ASSUME NEW i \in Created, Back(i) PROVE Waits'
  <2>1. /\ back' = back + 1 /\ place > back + 1
        /\ UNCHANGED <<history, place, loading, current, shown>>
        /\ views' = [views EXCEPT ![i].canGoBack = FALSE] /\ i \in DOMAIN views
    BY <1>7 DEF Back, Created
  <2>2. Settled BY <1>a, <2>1 DEF WaitingStep
  <2>3. Calm(views) /\ loading = {} /\ back = 0 BY <1>0, <2>2, SettledState
  <2>4. /\ DOMAIN views' = DOMAIN views
        /\ \A j \in DOMAIN views : views'[j].is = views[j].is /\ views'[j].page = views[j].page
    BY <1>b, <2>1 DEF Instance
  <2>5. Calm(views') BY <2>3, <2>4 DEF Calm
  <2>6. Ready(views, history[place])' BY <1>b, <2>1, <2>4 DEF Waits, Ready
  <2>7. current # 0 => /\ views'[current].is = views[current].is
                       /\ views'[current].page = views[current].page
    BY <1>b, <2>4
  <2>8. \A j \in DOMAIN views' : views'[j].is # "rendering" BY <2>5 DEF Calm
  <2>9. back' = 1 /\ back' < place' BY <1>a, <2>1, <2>3
  <2> QED BY <2>1, <2>3, <2>5, <2>6, <2>7, <2>8, <2>9 DEF Waits
<1>8. CASE PopState
  <2>1. back = 1 /\ back' = 0 /\ place - 1 \in DOMAIN history /\ Traverse(place - 1)
    BY <1>a, <1>8 DEF PopState, Traverse
  <2>2. Calm(views) /\ loading = {} BY <2>1 DEF Waits
  <2> QED BY <1>0, <2>1, <2>2, TraverseWaits
<1>9. ASSUME NEW to \in DOMAIN history, BrowserTraverses(to) PROVE Waits'
  <2>1. to \in {place - 1, place + 1} /\ Traverse(to) /\ back' = back BY <1>9 DEF BrowserTraverses
  <2>2. place' = to /\ made' = made BY <2>1 DEF Traverse
  <2>3. place' # place BY <1>a, <2>1, <2>2
  <2>4. Settled BY <1>a, <2>1, <2>2, <2>3 DEF WaitingStep
  <2>5. Calm(views) /\ loading = {} /\ back = 0 BY <1>0, <2>4, SettledState
  <2> QED BY <1>0, <2>1, <2>5, TraverseWaits
<1>10. CASE Reload
  <2> DEFINE w == NewView(history[place], Own(1))
  <2>1. /\ views' = <<w>> /\ current' = 1 /\ shown' = 0 /\ loading' = {} /\ back' = 0
        /\ UNCHANGED <<history, place>>
    BY <1>10 DEF Reload
  <2>2. w.page = history[place] /\ w.is = "rendering" BY DEF NewView
  <2> HIDE DEF w
  <2>3. DOMAIN views' = {1} /\ views'[1] = w BY <2>1
  <2> QED BY <1>a, <2>1, <2>2, <2>3 DEF Waits, Ready
<1> QED BY <1>1, <1>2, <1>3, <1>4, <1>5, <1>6, <1>7, <1>8, <1>9, <1>10 DEF Next
\* A navigation of the patient user, or of a view.
LEMMA NavigateAgrees ==
    ASSUME NEW vs, Fit(vs, current), Others, NEW url \in Url, NEW replace \in BOOLEAN,
           Kinds(vs, attributes, history, made), InStep(viewModels, history, place),
           Filled(viewModels, history, attributes, made), back = 0,
           Navigate(vs, url, replace), history' # history
    PROVE  Agrees'
<1>1. Arrives(vs, url, replace) BY Navigating
<1>2. /\ NewAttributes(url) \in [Model -> SUBSET Page]
      /\ viewModels' \in Seq(Data \ {0}) /\ back' = 0 /\ made' = made + 1 /\ made' \in Data
      /\ history' \in Seq(Page) /\ place' \in DOMAIN history' /\ place' \in Nat
      /\ history'[place'] = NewPage(url)
      /\ Route(vs, NewPage(url), viewModels', NewAttributes(url))
  BY <1>1 DEF Arrives
<1>3. /\ Kinds(vs, NewAttributes(url), history', made')
      /\ InStep(viewModels', history', place')
      /\ Filled(viewModels', history', NewAttributes(url), made')
  BY <1>2, NavigateInStep
<1>4. canGoBack \in BOOLEAN BY DEF Others
<1>5. /\ Kinds(views', attributes', history', made')
      /\ Filled(viewModels', history', attributes', made')
      /\ loading' = {} => Has(views', current', attributes', viewModels', history'[place'].url)
  <2> DEFINE models == viewModels'
             pages == history'
             k == place'
             attrs == NewAttributes(url)
             n == made'
  <2>1. /\ models \in Seq(Data \ {0}) /\ attrs \in [Model -> SUBSET Page] /\ pages \in Seq(Page)
        /\ n \in Data /\ Kinds(vs, attrs, pages, n) /\ k \in DOMAIN pages
        /\ InStep(models, pages, k) /\ Filled(models, pages, attrs, n)
        /\ Route(vs, pages[k], models, attrs)
    BY <1>2, <1>3
  <2> HIDE DEF models, pages, k, attrs, n
  <2>2. /\ Kinds(views', attributes', pages, n)
        /\ Filled(models, pages, attributes', n)
        /\ loading' = {} => Has(views', current', attributes', models, pages[k].url)
    BY <1>4, <2>1, RouteInStep
  <2> QED BY <2>2 DEF models, pages, k, n
<1>6. place' - back' = place' BY <1>2
<1> QED BY <1>3, <1>5, <1>6 DEF Agrees

LEMMA AgreesStep ==
    ASSUME IInv, Waits, Agrees, Next, PatientStep
    PROVE  Agrees'
<1>0. Fit(views, current) /\ Others /\ WaitingStep BY IInvParts DEF PatientStep
<1>a. /\ place \in Nat \ {0} /\ canGoBack \in BOOLEAN /\ viewModels \in Seq(Data \ {0})
      /\ attributes \in [Model -> SUBSET Page] /\ history \in Seq(Page) /\ made \in Data
      /\ back \in {0, 1} /\ back < place /\ place \in DOMAIN history
  BY <1>0 DEF Others, Waits
<1>b. /\ current # 0 => current \in DOMAIN views
      /\ \A i \in DOMAIN views : views[i] \in Instance /\ i # 0
  BY <1>0 DEF Fit
<1>c. back = 0 => InStep(viewModels, history, place)
  <2>1. place - 0 = place BY <1>a
  <2> QED BY <2>1 DEF Agrees
<1>d. ASSUME UNCHANGED <<history, made, attributes>>, DOMAIN views' = DOMAIN views,
             \A i \in DOMAIN views : views'[i].page = views[i].page /\ views'[i].model = views[i].model
      PROVE  Kinds(views, attributes, history, made)'
  BY <1>d DEF Agrees, Kinds
<1>1. ASSUME NEW url \in Url, NEW replace \in BOOLEAN, Go(url, replace) PROVE Agrees'
  <2>1. Settled /\ history' # history BY <1>0, <1>1, WaitingNavigates
  <2>2. Navigate(views, url, replace) BY <1>1 DEF Go
  <2>3. back = 0 BY <1>0, <2>1, SettledState
  <2> QED BY <1>0, <1>c, <2>1, <2>2, <2>3, NavigateAgrees DEF Agrees
<1>2. ASSUME NEW i \in Created, NEW url \in Url, Redirect(i, url) PROVE Agrees'
  <2>1. history' # history BY <1>0, <1>2, WaitingNavigates
  <2>2. /\ Fit(Marked(i), current) /\ DOMAIN Marked(i) = DOMAIN views /\ back = 0
        /\ \A j \in DOMAIN views : /\ Marked(i)[j].page = views[j].page
                                   /\ Marked(i)[j].model = views[j].model
        /\ Navigate(Marked(i), url, FALSE)
    BY <1>0, <1>2, RedirectedState
  <2>3. Kinds(Marked(i), attributes, history, made) BY <2>2 DEF Agrees, Kinds
  <2> QED BY <1>0, <1>c, <2>1, <2>2, <2>3, NavigateAgrees DEF Agrees
<1>3. ASSUME NEW i \in Created, Refused(i) \/ Rendered(i) \/ RenderFails(i) PROVE Agrees'
  <2>1. /\ i \in DOMAIN views
        /\ UNCHANGED <<history, place, back, made, viewModels, attributes, loading>>
        /\ current' \in {0, current}
    BY <1>3 DEF Refused, Rendered, RenderFails, browser, Created
  <2>2. /\ DOMAIN views' = DOMAIN views
        /\ \A j \in DOMAIN views : views'[j].page = views[j].page /\ views'[j].model = views[j].model
    <3>1. CASE Refused(i) BY <1>b, <2>1, <3>1 DEF Refused, Instance
    <3>2. CASE Rendered(i) BY <1>b, <2>1, <3>2 DEF Rendered, Instance
    <3>3. CASE RenderFails(i) BY <1>b, <2>1, <3>3 DEF RenderFails, Instance
    <3> QED BY <1>3, <3>1, <3>2, <3>3
  <2>3. Kinds(views, attributes, history, made)' BY <1>d, <2>1, <2>2
  <2>4. loading = {} => Has(views, current, attributes, viewModels, history[place].url)'
    BY <1>b, <2>1, <2>2 DEF Agrees, Has
  <2> QED BY <2>1, <2>3, <2>4 DEF Agrees
<1>6. ASSUME NEW page \in loading, Imported(page) PROVE Agrees'
  <2>1. loading = {history[place]} /\ back = 0 BY <1>a, <1>6 DEF Waits
  <2>2. /\ loading' = {} /\ ShowView(views, history[place], viewModels, attributes)
        /\ UNCHANGED <<history, place, back, made, viewModels>>
    BY <1>6, <2>1 DEF Imported, browser
  <2>3. /\ Kinds(views', attributes', history, made)
        /\ Filled(viewModels, history, attributes', made)
        /\ Has(views', current', attributes', viewModels, history[place].url)
    BY <1>0, <1>a, <1>c, <2>1, <2>2, ShowInStep DEF Agrees
  <2> QED BY <2>2, <2>3 DEF Agrees
<1>7. ASSUME NEW i \in Created, Back(i) PROVE Agrees'
  <2>1. /\ back' = back + 1 /\ place > back + 1 /\ i \in DOMAIN views
        /\ UNCHANGED <<history, place, made, attributes, loading, current>>
        /\ views' = [views EXCEPT ![i].canGoBack = FALSE]
        /\ viewModels' = IF viewModels = <<>> THEN <<>> ELSE SubSeq(viewModels, 1, Len(viewModels) - 1)
    BY <1>7 DEF Back, Created
  <2>2. Settled BY <1>0, <1>a, <2>1 DEF WaitingStep
  <2>3. back = 0 /\ back' = 1 BY <1>0, <2>1, <2>2, SettledState
  <2>4. /\ DOMAIN views' = DOMAIN views
        /\ \A j \in DOMAIN views : views'[j].page = views[j].page /\ views'[j].model = views[j].model
    BY <1>b, <2>1 DEF Instance
  <2>5. Kinds(views, attributes, history, made)' BY <1>d, <2>1, <2>4
  <2>6. /\ Len(viewModels') = IF viewModels = <<>> THEN 0 ELSE Len(viewModels) - 1
        /\ \A k \in DOMAIN viewModels' : k \in DOMAIN viewModels /\ viewModels'[k] = viewModels[k]
    <3>1. CASE viewModels = <<>> BY <2>1, <3>1
    <3>2. CASE viewModels # <<>>
      <4> DEFINE m == Len(viewModels) - 1
      <4>1. viewModels' = SubSeq(viewModels, 1, m) BY <2>1, <3>2
      <4>2. m \in Nat /\ DOMAIN viewModels = 1..(m + 1) BY <1>a, <3>2
      <4>3. m <= Len(viewModels) /\ Len(viewModels) \in Nat BY <1>a
      <4> HIDE DEF m
      <4>4. Len(viewModels') = m /\ DOMAIN viewModels' = 1..m /\ \A k \in 1..m : viewModels'[k] = viewModels[k]
        BY <1>a, <4>1, <4>2, <4>3
      <4>5. \A k \in 1..m : k \in 1..(m + 1) BY <4>2
      <4> QED BY <3>2, <4>2, <4>4, <4>5 DEF m
    <3> QED BY <3>1, <3>2
  <2>7. Filled(viewModels', history, attributes, made) BY <2>6 DEF Filled, Agrees
  <2>8. InStep(viewModels', history', place' - back')
    <3> DEFINE n == Len(viewModels)
    <3>1. /\ n \in Nat /\ DOMAIN viewModels = 1..n /\ n <= place
          /\ \A k \in 1..n : viewModels[k] = history[place - n + k].data
      BY <1>a, <1>c, <2>3 DEF InStep
    <3>2. place' - back' = place - 1 BY <2>1, <2>3
    <3>3. CASE viewModels = <<>>
      <4>1. Len(viewModels') = 0 /\ 1..0 = {} /\ 0 <= place - 1 BY <1>a, <2>6, <3>3
      <4> QED BY <3>2, <4>1 DEF InStep
    <3>4. CASE viewModels # <<>>
      <4>1. n > 0 BY <1>a, <3>4
      <4>2. Len(viewModels') = n - 1 BY <2>6, <3>4
      <4>3. DOMAIN viewModels' = 1..(n - 1) BY <1>a, <2>1, <3>4, <4>1
      <4> HIDE DEF n
      <4>4. \A k \in 1..(n - 1) : k \in 1..n /\ place - 1 - (n - 1) + k = place - n + k
        BY <1>a, <3>1, <4>1
      <4>5. \A k \in 1..(n - 1) : viewModels'[k] = history[place - 1 - (n - 1) + k].data
        BY <2>6, <3>1, <4>3, <4>4
      <4>6. n - 1 <= place - 1 BY <1>a, <3>1
      <4> QED BY <2>1, <3>2, <4>2, <4>5, <4>6 DEF InStep
    <3> QED BY <3>3, <3>4
  <2>9. viewModels' # <<>> => viewModels # <<>> BY <2>1
  <2>10. loading = {} => Has(views, current, attributes, viewModels, history[place].url)'
    BY <1>b, <2>1, <2>4, <2>9 DEF Agrees, Has
  <2> QED BY <2>1, <2>5, <2>7, <2>8, <2>10 DEF Agrees
<1>8. CASE PopState
  <2> DEFINE to == place - 1
  <2>1. back = 1 /\ back' = 0 /\ to \in DOMAIN history /\ Traverse(to)
    BY <1>a, <1>8 DEF PopState, Traverse
  <2>2. place' = to /\ UNCHANGED <<history, made, viewModels>> BY <2>1 DEF Traverse
  <2>3. loading = {} BY <2>1 DEF Waits
  <2>4. InStep(viewModels, history, to) BY <2>1 DEF Agrees
  <2>5. place' - back' = to BY <1>a, <2>1, <2>2
  <2> HIDE DEF to
  <2>6. CASE Route(views, history[to], viewModels, attributes)
    <3>1. /\ Kinds(views', attributes', history, made)
          /\ Filled(viewModels, history, attributes', made)
          /\ loading' = {} => Has(views', current', attributes', viewModels, history[to].url)
      BY <1>0, <1>a, <2>1, <2>4, <2>6, RouteInStep DEF Agrees
    <3> QED BY <2>2, <2>4, <2>5, <3>1 DEF Agrees
  <2>7. CASE history[to].url = history[place].url /\ UNCHANGED app
    <3>1. UNCHANGED <<views, attributes, current, loading>> BY <2>7 DEF app
    <3> QED BY <2>2, <2>4, <2>5, <2>7, <3>1 DEF Agrees
  <2> QED BY <2>1, <2>6, <2>7 DEF Traverse
<1>9. ASSUME NEW to \in DOMAIN history, BrowserTraverses(to) PROVE Agrees'
  <2>1. to \in {place - 1, place + 1} /\ place' = to /\ made' = made /\ back' = back
    BY <1>9 DEF BrowserTraverses, Traverse
  <2>2. place' # place BY <1>a, <2>1
  <2> QED BY <1>a, <2>1, <2>2 DEF PatientStep
<1>10. CASE Reload
  <2> DEFINE w == NewView(history[place], Own(1))
  <2>1. /\ views' = <<w>> /\ current' = 1 /\ viewModels' = <<>> /\ back' = 0
        /\ attributes' = [m \in Model |-> {}]
        /\ UNCHANGED <<history, place, made>>
    BY <1>10 DEF Reload
  <2>2. w.model = Own(1) BY DEF NewView
  <2> HIDE DEF w
  <2>3. DOMAIN views' = {1} /\ views'[1] = w BY <2>1
  <2>4. /\ Own(1) \in Model /\ \A j \in 1..MaxViews : attributes'[Own(j)] = {}
        /\ \A m \in Model : attributes'[m] = {}
    BY <2>1, NavigationAssumption, ModelTypes
  <2>5. 1..made \subseteq Model BY <1>a, NavigationAssumption DEF Data, Model
  <2>6. Kinds(views', attributes', history', made')
    <3>1. \A k \in DOMAIN history : /\ history[k].data \in 0..made
                                    /\ history[k].data # 0 => history[k].data \in 1..made
      <4>1. made \in Nat BY <1>a DEF Data
      <4>2. \A k \in DOMAIN history : history[k].data \in 0..made BY DEF Agrees, Kinds
      <4> QED BY <4>1, <4>2
    <3>2. \A k \in DOMAIN history : history[k].data # 0 => attributes'[history[k].data] = {}
      BY <2>4, <2>5, <3>1
    <3>3. attributes'[views'[1].model] = {} /\ views'[1].model = Own(1) BY <2>2, <2>3, <2>4
    <3>4. history' = history /\ made' = made BY <2>1
    <3> QED BY <2>3, <2>4, <3>1, <3>2, <3>3, <3>4 DEF Kinds
  <2>7. InStep(viewModels', history', place' - back')
    <3>1. Len(viewModels') = 0 /\ 1..0 = {} /\ 0 <= place' - back' BY <1>a, <2>1
    <3> QED BY <3>1 DEF InStep
  <2>8. DOMAIN viewModels' = {} BY <2>1
  <2> QED BY <2>1, <2>6, <2>7, <2>8 DEF Agrees, Filled, Has
<1> QED BY <1>1, <1>2, <1>3, <1>6, <1>7, <1>8, <1>9, <1>10 DEF Next

-----------------------------------------------------------------------------
LEMMA PatientStepOK == PatientInv /\ [MCNext]_<<vars, user>> => PatientInv'
<1> SUFFICES ASSUME PatientInv, [MCNext]_<<vars, user>> PROVE PatientInv' OBVIOUS
<1>1. IInv /\ [Next]_vars /\ user' = user /\ user' \in {"hasty", "patient", "browsing"}
  BY DEF PatientInv, MCNext
<1>2. IInv' BY <1>1, StepOK
<1>3. CASE UNCHANGED <<vars, user>>
  BY <1>1, <1>2, <1>3 DEF PatientInv, vars, browser, app, Waits, Ready, Quiet, Calm, Agrees, Kinds,
                          InStep, Filled, Has
<1>4. CASE MCNext
  <2>1. Next BY <1>4 DEF MCNext
  <2>2. user # "hasty" => WaitingStep
    BY <1>1, <1>4 DEF MCNext, PatientStep, BrowsingStep
  <2>3. user = "patient" => PatientStep BY <1>4 DEF MCNext
  <2>4. user # "hasty" => Waits' BY <1>1, <2>1, <2>2, WaitsStep DEF PatientInv
  <2>5. user = "patient" => Agrees' BY <1>1, <2>1, <2>3, AgreesStep DEF PatientInv
  <2> QED BY <1>1, <1>2, <2>4, <2>5 DEF PatientInv
<1> QED BY <1>3, <1>4

\* One who waits for each screen sees that of the URL, whatever buttons he uses.
\* One who keeps to the buttons of the screens sees it with the data meant for it
\* and for no other view (lib/router.js:217), and finds the model of the page he
\* goes back to (router.js:282).
THEOREM PatientStaysInStep == MCSpec => PatientHistoryAgrees
<1>1. MCInit => PatientInv
  <2> SUFFICES ASSUME MCInit PROVE PatientInv OBVIOUS
  <2>1. IInv /\ Init /\ user \in {"hasty", "patient", "browsing"} BY InitOK DEF MCInit
  <2> DEFINE w == NewView([url |-> First, data |-> 0], Own(1))
  <2>2. /\ history = <<[url |-> First, data |-> 0]>> /\ place = 1 /\ back = 0 /\ viewModels = <<>>
        /\ loading = {} /\ views = <<w>> /\ current = 1 /\ made = 0
        /\ attributes = [m \in Model |-> {}]
    BY <2>1 DEF Init
  <2>3. w.model = Own(1) /\ w.is = "rendering" /\ w.page = [url |-> First, data |-> 0] BY DEF NewView
  <2> HIDE DEF w
  <2>4. DOMAIN views = {1} /\ views[1] = w /\ DOMAIN history = {1}
        /\ history[1] = [url |-> First, data |-> 0]
    BY <2>2
  <2>5. Waits BY <2>2, <2>3, <2>4 DEF Waits, Ready
  <2>6. \A j \in 1..MaxViews : attributes[Own(j)] = {} BY <2>2, ModelTypes
  <2>7. 1 \in 1..MaxViews BY NavigationAssumption
  <2>8. Kinds(views, attributes, history, made)
    <3>1. attributes[views[1].model] = {} /\ views[1].model = Own(1) BY <2>3, <2>4, <2>6, <2>7
    <3>2. history[1].data = 0 /\ made = 0 /\ 0 \in 0..0 BY <2>2, <2>4
    <3> HIDE DEF Init, MCInit
    <3> QED BY <2>4, <2>6, <3>1, <3>2 DEF Kinds
  <2>9. InStep(viewModels, history, place - back)
    <3>1. Len(viewModels) = 0 /\ 1..0 = {} /\ 0 <= place - back BY <2>2
    <3> QED BY <3>1 DEF InStep
  <2>10. DOMAIN viewModels = {} BY <2>2
  <2>11. Agrees BY <2>2, <2>8, <2>9, <2>10 DEF Agrees, Filled, Has
  <2> QED BY <2>1, <2>5, <2>11 DEF PatientInv
<1>2. PatientInv => ScreensAgree
  <2> SUFFICES ASSUME PatientInv PROVE ScreensAgree OBVIOUS
  <2>1. Fit(views, current) BY IInvParts DEF PatientInv
  <2>2. ASSUME user # "hasty", Settled, shown # 0
        PROVE  current # 0 /\ shown = current /\ loading = {} /\ views[shown].page.url = history[place].url
    <3>1. Waits /\ Calm(views) /\ loading = {} BY <2>1, <2>2, SettledState DEF PatientInv
    <3>2. current # 0 /\ current \in DOMAIN views BY <2>1, <3>1 DEF Waits, Fit
    <3>3. shown = current BY <2>2, <3>1, <3>2 DEF Waits, Ready, Calm
    <3> QED BY <3>1, <3>2, <3>3 DEF Waits
  <2>3. user # "hasty" => ScreenIsOfTheUrl BY <2>2 DEF ScreenIsOfTheUrl
  <2>4. user = "patient" => DataIsOfTheView BY DEF PatientInv, Agrees, Kinds, DataIsOfTheView, Created
  <2>5. user = "patient" => DataIsThere
    BY <2>2 DEF PatientInv, Agrees, Has, DataIsThere
  <2> QED BY <2>3, <2>4, <2>5 DEF ScreensAgree
<1>3. PatientInv /\ PatientInv' /\ [MCNext]_<<vars, user>>
        => [user = "patient" /\ back' = back + 1
              => Top(viewModels') \in {0, history[place - back - 1].data}]_<<vars, user>>
  <2> SUFFICES ASSUME PatientInv, PatientInv', MCNext, user = "patient", back' = back + 1
               PROVE  Top(viewModels') \in {0, history[place - back - 1].data}
    OBVIOUS
  <2>1. Others /\ back \in {0, 1} /\ place \in Nat
    BY IInvParts DEF PatientInv, Waits, Others
  <2>2. Next /\ Agrees' /\ user' = user BY DEF PatientInv, MCNext
  <2>3. viewModels' \in Seq(Data \ {0}) BY DEF PatientInv, IInv, TypeOK
  <2>4. \E i \in Created : Back(i)
    <3>1. back' # back /\ back' # back - 1 /\ back' # 0 BY <2>1
    <3>2. ~\E url \in Url, replace \in BOOLEAN : Go(url, replace) BY <3>1 DEF Go, Navigate
    <3>3. ~\E i \in Created, url \in Url : Redirect(i, url) BY <3>1 DEF Redirect, Navigate
    <3>4. /\ ~\E i \in Created : Refused(i)
          /\ ~\E i \in Created : Rendered(i)
          /\ ~\E i \in Created : RenderFails(i)
          /\ ~\E page \in loading : Imported(page)
      BY <3>1 DEF Refused, Rendered, RenderFails, Imported, browser
    <3>5. ~PopState /\ ~Reload /\ ~\E to \in DOMAIN history : BrowserTraverses(to)
      BY <3>1 DEF PopState, Reload, BrowserTraverses
    <3> QED BY <2>2, <3>2, <3>3, <3>4, <3>5 DEF Next
  <2>5. place' = place /\ history' = history /\ place > back + 1 BY <2>4 DEF Back
  <2>6. place' - back' = place - back - 1 /\ place' - back' \in Nat BY <2>1, <2>5
  <2>7. InStep(viewModels', history, place - back - 1) BY <2>2, <2>5, <2>6 DEF Agrees
  <2>8. CASE viewModels' = <<>> BY <2>8 DEF Top
  <2>9. CASE viewModels' # <<>>
    <3>1. place - back - 1 \in Nat BY <2>6
    <3> QED BY <2>3, <2>7, <2>9, <3>1, TopInStep
  <2> QED BY <2>8, <2>9
<1> QED BY <1>1, <1>2, <1>3, PatientStepOK, PTL DEF MCSpec, PatientHistoryAgrees, PatientBackFindsPreviousModel

-----------------------------------------------------------------------------
(***************************************************************************)
(* Page: its scenarios and its state.                                      *)
(***************************************************************************)
\* What is refused, whether or not passwords are legible.
Judged(texts) == {i \in Inputs : Validate(setup.inputs[i], texts[i]) # "none"}

(***************************************************************************)
(* What is true of each part of a form, and of some of them together.      *)
(***************************************************************************)
Shown == Errors \cup {"none", "WORKING", "UNEXPECTED_ERROR"}

\* A screen says one thing.
ViewOK(v) ==
    /\ DOMAIN v = {"life", "errorsEnabled", "error", "errorVisible", "successVisible", "success", "passed",
                   "navigated", "stacked", "focus", "title"}
    /\ v.life \in {"rendered", "shown"} /\ v.focus \in {"none", "waits", "placed"}
    /\ v.error \in Shown /\ v.passed \in Errors \cup {"none"}
    /\ v.errorsEnabled \in BOOLEAN /\ v.errorVisible \in BOOLEAN /\ v.success \in BOOLEAN
    /\ v.successVisible \in BOOLEAN /\ v.navigated \in BOOLEAN /\ v.stacked \in BOOLEAN
    /\ ~(v.errorVisible /\ v.successVisible)

FormOK(f) ==
    /\ DOMAIN f = {"texts", "previous", "engaged", "marked", "labels", "legible", "held"}
    /\ DOMAIN f.texts = Inputs /\ f.engaged \in BOOLEAN /\ f.held \in BOOLEAN
    /\ f.marked \subseteq Inputs /\ f.labels \subseteq Passwords /\ f.legible \subseteq Passwords
    /\ f.legible # {} => f.held

\* What is under way on an older screen is past its delay.
TaskOK(tasks) ==
    /\ DOMAIN tasks = Operations
    /\ \A op \in Operations :
          /\ DOMAIN tasks[op] = {"phase", "old"} /\ tasks[op].phase \in Phases /\ tasks[op].old \in BOOLEAN
          /\ tasks[op].phase \in {"idle", "delay"} => ~tasks[op].old

SpinnerOK(s) ==
    /\ DOMAIN s = {"count", "show", "remove", "shown"}
    /\ s.count \in Nat /\ s.show \in BOOLEAN /\ s.remove \in BOOLEAN /\ s.shown \in BOOLEAN
    /\ (s.count > 0) <=> ((s.show \/ s.shown) /\ ~s.remove)
    /\ s.remove => s.shown
    /\ ~(s.show /\ s.shown)

\* What an operation counts on its button, at most.
Counts(tasks, op) ==
    IF tasks[op].phase \in {"delay", "before", "work", "pause", "halted"} /\ ~tasks[op].old THEN 1 ELSE 0

SpinnersOK(spinners, tasks) ==
    /\ DOMAIN spinners = {"submit", "link"}
    /\ SpinnerOK(spinners["submit"]) /\ SpinnerOK(spinners["link"])
    /\ spinners["submit"].count <= Counts(tasks, "submit")
    /\ spinners["link"].count <= Counts(tasks, "refresh") + Counts(tasks, "again")

\* What was sent was judged: in between only what the user edited may have changed.
RequestOK(r, sub, texts) ==
    /\ DOMAIN r = {"asked", "working", "notice", "edited", "refused"}
    /\ r.asked = (IF sub = "work" THEN 1 ELSE 0)
    /\ r.working \in BOOLEAN /\ r.notice \in BOOLEAN /\ r.edited \in BOOLEAN /\ r.refused \subseteq Inputs
    /\ sub \in {"delay", "before"} /\ ~r.edited => Judged(texts) = {}
    /\ sub = "work" /\ ~r.edited => r.refused = {}
    /\ r.working => sub \notin {"idle", "end"}

\* What is said to be under way is, and the submit that says so knows.
NoticeOK(v, r, sub) ==
    v.errorVisible /\ v.error = "WORKING" /\ v.errorsEnabled => sub \notin {"idle", "end"} /\ r.notice

LogOK(l) ==
    /\ DOMAIN l = {"reported", "logged", "submits", "edits"}
    /\ l.reported \in [Errors -> Nat] /\ l.logged \subseteq Errors
    /\ l.submits \in 0..MaxSubmits /\ l.edits \in 0..MaxEdits
    /\ \A e \in Errors : l.reported[e] <= 1 /\ (e \notin l.logged => l.reported[e] = 0)

\* One tooltip is shown, and an input is marked while it is its own.
TipsOK(all, marked) ==
    /\ IsFiniteSet(all)
    /\ \A tip \in all : /\ DOMAIN tip = {"n", "el", "original", "shown"}
                        /\ tip.el \in Inputs /\ tip.shown \in BOOLEAN
    /\ \A x, y \in all : x.shown /\ y.shown => x = y
    /\ \A i \in marked : \E tip \in all : tip.shown /\ tip.el = i

FormInv ==
    /\ setup \in Scenarios
    /\ ViewOK(view) /\ FormOK(form) /\ TaskOK(task) /\ LogOK(log)
    /\ SpinnersOK(spinner, task)
    /\ RequestOK(request, task["submit"].phase, form.texts)
    /\ NoticeOK(view, request, task["submit"].phase)
    /\ TipsOK(tips, form.marked)

-----------------------------------------------------------------------------
(***************************************************************************)
(* The kinds of inputs.                                                    *)
(***************************************************************************)
\* A set of naturals has a least one.
LEMMA LeastNatural == ASSUME NEW T \in SUBSET Nat, T # {} PROVE \E x \in T : \A y \in T : x <= y
<1> DEFINE R == {ss \in Nat \X Nat : ss[1] < ss[2]}
<1>1. \A x, y \in Nat : <<x, y>> \in R <=> x < y OBVIOUS
<1>2. OpToRel(<, Nat) = R BY Zenon DEF OpToRel
<1>3. IsWellFoundedOn(R, Nat) BY Zenon, NatLessThanWellFounded, <1>2
<1> HIDE DEF R
<1>4. PICK x \in T : \A y \in T : ~(<<y, x>> \in R) BY <1>3, WFMin
<1>5. \A y \in T : x <= y
  <2> TAKE y \in T
  <2>1. x \in Nat /\ y \in Nat OBVIOUS
  <2>2. ~(y < x) BY <1>1, <1>4, <2>1
  <2> QED BY <2>1, <2>2
<1> QED BY <1>4, <1>5

\* A password is the same kind of input when it is legible (password-input.js: match).
LEMMA PasswordHelper ==
    ASSUME NEW t \in {"text", "password"}, NEW r
    PROVE  GetHelper([type |-> t, mark |-> "password", required |-> r]) = Password
<1> DEFINE el == [type |-> t, mark |-> "password", required |-> r]
           p == <<t, "password">>
           I == {i \in 1..11 : p \in ElementHelpers[i].matches}
<1>1. /\ ElementHelpers[1] = TotpCode /\ ElementHelpers[2] = TokenCode
      /\ ElementHelpers[3] = RecoveryCode /\ ElementHelpers[4] = RecoveryKey
      /\ ElementHelpers[5] = Checkbox /\ ElementHelpers[6] = Email
      /\ ElementHelpers[7] = Password /\ Len(ElementHelpers) = 11
  BY DEF ElementHelpers
<1>2. p \notin TotpCode.matches /\ p \notin TokenCode.matches
  BY DEF TotpCode, TokenCode, Kind
<1>3. p \notin RecoveryCode.matches /\ p \notin RecoveryKey.matches
  BY DEF RecoveryCode, RecoveryKey, Kind
<1>4. p \notin Checkbox.matches /\ p \notin Email.matches
  BY DEF Checkbox, Email, Kind
<1>5. p \in Password.matches BY DEF Password, Kind, Marks
<1>6. 7 \in I /\ \A i \in I : 7 <= i
  <2>1. \A i \in I : i \notin 1..6 BY <1>1, <1>2, <1>3, <1>4
  <2> QED BY <1>1, <1>5, <2>1
<1>7. Min(I) = 7
  <2> HIDE DEF I
  <2>1. I \subseteq 1..11 BY DEF I
  <2>2. \A x \in I : (\A y \in I : x <= y) <=> x = 7 BY <1>6, <2>1
  <2>3. Min(I) \in I /\ \A y \in I : Min(I) <= y BY <1>6 DEF Min
  <2> QED BY <2>2, <2>3
<1>8. GetHelper(el) = ElementHelpers[Min(I)] BY <1>1, <1>6 DEF GetHelper, SelectInSeq
<1> QED BY <1>1, <1>7, <1>8

LEMMA InputTypes ==
    ASSUME setup \in Scenarios
    PROVE  /\ Inputs \subseteq Nat
           /\ \A i \in Inputs : setup.inputs[i] \in [type : STRING, mark : Marks, required : BOOLEAN]
           /\ \A i \in Passwords : setup.inputs[i].type = "password" /\ setup.inputs[i].mark = "password"
           /\ Passwords \subseteq Inputs
           /\ DOMAIN setup.texts = Inputs
           /\ setup.passed \in {"none", "passed"} /\ setup.success \in BOOLEAN
<1> DEFINE s == setup
           El == [type : STRING, mark : Marks, required : BOOLEAN]
<1>1. s.inputs \in Seq(El) /\ \A i \in DOMAIN s.inputs : s.inputs[i].type = "password" => s.inputs[i].mark = "password"
  BY ScenariosAssumption
<1>2. DOMAIN s.texts = DOMAIN s.inputs /\ s.passed \in {"none", "passed"} /\ s.success \in BOOLEAN BY ScenariosAssumption
<1>3. DOMAIN s.inputs = 1..Len(s.inputs) /\ Len(s.inputs) \in Nat BY <1>1
<1>4. Inputs = DOMAIN s.inputs BY DEF Inputs
<1>5. \A i \in DOMAIN s.inputs : s.inputs[i] \in El
  <2> DEFINE q == s.inputs
  <2>1. q \in Seq(El) BY <1>1
  <2> HIDE DEF El, q
  <2>2. \A i \in DOMAIN q : q[i] \in El BY <2>1
  <2> QED BY <2>2 DEF q
<1>6. Inputs \subseteq Nat BY <1>3, <1>4
<1>7. \A i \in Passwords : i \in Inputs /\ s.inputs[i].type = "password" BY DEF Passwords
<1> HIDE DEF El
<1>8. /\ \A i \in Inputs : s.inputs[i] \in El
      /\ \A i \in Passwords : s.inputs[i].type = "password" /\ s.inputs[i].mark = "password"
  BY <1>1, <1>4, <1>5, <1>7
<1> QED BY <1>2, <1>4, <1>6, <1>7, <1>8 DEF El

LEMMA RefusedIsJudged ==
    ASSUME setup \in Scenarios, form.legible \subseteq Passwords, NEW texts
    PROVE  RefusedInputs(texts) = Judged(texts)
<1> USE InputTypes
<1>1. ASSUME NEW i \in Inputs
      PROVE  Validate(Element(i), texts[i]) = Validate(setup.inputs[i], texts[i])
  <2>1. CASE i \notin form.legible
    <3>1. Element(i) = setup.inputs[i] BY <1>1, <2>1 DEF Element
    <3> QED BY <3>1
  <2>2. CASE i \in form.legible
    <3> DEFINE r == setup.inputs[i].required
    <3>1. setup.inputs[i].type = "password" /\ setup.inputs[i].mark = "password" BY <2>2
    <3>2. setup.inputs[i] = [type |-> "password", mark |-> "password", required |-> r] BY <1>1, <3>1
    <3>3. Element(i) = [type |-> "text", mark |-> "password", required |-> r] BY <2>2, <3>1 DEF Element
    <3> HIDE DEF r
    <3>4. GetHelper(Element(i)) = GetHelper(setup.inputs[i]) BY <3>2, <3>3, PasswordHelper
    <3>5. Element(i).required = setup.inputs[i].required BY <3>2, <3>3
    <3> QED BY <3>4, <3>5 DEF Validate, Val
  <2> QED BY <2>1, <2>2
<1> QED BY <1>1 DEF RefusedInputs, Judged

\* The one that is shown is one that is refused.
LEMMA FirstIsRefused ==
    ASSUME setup \in Scenarios, NEW texts, ~IsValid(texts)
    PROVE  FirstRefused(texts) \in Inputs
<1> DEFINE T == RefusedInputs(texts)
<1>1. T \subseteq Inputs /\ T # {} BY DEF RefusedInputs, IsValid
<1>2. T \subseteq Nat BY <1>1, InputTypes
<1>3. \E x \in T : \A y \in T : x <= y BY <1>1, <1>2, LeastNatural
<1>4. FirstRefused(texts) \in T BY <1>3 DEF FirstRefused
<1> QED BY <1>1, <1>4

-----------------------------------------------------------------------------
(***************************************************************************)
(* The messages of a screen, the report, a button and the tooltips.        *)
(***************************************************************************)
\* What a message does to the others, and leaves as it is.
Kept(v, w) ==
    \A f \in {"life", "errorsEnabled", "success", "passed", "navigated", "stacked", "focus", "title"} : w[f] = v[f]

LEMMA MessagesOK ==
    ASSUME NEW v, ViewOK(v), NEW err \in Errors \cup {"WORKING"}
    PROVE  /\ ViewOK(HideError(v)) /\ Kept(v, HideError(v)) /\ ~HideError(v).errorVisible
           /\ ViewOK(HideSuccess(v)) /\ Kept(v, HideSuccess(v)) /\ ~HideSuccess(v).successVisible
           /\ HideSuccess(v).errorVisible = v.errorVisible /\ HideSuccess(v).error = v.error
           /\ ViewOK(DisplaySuccess(v)) /\ Kept(v, DisplaySuccess(v)) /\ ~DisplaySuccess(v).errorVisible
           /\ ViewOK(DisplayError(v, err)) /\ Kept(v, DisplayError(v, err))
           /\ DisplayError(v, err).errorsEnabled => DisplayError(v, err).error = err
<1>1. ViewOK(HideError(v)) /\ Kept(v, HideError(v)) /\ ~HideError(v).errorVisible
  BY DEF HideError, ViewOK, Kept
<1>2. /\ ViewOK(HideSuccess(v)) /\ Kept(v, HideSuccess(v)) /\ ~HideSuccess(v).successVisible
      /\ HideSuccess(v).errorVisible = v.errorVisible /\ HideSuccess(v).error = v.error
  BY DEF HideSuccess, ViewOK, Kept
<1>3. ViewOK(DisplaySuccess(v)) /\ Kept(v, DisplaySuccess(v)) /\ ~DisplaySuccess(v).errorVisible
  BY <1>1 DEF DisplaySuccess, ViewOK, Kept
<1>4. NormalizeError(err) = err BY DEF NormalizeError, Errors
<1>5. CASE ~v.errorsEnabled
  <2>1. DisplayError(v, err) = v BY <1>5 DEF DisplayError
  <2> QED BY <1>1, <1>2, <1>3, <1>5, <2>1 DEF Kept
<1>6. CASE v.errorsEnabled
  <2> DEFINE w == HideSuccess(v)
  <2>1. DisplayError(v, err) = [w EXCEPT !.error = err, !.errorVisible = TRUE]
    BY <1>4, <1>6 DEF DisplayError
  <2> HIDE DEF w
  <2>2. ViewOK(w) /\ Kept(v, w) /\ ~w.successVisible BY <1>2 DEF w
  <2>3. /\ ViewOK(DisplayError(v, err)) /\ Kept(w, DisplayError(v, err))
        /\ DisplayError(v, err).error = err
    BY <2>1, <2>2 DEF ViewOK, Kept, Shown
  <2> QED BY <1>1, <1>2, <1>3, <2>2, <2>3 DEF Kept
<1> QED BY <1>5, <1>6 DEF ViewOK

LEMMA ReportOK ==
    ASSUME NEW l, LogOK(l), NEW err
    PROVE  LogOK(LogError(l, err))
<1> DEFINE n == NormalizeError(err)
           plus == [e \in Errors |-> l.reported[e] + IF n = e THEN 1 ELSE 0]
           m == [l EXCEPT !.reported = plus, !.logged = @ \cup (Errors \cap {n})]
<1> HIDE DEF n
<1>1. CASE n \in Errors \cap l.logged BY <1>1 DEF n, LogError
<1>2. CASE n \notin Errors \cap l.logged
  <2>1. LogError(l, err) = m BY <1>2 DEF n, LogError
  <2>2. plus \in [Errors -> Nat] BY DEF LogOK
  <2>3. /\ DOMAIN m = {"reported", "logged", "submits", "edits"}
        /\ m.reported \in [Errors -> Nat] /\ m.logged \subseteq Errors
        /\ m.submits \in 0..MaxSubmits /\ m.edits \in 0..MaxEdits
    BY <2>2 DEF LogOK
  <2>4. \A e \in Errors : m.reported[e] = l.reported[e] + IF n = e THEN 1 ELSE 0 BY DEF LogOK
  <2>5. \A e \in Errors : e \in m.logged <=> e \in l.logged \/ e = n BY DEF LogOK
  <2> HIDE DEF m
  <2>6. \A e \in Errors : l.reported[e] \in Nat BY DEF LogOK
  <2>7. ASSUME NEW e \in Errors PROVE m.reported[e] <= 1 /\ (e \notin m.logged => m.reported[e] = 0)
    <3>1. CASE e = n BY <1>2, <2>4, <2>5, <2>6, <3>1 DEF LogOK
    <3>2. CASE e # n BY <2>4, <2>5, <2>6, <3>2 DEF LogOK
    <3> QED BY <3>1, <3>2
  <2> QED BY <2>1, <2>3, <2>7 DEF LogOK
<1> QED BY <1>1, <1>2

LEMMA SpinnerSteps ==
    ASSUME NEW s, SpinnerOK(s)
    PROVE  /\ SpinnerOK(Start(s)) /\ Start(s).count = s.count + 1
           /\ SpinnerOK(Done(s)) /\ Done(s).count = IF s.count = 0 THEN 0 ELSE s.count - 1
           /\ s.show => SpinnerOK(ShowIndicator(s)) /\ ShowIndicator(s).count = s.count
           /\ s.remove => SpinnerOK(RemoveIndicator(s)) /\ RemoveIndicator(s).count = s.count
<1>1. SpinnerOK(Start(s)) /\ Start(s).count = s.count + 1
  <2> DEFINE r == Start(s)
  <2>1. CASE s.count > 0
    <3>1. r = [s EXCEPT !.count = s.count + 1] BY <2>1 DEF Start
    <3>2. DOMAIN r = DOMAIN s /\ r.count = s.count + 1 /\ r.show = s.show /\ r.remove = s.remove /\ r.shown = s.shown
      BY <3>1 DEF SpinnerOK
    <3> HIDE DEF r
    <3>3. SpinnerOK(r) /\ r.count = s.count + 1 BY <2>1, <3>2 DEF SpinnerOK
    <3>4. s.count \in Nat BY DEF SpinnerOK
    <3> QED BY <2>1, <3>3, <3>4 DEF r
  <2>2. CASE ~(s.count > 0) /\ s.remove
    <3>1. r = [s EXCEPT !.count = 1, !.remove = FALSE] BY <2>2 DEF Start
    <3>2. DOMAIN r = DOMAIN s /\ r.count = 1 /\ r.show = s.show /\ r.remove \in BOOLEAN /\ ~r.remove /\ r.shown = s.shown
      BY <3>1 DEF SpinnerOK
    <3> HIDE DEF r
    <3>3. SpinnerOK(r) /\ r.count = s.count + 1 BY <2>2, <3>2 DEF SpinnerOK
    <3>4. s.count \in Nat BY DEF SpinnerOK
    <3> QED BY <2>2, <3>3, <3>4 DEF r
  <2>3. CASE ~(s.count > 0) /\ ~s.remove
    <3>1. r = [s EXCEPT !.count = 1, !.show = TRUE] BY <2>3 DEF Start
    <3>2. DOMAIN r = DOMAIN s /\ r.count = 1 /\ r.show \in BOOLEAN /\ r.show /\ r.remove = s.remove /\ r.shown = s.shown
      BY <3>1 DEF SpinnerOK
    <3> HIDE DEF r
    <3>3. SpinnerOK(r) /\ r.count = s.count + 1 BY <2>3, <3>2 DEF SpinnerOK
    <3>4. s.count \in Nat BY DEF SpinnerOK
    <3> QED BY <2>3, <3>3, <3>4 DEF r
  <2> QED BY <2>1, <2>2, <2>3
<1>2. SpinnerOK(Done(s)) /\ Done(s).count = IF s.count = 0 THEN 0 ELSE s.count - 1
  <2> DEFINE r == Done(s)
  <2>1. CASE s.count = 0 BY <2>1 DEF Done
  <2>2. CASE s.count > 1
    <3>1. r = [s EXCEPT !.count = s.count - 1] BY <2>2 DEF Done
    <3>2. DOMAIN r = DOMAIN s /\ r.count = s.count - 1 /\ r.show = s.show /\ r.remove = s.remove /\ r.shown = s.shown
      BY <2>2, <3>1 DEF SpinnerOK
    <3> HIDE DEF r
    <3>3. SpinnerOK(r) /\ r.count = s.count - 1 BY <2>2, <3>2 DEF SpinnerOK
    <3>4. s.count \in Nat BY DEF SpinnerOK
    <3> QED BY <2>2, <3>3, <3>4 DEF r
  <2>3. CASE s.count = 1 /\ s.show
    <3>1. r = [s EXCEPT !.count = 0, !.show = FALSE, !.shown = FALSE] BY <2>3 DEF Done
    <3>2. DOMAIN r = DOMAIN s /\ r.count = 0 /\ r.show \in BOOLEAN /\ ~r.show /\ r.remove = s.remove /\ r.shown \in BOOLEAN /\ ~r.shown
      BY <3>1 DEF SpinnerOK
    <3> HIDE DEF r
    <3>3. SpinnerOK(r) /\ r.count = s.count - 1 BY <2>3, <3>2 DEF SpinnerOK
    <3>4. s.count \in Nat BY DEF SpinnerOK
    <3> QED BY <2>3, <3>3, <3>4 DEF r
  <2>4. CASE s.count = 1 /\ ~s.show
    <3>1. r = [s EXCEPT !.count = 0, !.remove = TRUE] BY <2>4 DEF Done
    <3>2. DOMAIN r = DOMAIN s /\ r.count = 0 /\ r.show = s.show /\ r.remove \in BOOLEAN /\ r.remove /\ r.shown = s.shown
      BY <3>1 DEF SpinnerOK
    <3> HIDE DEF r
    <3>3. SpinnerOK(r) /\ r.count = s.count - 1 BY <2>4, <3>2 DEF SpinnerOK
    <3>4. s.count \in Nat BY DEF SpinnerOK
    <3> QED BY <2>4, <3>3, <3>4 DEF r
  <2> QED BY <2>1, <2>2, <2>3, <2>4 DEF SpinnerOK
<1>3. s.show => SpinnerOK(ShowIndicator(s)) /\ ShowIndicator(s).count = s.count
  BY DEF SpinnerOK, ShowIndicator
<1>4. s.remove => SpinnerOK(RemoveIndicator(s)) /\ RemoveIndicator(s).count = s.count
  BY DEF SpinnerOK, RemoveIndicator
<1> QED BY <1>1, <1>2, <1>3, <1>4

\* Tooltips destroyed are shown no more; some of their listeners stay.
LEMMA TipsGo ==
    ASSUME NEW all, NEW marked, TipsOK(all, marked), NEW gone, gone \subseteq all
    PROVE  /\ TipsOK(all \ gone, marked \ {tip.el : tip \in gone})
           /\ TipsOK(AfterDestroy(all, gone), marked \ {tip.el : tip \in gone})
           /\ \A tip \in AfterDestroy(all, gone) : tip.shown => tip \in all \ gone
<1> DEFINE Off(tip) == [tip EXCEPT !.shown = FALSE]
           off == {Off(tip) : tip \in gone}
           left == marked \ {tip.el : tip \in gone}
<1>1. \A i \in left : \E tip \in all \ gone : tip.shown /\ tip.el = i BY DEF TipsOK
<1>2. IsFiniteSet(all) /\ IsFiniteSet(gone) /\ IsFiniteSet(all \ gone) BY FS_Subset DEF TipsOK
<1>3. TipsOK(all \ gone, left) BY <1>1, <1>2 DEF TipsOK
<1>4. \A tip \in gone : DOMAIN Off(tip) = {"n", "el", "original", "shown"} /\ Off(tip).el = tip.el /\ Off(tip).shown = FALSE
  BY DEF TipsOK
<1>5. IsFiniteSet(off)
  <2> DEFINE f == [tip \in gone |-> Off(tip)]
  <2> HIDE DEF Off
  <2>1. f \in Surjection(gone, off) BY DEF Surjection
  <2> HIDE DEF f, off
  <2> QED BY <1>2, <2>1, FS_Surjection
<1> HIDE DEF Off
<1>6. \A tip \in off : DOMAIN tip = {"n", "el", "original", "shown"} /\ tip.el \in Inputs /\ tip.shown = FALSE
  BY <1>4 DEF TipsOK
<1>7. AfterDestroy(all, gone) = (all \ gone) \cup off BY DEF AfterDestroy, Off
<1>8. IsFiniteSet((all \ gone) \cup off) BY <1>2, <1>5, FS_Union
<1> HIDE DEF off, left
<1>9. \A tip \in (all \ gone) \cup off : tip.shown => tip \in all \ gone BY <1>6
<1>10. TipsOK((all \ gone) \cup off, left) BY <1>3, <1>6, <1>8, <1>9 DEF TipsOK
<1> QED BY <1>3, <1>7, <1>9, <1>10 DEF left

-----------------------------------------------------------------------------
(***************************************************************************)
(* One operation moves on; the others stay.                                *)
(***************************************************************************)
Put(tasks, op, r) == [tasks EXCEPT ![op] = r]

LEMMA PutOK ==
    ASSUME NEW tasks, TaskOK(tasks), NEW op \in Operations,
           NEW r, DOMAIN r = {"phase", "old"}, r.phase \in Phases, r.old \in BOOLEAN,
           r.phase \in {"idle", "delay"} => ~r.old
    PROVE  /\ TaskOK(Put(tasks, op, r)) /\ Put(tasks, op, r)[op] = r
           /\ \A o \in Operations \ {op} : /\ Put(tasks, op, r)[o] = tasks[o]
                                           /\ Counts(Put(tasks, op, r), o) = Counts(tasks, o)
<1> DEFINE m == Put(tasks, op, r)
<1>1. DOMAIN m = Operations /\ \A o \in Operations \ {op} : m[o] = tasks[o] BY DEF TaskOK, Put
<1>2. m[op] = r BY DEF TaskOK, Put
<1> HIDE DEF m
<1>3. TaskOK(m)
  <2> SUFFICES ASSUME NEW o \in Operations
               PROVE  /\ DOMAIN m[o] = {"phase", "old"} /\ m[o].phase \in Phases /\ m[o].old \in BOOLEAN
                      /\ m[o].phase \in {"idle", "delay"} => ~m[o].old
    BY <1>1 DEF TaskOK
  <2>1. CASE o = op BY <1>2, <2>1
  <2>2. CASE o # op BY <1>1, <2>2 DEF TaskOK
  <2> QED BY <2>1, <2>2
<1>4. \A o \in Operations \ {op} : m[o] = tasks[o] /\ Counts(m, o) = Counts(tasks, o) BY <1>1 DEF Counts
<1> QED BY <1>2, <1>3, <1>4 DEF m

\* It goes from one phase to another.
Move(tasks, op, phase) == [tasks EXCEPT ![op].phase = phase]

LEMMA MoveOK ==
    ASSUME NEW tasks, TaskOK(tasks), NEW op \in Operations, NEW phase \in Phases,
           phase \in {"idle", "delay"} => ~tasks[op].old
    PROVE  /\ TaskOK(Move(tasks, op, phase))
           /\ Move(tasks, op, phase)[op].phase = phase /\ Move(tasks, op, phase)[op].old = tasks[op].old
           /\ \A o \in Operations \ {op} : /\ Move(tasks, op, phase)[o] = tasks[o]
                                           /\ Counts(Move(tasks, op, phase), o) = Counts(tasks, o)
<1> DEFINE r == [tasks[op] EXCEPT !.phase = phase]
<1>1. DOMAIN r = {"phase", "old"} /\ r.phase = phase /\ r.old = tasks[op].old BY DEF TaskOK
<1>2. Move(tasks, op, phase) = Put(tasks, op, r) BY DEF Move, Put
<1>3. tasks[op].old \in BOOLEAN BY DEF TaskOK
<1> HIDE DEF r
<1> QED BY <1>1, <1>2, <1>3, PutOK

\* A button that counts the operation counts it no more, and the other is left alone.
LEMMA DoneOK ==
    ASSUME NEW op \in Operations, TaskOK(task), SpinnersOK(spinner, task),
           task[op].phase \in {"before", "work", "pause"},
           NEW m, m[op].phase \in {"idle", "end"},
           \A o \in Operations \ {op} : Counts(m, o) = Counts(task, o)
    PROVE  SpinnersOK(DoneWith(op), m)
<1> DEFINE b == Button(op)
           s == DoneWith(op)
<1>1. b \in {"submit", "link"} /\ op \in {"submit", "refresh", "again"} BY DEF Button, Operations
<1>2. Counts(m, op) = 0 BY DEF Counts
<1>3. CASE task[op].old
  <2>1. s = spinner BY <1>3 DEF DoneWith
  <2>2. \A o \in Operations : Counts(m, o) = Counts(task, o) BY <1>2, <1>3 DEF Counts
  <2> QED BY <2>1, <2>2 DEF SpinnersOK, Operations
<1>4. CASE ~task[op].old
  <2>1. s = [spinner EXCEPT ![b] = Done(@)] BY <1>4 DEF DoneWith
  <2>2. Counts(task, op) = 1 BY <1>4 DEF Counts
  <2> DEFINE x == spinner[b]
  <2>3. SpinnerOK(x) BY <1>1 DEF SpinnersOK
  <2>4. SpinnerOK(Done(x)) /\ Done(x).count = IF x.count = 0 THEN 0 ELSE x.count - 1 BY <2>3, SpinnerSteps
  <2>5. DOMAIN s = {"submit", "link"} /\ s[b] = Done(x) /\ \A c \in {"submit", "link"} \ {b} : s[c] = spinner[c]
    BY <1>1, <2>1 DEF SpinnersOK
  <2>6. \A o \in Operations : Counts(task, o) \in 0..1 BY DEF Counts
  <2> HIDE DEF s, b
  <2>7. CASE op = "submit"
    <3>1. b = "submit" BY <2>7 DEF b, Button
    <3>2. x.count \in Nat BY <2>3 DEF SpinnerOK
    <3>3. Counts(m, "refresh") = Counts(task, "refresh") /\ Counts(m, "again") = Counts(task, "again")
      BY <2>7 DEF Operations
    <3>4. SpinnerOK(s["submit"]) /\ SpinnerOK(s["link"]) BY <2>4, <2>5, <3>1 DEF SpinnersOK
    <3>5. s["submit"].count <= Counts(m, "submit") BY <1>2, <2>2, <2>4, <2>5, <2>7, <3>1, <3>2 DEF SpinnersOK
    <3>6. s["link"].count <= Counts(m, "refresh") + Counts(m, "again") BY <2>5, <3>1, <3>3 DEF SpinnersOK
    <3>7. SpinnersOK(s, m) BY <2>5, <3>4, <3>5, <3>6 DEF SpinnersOK
    <3> QED BY <3>7 DEF s
  <2>8. CASE op # "submit"
    <3>1. b = "link" BY <2>8 DEF b, Button
    <3>2. x.count \in Nat BY <2>3 DEF SpinnerOK
    <3>3. Counts(m, "submit") = Counts(task, "submit") BY <2>8 DEF Operations
    <3>4. SpinnerOK(s["submit"]) /\ SpinnerOK(s["link"]) BY <2>4, <2>5, <3>1 DEF SpinnersOK
    <3>5. s["submit"].count <= Counts(m, "submit") BY <2>5, <3>1, <3>3 DEF SpinnersOK
    <3>6. Counts(m, "refresh") + Counts(m, "again") = (Counts(task, "refresh") + Counts(task, "again")) - 1
      <4>1. CASE op = "refresh"
        <5>1. Counts(m, "again") = Counts(task, "again") BY <4>1 DEF Operations
        <5>2. Counts(task, "again") \in 0..1 BY <2>6 DEF Operations
        <5> QED BY <1>2, <2>2, <4>1, <5>1, <5>2
      <4>2. CASE op = "again"
        <5>1. Counts(m, "refresh") = Counts(task, "refresh") BY <4>2 DEF Operations
        <5>2. Counts(task, "refresh") \in 0..1 BY <2>6 DEF Operations
        <5> QED BY <1>2, <2>2, <4>2, <5>1, <5>2
      <4> QED BY <1>1, <2>8, <4>1, <4>2
    <3>7. Counts(m, "refresh") + Counts(m, "again") \in Nat BY DEF Counts
    <3>8. x.count <= Counts(task, "refresh") + Counts(task, "again") BY <3>1 DEF SpinnersOK
    <3>9. Counts(task, "refresh") + Counts(task, "again") \in Nat BY DEF Counts
    <3> DEFINE before == Counts(task, "refresh") + Counts(task, "again")
               after == Counts(m, "refresh") + Counts(m, "again")
    <3>10. s["link"].count <= after
      <4>1. s["link"] = Done(x) BY <2>5, <3>1
      <4>2. after \in Nat /\ before \in Nat /\ x.count <= before BY Zenon, <3>7, <3>8, <3>9
      <4>3. after = before - 1 BY Zenon, <3>6
      <4> HIDE DEF x, before, after
      <4>4. Done(x).count <= after BY <2>4, <3>2, <4>2, <4>3
      <4> QED BY <4>1, <4>4
    <3>11. SpinnersOK(s, m) BY <2>5, <3>4, <3>5, <3>10 DEF SpinnersOK
    <3> QED BY <3>11 DEF s
  <2> QED BY <2>7, <2>8
<1> QED BY <1>3, <1>4

-----------------------------------------------------------------------------
(***************************************************************************)
(* The steps.  The set-up stays, so that each part may be looked at with   *)
(* the inputs there are.                                                   *)
(***************************************************************************)
LEMMA FormLater ==
    ASSUME FormInv, setup' = setup,
           ViewOK(view'), FormOK(form'), TaskOK(task'), LogOK(log'), SpinnersOK(spinner', task'),
           RequestOK(request', task'["submit"].phase, form'.texts),
           NoticeOK(view', request', task'["submit"].phase),
           TipsOK(tips', form'.marked)
    PROVE  FormInv'
<1>1. Inputs' = Inputs /\ Passwords' = Passwords BY DEF Inputs, Passwords
<1>2. setup' \in Scenarios BY DEF FormInv
<1>3. FormOK(form)' BY <1>1 DEF FormOK
<1>4. TipsOK(tips, form.marked)' BY <1>1 DEF TipsOK
<1>5. Judged(form.texts)' = Judged(form'.texts) BY <1>1 DEF Judged
<1>6. RequestOK(request, task["submit"].phase, form.texts)' BY <1>1, <1>5 DEF RequestOK
<1> QED BY <1>2, <1>3, <1>4, <1>6 DEF FormInv, ViewOK, TaskOK, LogOK, SpinnersOK, SpinnerOK, Counts, NoticeOK

\* A screen is made with no message but the error it is passed.
LEMMA NewViewOK ==
    ASSUME setup \in Scenarios, NEW err \in Errors \cup {"none"}
    PROVE  ViewOK(FreshView(err)) /\ ~FreshView(err).errorVisible
  BY InputTypes DEF FreshView, ViewOK, Shown

LEMMA NewFormOK ==
    ASSUME setup \in Scenarios
    PROVE  FormOK(NewForm) /\ NewForm.marked = {} /\ NewForm.legible = {}
<1> DEFINE raw == [texts |-> [i \in Inputs |-> setup.texts[i]], previous |-> <<>>, engaged |-> FALSE,
                   marked |-> {}, labels |-> {}, legible |-> {}, held |-> FALSE]
           before == [i \in Inputs |-> Val(setup.inputs[i], setup.texts[i])]
           texts == [i \in Inputs |-> setup.texts[i]]
           labels == {i \in Passwords : RawLength(setup.texts[i]) > 0}
<1>1. NewForm = [raw EXCEPT !.previous = before, !.labels = labels] BY DEF NewForm
<1>2. DOMAIN texts = Inputs /\ labels \subseteq Passwords OBVIOUS
<1> HIDE DEF before, texts, labels
<1> QED BY <1>1, <1>2 DEF FormOK, texts

LEMMA NoTasksOK ==
    ASSUME NEW tasks, tasks = [op \in Operations |-> NoTask],
           NEW spinners, spinners = [b \in {"submit", "link"} |-> NoSpinner]
    PROVE  TaskOK(tasks) /\ SpinnersOK(spinners, tasks) /\ tasks["submit"].phase = "idle"
<1>1. \A op \in Operations : /\ DOMAIN tasks[op] = {"phase", "old"} /\ tasks[op].phase = "idle"
                              /\ tasks[op].old \in BOOLEAN /\ ~tasks[op].old
  BY DEF NoTask
<1>2. \A b \in {"submit", "link"} : /\ DOMAIN spinners[b] = {"count", "show", "remove", "shown"} /\ spinners[b].count = 0
                                     /\ spinners[b].show \in BOOLEAN /\ ~spinners[b].show
                                     /\ spinners[b].remove \in BOOLEAN /\ ~spinners[b].remove
                                     /\ spinners[b].shown \in BOOLEAN /\ ~spinners[b].shown
  BY DEF NoSpinner
<1>3. TaskOK(tasks) BY <1>1 DEF TaskOK, Phases
<1>4. SpinnerOK(spinners["submit"]) /\ SpinnerOK(spinners["link"]) BY <1>2 DEF SpinnerOK
<1>5. Counts(tasks, "submit") = 0 /\ Counts(tasks, "refresh") = 0 /\ Counts(tasks, "again") = 0
  BY <1>1 DEF Counts, Operations
<1>6. spinners["submit"].count = 0 /\ spinners["link"].count = 0 BY <1>2
<1>7. SpinnersOK(spinners, tasks) BY <1>4, <1>5, <1>6 DEF SpinnersOK
<1> QED BY <1>1, <1>3, <1>7 DEF Operations

LEMMA NoRequestOK ==
    ASSUME NEW texts, NEW v, ~v.errorVisible
    PROVE  RequestOK(NoRequest, "idle", texts) /\ NoticeOK(v, NoRequest, "idle")
  BY DEF RequestOK, NoticeOK, NoRequest

LEMMA NoTipsOK == TipsOK({}, {})
  BY FS_EmptySet DEF TipsOK

LEMMA FormInitOK == ASSUME PageInit PROVE FormInv
<1>1. setup \in Scenarios BY DEF PageInit
<1>2. setup.passed \in Errors \cup {"none"} BY <1>1, InputTypes DEF Errors
<1>3. ViewOK(view) /\ ~view.errorVisible BY <1>1, <1>2, NewViewOK DEF PageInit
<1>4. FormOK(form) /\ form.marked = {} BY <1>1, NewFormOK DEF PageInit
<1>5. TaskOK(task) /\ SpinnersOK(spinner, task) /\ task["submit"].phase = "idle"
  BY NoTasksOK DEF PageInit
<1>6. /\ RequestOK(request, task["submit"].phase, form.texts)
      /\ NoticeOK(view, request, task["submit"].phase)
  BY <1>3, <1>5, NoRequestOK DEF PageInit
<1>7. TipsOK(tips, form.marked) BY <1>4, NoTipsOK DEF PageInit
<1>8. LogOK(log)
  <2> DEFINE reported == [e \in Errors |-> IF e = setup.passed THEN 1 ELSE 0]
             first == [reported |-> reported, logged |-> {setup.passed} \ {"none"}, submits |-> 0, edits |-> 0]
  <2>1. log = Translate(UnsafeTranslate(first, setup.text), setup.text) BY DEF PageInit
  <2>2. reported \in [Errors -> Nat] OBVIOUS
  <2>3. \A e \in Errors : reported[e] = IF e = setup.passed THEN 1 ELSE 0 OBVIOUS
  <2> HIDE DEF reported
  <2>4. LogOK(first)
    <3>1. /\ DOMAIN first = {"reported", "logged", "submits", "edits"}
          /\ first.reported \in [Errors -> Nat] /\ first.logged \subseteq Errors
          /\ first.submits \in 0..MaxSubmits /\ first.edits \in 0..MaxEdits
      BY <1>2, <2>2, BoundsAssumption
    <3>2. first.reported = reported /\ first.logged = {setup.passed} \ {"none"} OBVIOUS
    <3>3. "none" \notin Errors BY DEF Errors
    <3> HIDE DEF first
    <3> QED BY <1>2, <2>3, <3>1, <3>2, <3>3 DEF LogOK
  <2> HIDE DEF first
  <2>5. LogOK(UnsafeTranslate(first, setup.text)) BY <2>4, ReportOK DEF UnsafeTranslate
  <2> QED BY <2>1, <2>5, ReportOK DEF Translate
<1> QED BY <1>1, <1>3, <1>4, <1>5, <1>6, <1>7, <1>8 DEF FormInv

LEMMA SpinnersStay ==
    ASSUME NEW spinners, NEW tasks, SpinnersOK(spinners, tasks), NEW m,
           \A o \in Operations : Counts(m, o) = Counts(tasks, o)
    PROVE  SpinnersOK(spinners, m)
  BY DEF SpinnersOK, Operations

LEMMA AfterVisibleOK == ASSUME FormInv, AfterVisible PROVE FormInv'
<1> USE DEF FormInv, AfterVisible
<1> DEFINE v0 == IF view.success THEN DisplaySuccess([view EXCEPT !.success = FALSE]) ELSE view
           v1 == [v0 EXCEPT !.passed = "none"]
           v2 == IF v0.passed # "none" THEN DisplayError(v1, v0.passed) ELSE v0
           said == StackWideLinks(setup.links, 100)
           focus == IF setup.autofocus /\ ~setup.touch THEN "waits" ELSE "none"
<1>1. view' = [v2 EXCEPT !.life = "shown", !.stacked = said, !.focus = focus] BY DEF DisplayStatusMessages
<1>2. /\ ViewOK(v0)
      /\ Kept([view EXCEPT !.success = FALSE], v0) \/ v0 = view
      /\ v0 = view \/ ~v0.errorVisible
      /\ v0.passed = view.passed /\ v0.errorsEnabled = view.errorsEnabled
  <2> DEFINE w == [view EXCEPT !.success = FALSE]
  <2>1. ViewOK(w) /\ w.passed = view.passed /\ w.errorsEnabled = view.errorsEnabled BY DEF ViewOK
  <2>2. "WORKING" \in Errors \cup {"WORKING"} OBVIOUS
  <2> HIDE DEF w
  <2>3. ViewOK(DisplaySuccess(w)) /\ Kept(w, DisplaySuccess(w)) /\ ~DisplaySuccess(w).errorVisible
    BY <2>1, <2>2, MessagesOK
  <2> QED BY <2>1, <2>3 DEF w, Kept
<1>3. ViewOK(v0) BY <1>2
<1> HIDE DEF v0
<1>4. ViewOK(v2) /\ NoticeOK(v2, request, task["submit"].phase)
  <2>1. CASE v0.passed = "none"
    <3>1. v2 = v0 BY <2>1
    <3> QED BY <1>2, <1>3, <3>1 DEF NoticeOK
  <2>2. CASE v0.passed # "none"
    <3>1. v0.passed \in Errors BY <1>3, <2>2 DEF ViewOK
    <3>2. ViewOK(v1) BY <1>3 DEF ViewOK
    <3> HIDE DEF v1
    <3>3. v2 = DisplayError(v1, v0.passed) BY <2>2
    <3>4. ViewOK(v2) /\ (v2.errorsEnabled => v2.error = v0.passed) BY <3>1, <3>2, <3>3, MessagesOK
    <3>5. v2.errorsEnabled => v2.error # "WORKING" BY <3>1, <3>4 DEF Errors
    <3> QED BY <3>4, <3>5 DEF NoticeOK
  <2> QED BY <2>1, <2>2
<1>5. said \in BOOLEAN /\ focus \in {"none", "waits"} BY DEF StackWideLinks
<1> HIDE DEF v2, said, focus
<1>6. ViewOK(view') /\ NoticeOK(view', request, task["submit"].phase)
  BY <1>1, <1>4, <1>5 DEF ViewOK, NoticeOK
<1>7. LogOK(log') BY ReportOK DEF DisplayStatusMessages, Displayed
<1> QED BY <1>6, <1>7, FormLater

LEMMA ViewStepsOK ==
    ASSUME FormInv, FocusAutofocusElement \/ BeforeUnload PROVE FormInv'
<1> USE DEF FormInv
<1>1. CASE FocusAutofocusElement
  <2>1. view' = [view EXCEPT !.focus = "placed"] BY <1>1 DEF FocusAutofocusElement
  <2>2. ViewOK(view') /\ NoticeOK(view', request, task["submit"].phase) BY <2>1 DEF ViewOK, NoticeOK
  <2> QED BY <1>1, <2>2, FormLater DEF FocusAutofocusElement
<1>2. CASE BeforeUnload
  <2>1. view' = [view EXCEPT !.errorsEnabled = FALSE] BY <1>2 DEF BeforeUnload, DisableErrors
  <2>2. ViewOK(view') /\ NoticeOK(view', request, task["submit"].phase) BY <2>1 DEF ViewOK, NoticeOK
  <2> QED BY <1>2, <2>2, FormLater DEF BeforeUnload
<1> QED BY <1>1, <1>2

\* What the user types: the messages go, the texts change, and the request knows.
LEMMA EditOK ==
    ASSUME FormInv, NEW i \in Inputs, NEW t, NEW texts, texts = [form.texts EXCEPT ![i] = t],
           NEW gone, gone \subseteq tips,
           form' = Changed(DestroyTips(form, gone), texts),
           view' = OnFormChange(texts), request' = [request EXCEPT !.edited = TRUE],
           log' = [log EXCEPT !.edits = @ + 1], log.edits < MaxEdits,
           TipsOK(tips', form.marked \ {tip.el : tip \in gone}),
           UNCHANGED <<setup, task, spinner>>
    PROVE  FormInv'
<1> USE DEF FormInv
<1> DEFINE left == form.marked \ {tip.el : tip \in gone}
           f == DestroyTips(form, gone)
<1>1. FormOK(f) /\ f.marked = left BY DEF FormOK, DestroyTips
<1>2. DOMAIN texts = Inputs BY DEF FormOK
<1>3. FormOK(form') /\ form'.marked = left /\ form'.texts = texts
  <2> DEFINE values == GetFormValues(texts)
             engaged == f.engaged \/ (DetectFormValueChanges(form, texts) /\ ~IsSubmitting)
             labels == AddShowPasswordLabel(f.labels, texts)
  <2>1. form' = [f EXCEPT !.texts = texts, !.previous = values, !.engaged = engaged, !.labels = labels]
    BY DEF Changed
  <2>2. engaged \in BOOLEAN BY <1>1 DEF FormOK
  <2>3. labels \subseteq Passwords BY <1>1 DEF FormOK, AddShowPasswordLabel
  <2> HIDE DEF f, values, engaged, labels, left
  <2> QED BY <1>1, <1>2, <2>1, <2>2, <2>3 DEF FormOK
<1>4. ViewOK(view') /\ (view'.errorVisible => view' = view)
  <2> DEFINE v == HideError(view)
  <2>1. "WORKING" \in Errors \cup {"WORKING"} OBVIOUS
  <2>2. ViewOK(v) /\ ~v.errorVisible BY <2>1, MessagesOK
  <2> HIDE DEF v
  <2>3. ViewOK(HideSuccess(v)) /\ ~HideSuccess(v).errorVisible BY <2>1, <2>2, MessagesOK
  <2> QED BY <2>3 DEF v, OnFormChange
<1>5. /\ RequestOK(request', task["submit"].phase, texts)
      /\ NoticeOK(view', request', task["submit"].phase)
  <2>1. RequestOK(request', task["submit"].phase, texts) /\ request'.notice = request.notice
    BY DEF RequestOK
  <2> QED BY <1>4, <2>1 DEF NoticeOK
<1>6. LogOK(log') BY BoundsAssumption DEF LogOK
<1> QED BY <1>1, <1>3, <1>4, <1>5, <1>6, FormLater

LEMMA TypingOK ==
    ASSUME FormInv, NEW i \in Inputs, Key(i) \/ Paste(i) PROVE FormInv'
<1>1. TipsOK(tips, form.marked) BY DEF FormInv
<1>2. CASE Key(i)
  <2>1. PICK t : LET texts == [form.texts EXCEPT ![i] = t]
                     gone == CloseIfInvalidElementValueHasChanged(i, texts)
                 IN  /\ form' = Changed(DestroyTips(form, gone), texts)
                     /\ tips' = tips \ gone
                     /\ view' = OnFormChange(texts)
    BY <1>2 DEF Key
  <2> DEFINE texts == [form.texts EXCEPT ![i] = t]
             gone == CloseIfInvalidElementValueHasChanged(i, texts)
  <2>2. gone \subseteq tips BY DEF CloseIfInvalidElementValueHasChanged
  <2>3. tips' = tips \ gone BY <2>1
  <2> HIDE DEF texts, gone
  <2>4. TipsOK(tips', form.marked \ {tip.el : tip \in gone}) BY <1>1, <2>2, <2>3, TipsGo
  <2>5. /\ texts = [form.texts EXCEPT ![i] = t] /\ view' = OnFormChange(texts)
        /\ form' = Changed(DestroyTips(form, gone), texts)
    BY <2>1 DEF texts, gone
  <2> QED BY <1>2, <2>2, <2>4, <2>5, EditOK DEF Key
<1>3. CASE Paste(i)
  <2> DEFINE gone == {tip \in ShownTips : tip.el = i}
  <2>1. PICK t : LET texts == [form.texts EXCEPT ![i] = t]
                 IN  /\ form' = Changed(DestroyTips(form, gone), texts)
                     /\ tips' = AfterDestroy(tips, gone)
                     /\ view' = OnFormChange(texts)
    BY <1>3 DEF Paste
  <2>2. gone \subseteq tips BY DEF ShownTips
  <2>3. TipsOK(tips', form.marked \ {tip.el : tip \in gone}) BY <1>1, <2>1, <2>2, TipsGo
  <2> QED BY <1>3, <2>1, <2>2, <2>3, EditOK DEF Paste
<1> QED BY <1>2, <1>3

LEMMA PasswordStepsOK ==
    ASSUME FormInv, (\E i \in Passwords : OnShowPasswordMouseDown(i)) \/ MouseUp
    PROVE  FormInv'
<1> USE DEF FormInv
<1>1. FormOK(form') /\ form'.texts = form.texts /\ form'.marked = form.marked
  <2>1. ASSUME NEW i \in Passwords, OnShowPasswordMouseDown(i)
        PROVE  FormOK(form') /\ form'.texts = form.texts /\ form'.marked = form.marked
    <3> DEFINE legible == form.legible \cup GetAffectedPasswordInputs(i)
    <3>1. form' = [form EXCEPT !.legible = legible, !.held = TRUE]
      BY <2>1 DEF OnShowPasswordMouseDown, ShowPassword
    <3>2. legible \subseteq Passwords BY DEF FormOK, GetAffectedPasswordInputs
    <3> HIDE DEF legible
    <3> QED BY <3>1, <3>2 DEF FormOK
  <2>2. CASE MouseUp BY <2>2 DEF MouseUp, HideVisiblePasswords, FormOK
  <2> QED BY <2>1, <2>2
<1>2. UNCHANGED <<setup, view, task, spinner, request, tips, log>>
  BY DEF OnShowPasswordMouseDown, MouseUp
<1> QED BY <1>1, <1>2, FormLater

LEMMA HiddenOK ==
    ASSUME FormInv
    PROVE  LET f == HideVisiblePasswords(form)
           IN  FormOK(f) /\ f.texts = form.texts /\ f.marked = form.marked
  BY DEF FormInv, FormOK, HideVisiblePasswords

\* No tooltip is shown any more, and no input marked.
LEMMA AllTipsGo ==
    ASSUME NEW all, NEW marked, TipsOK(all, marked)
    PROVE  /\ TipsOK(AfterDestroy(all, OneVisibleOfType(all)), {})
           /\ \A tip \in AfterDestroy(all, OneVisibleOfType(all)) : ~tip.shown
           /\ marked \ {tip.el : tip \in OneVisibleOfType(all)} = {}
<1> DEFINE shownTips == OneVisibleOfType(all)
           left == marked \ {tip.el : tip \in shownTips}
<1>1. shownTips \subseteq all /\ \A tip \in all : tip.shown => tip \in shownTips BY DEF OneVisibleOfType
<1>2. left = {} BY <1>1 DEF TipsOK
<1>3. TipsOK(AfterDestroy(all, shownTips), left) BY <1>1, TipsGo
<1>4. \A tip \in AfterDestroy(all, shownTips) : tip.shown => tip \in all \ shownTips BY <1>1, TipsGo
<1> QED BY <1>1, <1>2, <1>3, <1>4

\* A refused input is explained, and nothing else is.
LEMMA RefusalOK ==
    ASSUME FormInv, NEW i \in Inputs, ShowValidationError(i)
    PROVE  /\ FormOK(form') /\ form'.texts = form.texts
           /\ TipsOK(tips', form'.marked)
<1> USE DEF FormInv
<1> DEFINE gone == OneVisibleOfType(tips)
           h == HideVisiblePasswords(form)
           f == DestroyTips(h, gone)
           new == NewTip(i, form.texts)
           off == AfterDestroy(tips, gone)
<1>1. TipsOK(off, {}) /\ \A tip \in off : ~tip.shown BY AllTipsGo
<1>2. form.marked \ {tip.el : tip \in gone} = {} BY AllTipsGo
<1>3. DOMAIN new = {"n", "el", "original", "shown"} /\ new.el = i /\ new.shown \in BOOLEAN /\ new.shown
  BY DEF NewTip
<1>4. FormOK(h) /\ h.texts = form.texts /\ h.marked = form.marked BY HiddenOK
<1>5. tips' = off \cup {new} /\ form' = [f EXCEPT !.marked = @ \cup {i}] BY DEF ShowValidationError
<1> HIDE DEF h, new, off, gone
<1>6. FormOK(f) /\ f.texts = form.texts /\ f.marked = {} BY <1>2, <1>4 DEF DestroyTips, FormOK
<1> HIDE DEF f
<1>7. FormOK(form') /\ form'.texts = form.texts /\ form'.marked = {i}
  BY <1>5, <1>6 DEF FormOK
<1>8. IsFiniteSet(off \cup {new}) BY <1>1, FS_AddElement DEF TipsOK
<1>9. TipsOK(tips', {i}) BY <1>1, <1>3, <1>5, <1>8 DEF TipsOK
<1> QED BY <1>7, <1>9

LEMMA ValidateAndSubmitOK == ASSUME FormInv, ValidateAndSubmit PROVE FormInv'
<1> USE DEF FormInv
<1>1. task["submit"].phase = "idle"
  BY DEF ValidateAndSubmit, AllowOnlyOneSubmit, IsSubmitting
<1>2. LogOK(log')
  <2>1. log' = [log EXCEPT !.submits = @ + 1] /\ log.submits < MaxSubmits BY DEF ValidateAndSubmit
  <2> QED BY <2>1, BoundsAssumption DEF LogOK
<1>3. setup' = setup BY DEF ValidateAndSubmit
<1>4. CASE ~IsValid(form.texts)
  <2>1. /\ ShowValidationError(FirstRefused(form.texts))
        /\ view' = HideError(view) /\ UNCHANGED <<task, spinner, request>>
    BY <1>4 DEF ValidateAndSubmit
  <2>2. FirstRefused(form.texts) \in Inputs BY <1>4, FirstIsRefused
  <2>3. "WORKING" \in Errors \cup {"WORKING"} OBVIOUS
  <2>4. ViewOK(view') /\ ~view'.errorVisible BY <2>1, <2>3, MessagesOK
  <2>5. NoticeOK(view', request, task["submit"].phase) BY <2>4 DEF NoticeOK
  <2>6. FormOK(form') /\ form'.texts = form.texts /\ TipsOK(tips', form'.marked)
    BY <2>1, <2>2, RefusalOK
  <2> QED BY <1>2, <1>3, <2>1, <2>4, <2>5, <2>6, FormLater
<1>5. CASE IsValid(form.texts)
  <2>1. FormOK(form') /\ form'.texts = form.texts /\ form'.marked = form.marked
    BY <1>5, HiddenOK DEF ValidateAndSubmit
  <2>2. UNCHANGED <<view, tips>> BY <1>5 DEF ValidateAndSubmit
  <2>3. CASE ~IsFormEnabled
    <3>1. UNCHANGED <<task, spinner, request>> BY <1>5, <2>3 DEF ValidateAndSubmit
    <3> QED BY <1>2, <1>3, <2>1, <2>2, <3>1, FormLater
  <2>4. CASE IsFormEnabled
    <3>1. /\ task' = [task EXCEPT !["submit"] = [NoTask EXCEPT !.phase = "delay"]]
          /\ spinner' = [spinner EXCEPT !["submit"] = Start(@)]
          /\ request' = [request EXCEPT !.working = TRUE, !.notice = FALSE, !.edited = FALSE]
      BY <1>5, <2>4 DEF ValidateAndSubmit
    <3>2. "submit" \in Operations BY DEF Operations
    <3>3. /\ TaskOK(task') /\ task'["submit"].phase = "delay" /\ ~task'["submit"].old
          /\ \A o \in Operations \ {"submit"} : Counts(task', o) = Counts(task, o)
      <4> DEFINE r == [NoTask EXCEPT !.phase = "delay"]
      <4>1. DOMAIN r = {"phase", "old"} /\ r.phase = "delay" /\ r.old \in BOOLEAN /\ ~r.old BY DEF NoTask
      <4>2. task' = Put(task, "submit", r) BY <3>1 DEF Put
      <4> HIDE DEF r
      <4>3. r.phase \in Phases BY <4>1 DEF Phases
      <4>4. /\ TaskOK(task') /\ task'["submit"] = r
            /\ \A o \in Operations \ {"submit"} : Counts(task', o) = Counts(task, o)
        BY <3>2, <4>1, <4>2, <4>3, PutOK
      <4> QED BY <4>1, <4>4
    <3>4. SpinnersOK(spinner', task')
      <4> DEFINE x == spinner["submit"]
      <4>1. SpinnerOK(x) /\ x.count <= Counts(task, "submit") /\ x.count \in Nat BY DEF SpinnersOK, SpinnerOK
      <4>2. Counts(task, "submit") = 0 /\ Counts(task', "submit") = 1 BY <1>1, <3>3 DEF Counts
      <4>3. SpinnerOK(Start(x)) /\ Start(x).count = x.count + 1 BY <4>1, SpinnerSteps
      <4>4. DOMAIN spinner' = {"submit", "link"} /\ spinner'["submit"] = Start(x)
            /\ spinner'["link"] = spinner["link"]
        BY <3>1 DEF SpinnersOK
      <4>5. Counts(task', "refresh") = Counts(task, "refresh") /\ Counts(task', "again") = Counts(task, "again")
        BY <3>3 DEF Operations
      <4> HIDE DEF x
      <4>6. Start(x).count <= 1 BY <4>1, <4>2, <4>3
      <4> QED BY <4>2, <4>3, <4>4, <4>5, <4>6 DEF SpinnersOK
    <3>5. Judged(form.texts) = {}
      <4>1. RefusedInputs(form.texts) = Judged(form.texts) BY RefusedIsJudged DEF FormOK
      <4> QED BY <1>5, <4>1 DEF IsValid
    <3>6. RequestOK(request', "delay", form.texts)
      BY <1>1, <3>1, <3>5 DEF RequestOK
    <3>7. NoticeOK(view, request', "delay") BY <1>1 DEF NoticeOK
    <3> QED BY <1>2, <1>3, <2>1, <2>2, <3>3, <3>4, <3>6, <3>7, FormLater
  <2> QED BY <2>3, <2>4
<1> QED BY <1>4, <1>5

LEMMA NotifyOK == ASSUME FormInv, NotifyDelayedRequest PROVE FormInv'
<1> USE DEF FormInv
<1>1. /\ request.working /\ view' = DisplayError(view, "WORKING")
      /\ request' = [request EXCEPT !.working = FALSE, !.notice = view.errorsEnabled]
      /\ UNCHANGED <<setup, form, task, spinner, tips, log>>
  BY DEF NotifyDelayedRequest
<1>2. "WORKING" \in Errors \cup {"WORKING"} OBVIOUS
<1>3. ViewOK(view') /\ Kept(view, view') BY <1>1, <1>2, MessagesOK
<1>4. view.errorsEnabled \in BOOLEAN BY DEF ViewOK
<1>5. RequestOK(request', task["submit"].phase, form.texts) BY <1>1, <1>4 DEF RequestOK
<1>6. task["submit"].phase \notin {"idle", "end"} BY <1>1 DEF RequestOK
<1>7. view'.errorsEnabled => request'.notice BY <1>1, <1>3 DEF Kept, RequestOK
<1>8. NoticeOK(view', request', task["submit"].phase) BY <1>6, <1>7 DEF NoticeOK
<1> QED BY <1>1, <1>3, <1>5, <1>8, FormLater

\* A step of an operation that still counts, or still does not.
LEMMA MoveStays ==
    ASSUME FormInv, NEW op \in Operations, NEW phase \in Phases \ {"idle", "delay"},
           task' = [task EXCEPT ![op].phase = phase],
           \/ {task[op].phase, phase} \subseteq {"delay", "before", "work", "pause", "halted"}
           \/ {task[op].phase, phase} \cap {"delay", "before", "work", "pause", "halted"} = {}
    PROVE  /\ TaskOK(task') /\ SpinnersOK(spinner, task') /\ task'[op].phase = phase
           /\ \A o \in Operations \ {op} : task'[o] = task[o]
<1> USE DEF FormInv
<1> DEFINE m == Move(task, op, phase)
<1>1. task' = m BY DEF Move
<1>2. /\ TaskOK(m) /\ m[op].phase = phase /\ m[op].old = task[op].old
      /\ \A o \in Operations \ {op} : m[o] = task[o] /\ Counts(m, o) = Counts(task, o)
  BY MoveOK
<1> HIDE DEF m
<1>3. Counts(m, op) = Counts(task, op) BY <1>2 DEF Counts
<1>4. SpinnersOK(spinner, m) BY <1>2, <1>3, SpinnersStay
<1> QED BY <1>1, <1>2, <1>4

LEMMA DelayEndsOK == ASSUME FormInv, NEW op \in Operations, DelayEnds(op) PROVE FormInv'
<1> USE DEF FormInv
<1> DEFINE phase == IF op = "submit" THEN "before" ELSE "work"
<1>1. /\ task[op].phase = "delay" /\ task' = [task EXCEPT ![op].phase = phase]
      /\ UNCHANGED <<setup, view, form, spinner, request, tips, log>>
  BY DEF DelayEnds
<1>2. phase \in Phases \ {"idle", "delay"} /\ phase \in {"before", "work"} BY DEF Phases
<1>3. phase = "before" <=> op = "submit" OBVIOUS
<1> HIDE DEF phase
<1>4. /\ TaskOK(task') /\ SpinnersOK(spinner, task') /\ task'[op].phase = phase
      /\ \A o \in Operations \ {op} : task'[o] = task[o]
  BY <1>1, <1>2, MoveStays
<1>5. /\ RequestOK(request, task'["submit"].phase, form.texts)
      /\ NoticeOK(view, request, task'["submit"].phase)
  <2>1. CASE op = "submit"
    <3>1. task["submit"].phase = "delay" /\ task'["submit"].phase = "before" BY <1>1, <1>3, <1>4, <2>1
    <3> QED BY <3>1 DEF RequestOK, NoticeOK
  <2>2. CASE op # "submit"
    <3>1. task'["submit"] = task["submit"] BY <1>4, <2>2 DEF Operations
    <3> QED BY <3>1
  <2> QED BY <2>1, <2>2
<1> QED BY <1>1, <1>4, <1>5, FormLater

LEMMA BeforeSubmitOK ==
    ASSUME FormInv, BeforeSubmitAgrees \/ BeforeSubmitDeclines PROVE FormInv'
<1> USE DEF FormInv
<1>1. /\ task["submit"].phase = "before"
      /\ UNCHANGED <<setup, view, form, spinner, tips, log>>
  BY DEF BeforeSubmitAgrees, BeforeSubmitDeclines
<1>2. "submit" \in Operations /\ {"work", "pause"} \subseteq Phases \ {"idle", "delay"}
  BY DEF Operations, Phases
<1>3. CASE BeforeSubmitAgrees
  <2>1. /\ task' = [task EXCEPT !["submit"].phase = "work"]
        /\ request' = [request EXCEPT !.asked = @ + 1, !.refused = RefusedInputs(form.texts)]
    BY <1>3 DEF BeforeSubmitAgrees
  <2>2. TaskOK(task') /\ SpinnersOK(spinner, task') /\ task'["submit"].phase = "work"
    BY <1>1, <1>2, <2>1, MoveStays
  <2>3. RefusedInputs(form.texts) = Judged(form.texts) BY RefusedIsJudged DEF FormOK
  <2>4. Judged(form.texts) \subseteq Inputs BY DEF Judged
  <2>5. RequestOK(request', "work", form.texts) BY <1>1, <2>1, <2>3, <2>4 DEF RequestOK
  <2>6. NoticeOK(view, request', "work") BY <1>1, <2>1 DEF NoticeOK, RequestOK
  <2> QED BY <1>1, <2>2, <2>5, <2>6, FormLater
<1>4. CASE BeforeSubmitDeclines
  <2>1. task' = [task EXCEPT !["submit"].phase = "pause"] /\ request' = request
    BY <1>4 DEF BeforeSubmitDeclines
  <2>2. TaskOK(task') /\ SpinnersOK(spinner, task') /\ task'["submit"].phase = "pause"
    BY <1>1, <1>2, <2>1, MoveStays
  <2>3. RequestOK(request', "pause", form.texts) /\ NoticeOK(view, request', "pause")
    BY <1>1, <2>1 DEF RequestOK, NoticeOK
  <2> QED BY <1>1, <2>2, <2>3, FormLater
<1> QED BY <1>3, <1>4

LEMMA AnswerIsError == ASSUME NEW n PROVE Answer(n) \in Errors \ {"WORKING", "none"}
  BY DEF Answer, Errors

\* An operation that is over: its task is none.
LEMMA OverOK ==
    ASSUME FormInv, NEW op \in Operations, task' = [task EXCEPT ![op] = NoTask]
    PROVE  /\ TaskOK(task') /\ task'[op].phase = "idle"
           /\ \A o \in Operations \ {op} :
                 task'[o] = task[o] /\ Counts(task', o) = Counts(task, o)
<1> DEFINE r == NoTask
<1>1. DOMAIN r = {"phase", "old"} /\ r.phase = "idle" /\ r.old \in BOOLEAN /\ ~r.old BY DEF NoTask
<1>2. task' = Put(task, op, r) BY DEF Put
<1>3. "idle" \in Phases BY DEF Phases
<1>4. TaskOK(task) BY DEF FormInv
<1> HIDE DEF r
<1>5. r.phase \in Phases BY <1>1, <1>3
<1>6. /\ TaskOK(Put(task, op, r)) /\ Put(task, op, r)[op] = r
      /\ \A o \in Operations \ {op} : /\ Put(task, op, r)[o] = task[o]
                                      /\ Counts(Put(task, op, r), o) = Counts(task, o)
  BY <1>1, <1>4, <1>5, PutOK
<1> QED BY <1>1, <1>2, <1>6

LEMMA SubmitFailsOK == ASSUME FormInv, SubmitFails PROVE FormInv'
<1> USE DEF FormInv
<1> DEFINE err == Answer(log.submits)
           asked == IF task["submit"].phase = "work" THEN request.asked - 1 ELSE request.asked
<1>1. /\ task["submit"].phase \in {"before", "work"}
      /\ view' = DisplayError(view, err) /\ log' = Displayed(log, view, err)
      /\ spinner' = DoneWith("submit")
      /\ task' = [task EXCEPT !["submit"] = [NoTask EXCEPT !.phase = SubmitFailed]]
      /\ request' = [ClearWorkingTimeout(request) EXCEPT !.asked = asked]
      /\ UNCHANGED <<setup, form, tips>>
  BY DEF SubmitFails, ClearWorkingTimeout
<1>2. err \in Errors /\ err # "WORKING" BY AnswerIsError
<1> HIDE DEF err
<1>3. ViewOK(view') /\ (view'.errorsEnabled => view'.error = err) BY <1>1, <1>2, MessagesOK
<1>4. "submit" \in Operations BY DEF Operations
<1>5. /\ TaskOK(task') /\ task'["submit"].phase = "idle"
      /\ \A o \in Operations \ {"submit"} : Counts(task', o) = Counts(task, o)
  <2>1. [NoTask EXCEPT !.phase = SubmitFailed] = NoTask BY DEF NoTask, SubmitFailed
  <2> QED BY <1>1, <1>4, <2>1, OverOK
<1>6. SpinnersOK(spinner', task')
  <2> DEFINE m == task'
  <2>1. m["submit"].phase \in {"idle", "end"} BY <1>5
  <2>2. \A o \in Operations \ {"submit"} : Counts(m, o) = Counts(task, o) BY <1>5
  <2>3. task["submit"].phase \in {"before", "work", "pause"} BY <1>1
  <2> HIDE DEF m
  <2>4. SpinnersOK(DoneWith("submit"), m) BY <1>4, <2>1, <2>2, <2>3, DoneOK
  <2> QED BY <1>1, <2>4 DEF m
<1>7. RequestOK(request', "idle", form.texts)
  <2> DEFINE r == ClearWorkingTimeout(request)
  <2>1. /\ DOMAIN r = DOMAIN request /\ r.working \in BOOLEAN /\ ~r.working /\ r.asked = request.asked
        /\ r.notice = request.notice /\ r.edited = request.edited /\ r.refused = request.refused
    BY DEF ClearWorkingTimeout, RequestOK
  <2>2. asked = 0 BY <1>1 DEF RequestOK
  <2> HIDE DEF r, asked
  <2> QED BY <1>1, <2>1, <2>2 DEF RequestOK, r
<1>8. NoticeOK(view', request', "idle") BY <1>2, <1>3 DEF NoticeOK
<1>9. LogOK(log') BY <1>1, ReportOK DEF Displayed
<1> QED BY <1>1, <1>3, <1>5, <1>6, <1>7, <1>8, <1>9, FormLater

LEMMA SubmitAnsweredOK ==
    ASSUME FormInv, SubmitSucceeds \/ SubmitHalts \/ NavigateWithError PROVE FormInv'
<1> USE DEF FormInv
<1> DEFINE phase == task'["submit"].phase
<1>1. /\ task["submit"].phase = "work"
      /\ UNCHANGED <<setup, form, spinner, tips>>
      /\ request' = [request EXCEPT !.asked = @ - 1]
  BY DEF SubmitSucceeds, SubmitHalts, NavigateWithError
<1>2. PICK p \in {"pause", "halted"} : task' = [task EXCEPT !["submit"].phase = p]
  <2>1. CASE SubmitSucceeds BY <2>1 DEF SubmitSucceeds
  <2>2. CASE SubmitHalts BY <2>2 DEF SubmitHalts
  <2>3. CASE NavigateWithError BY <2>3 DEF NavigateWithError
  <2> QED BY <2>1, <2>2, <2>3
<1>3. "submit" \in Operations /\ p \in Phases \ {"idle", "delay"} BY DEF Operations, Phases
<1>4. TaskOK(task') /\ SpinnersOK(spinner, task') /\ task'["submit"].phase = p
  <2> HIDE DEF FormInv
  <2>1. {task["submit"].phase, p} \subseteq {"delay", "before", "work", "pause", "halted"} BY <1>1, <1>2
  <2> QED BY <1>2, <1>3, <2>1, MoveStays
<1>5. /\ ViewOK(view') /\ LogOK(log')
      /\ view'.error = view.error /\ view'.errorVisible = view.errorVisible
      /\ view'.errorsEnabled = view.errorsEnabled
  <2>1. CASE UNCHANGED <<view, log>> BY <2>1
  <2>2. CASE NavigateWithError
    <3> DEFINE err == Answer(log.submits)
    <3>1. view' = [view EXCEPT !.navigated = TRUE, !.passed = err] /\ log' = LogError(log, err)
      BY <2>2 DEF NavigateWithError
    <3>2. err \in Errors BY AnswerIsError
    <3> HIDE DEF err
    <3> QED BY <3>1, <3>2, ReportOK DEF ViewOK
  <2> QED BY <2>1, <2>2 DEF SubmitSucceeds, SubmitHalts
<1>6. RequestOK(request', p, form.texts) BY <1>1 DEF RequestOK
<1>7. NoticeOK(view', request', p) BY <1>1, <1>5 DEF NoticeOK, RequestOK
<1> QED BY <1>1, <1>4, <1>5, <1>6, <1>7, FormLater

LEMMA DoneAfter ==
    ASSUME FormInv, NEW op \in Operations, task[op].phase \in {"before", "work", "pause"},
           task'[op].phase \in {"idle", "end"},
           \A o \in Operations \ {op} : Counts(task', o) = Counts(task, o)
    PROVE  SpinnersOK(DoneWith(op), task')
<1> DEFINE m == task'
<1>1. m[op].phase \in {"idle", "end"} /\ \A o \in Operations \ {op} : Counts(m, o) = Counts(task, o) OBVIOUS
<1>2. TaskOK(task) /\ SpinnersOK(spinner, task) BY DEF FormInv
<1> HIDE DEF m
<1>3. SpinnersOK(DoneWith(op), m) BY <1>1, <1>2, DoneOK
<1> QED BY <1>3 DEF m

LEMMA PauseEndsOK == ASSUME FormInv, NEW op \in Operations, PauseEnds(op) PROVE FormInv'
<1> USE DEF FormInv
<1>1. /\ task[op].phase = "pause" /\ spinner' = DoneWith(op)
      /\ UNCHANGED <<setup, form, tips, log>>
  BY DEF PauseEnds
<1>2. CASE op = "submit"
  <2>1. /\ task' = [task EXCEPT !["submit"].phase = "end"]
        /\ request' = ClearWorkingTimeout(request)
        /\ view' = IF request.notice /\ view.error = "WORKING" THEN HideError(view) ELSE view
    BY <1>2 DEF PauseEnds
  <2>2. "end" \in Phases BY DEF Phases
  <2>3. /\ TaskOK(task') /\ task'["submit"].phase = "end"
        /\ \A o \in Operations \ {"submit"} : Counts(task', o) = Counts(task, o)
    <3> DEFINE m == Move(task, "submit", "end")
    <3>1. task' = m BY <2>1 DEF Move
    <3>2. /\ TaskOK(m) /\ m["submit"].phase = "end"
          /\ \A o \in Operations \ {"submit"} : Counts(m, o) = Counts(task, o)
      BY <1>2, <2>2, MoveOK
    <3> HIDE DEF m
    <3> QED BY <3>1, <3>2
  <2>4. SpinnersOK(spinner', task') BY <1>1, <1>2, <2>3, DoneAfter
  <2>5. "WORKING" \in Errors \cup {"WORKING"} OBVIOUS
  <2>6. ViewOK(HideError(view)) /\ ~HideError(view).errorVisible BY <2>5, MessagesOK
  <2>7. ViewOK(view') BY <2>1, <2>6
  <2>8. RequestOK(request', "end", form.texts)
    BY <1>1, <1>2, <2>1 DEF RequestOK, ClearWorkingTimeout
  <2>9. NoticeOK(view', request', "end") BY <1>1, <1>2, <2>1, <2>6 DEF NoticeOK
  <2> QED BY <1>1, <2>3, <2>4, <2>7, <2>8, <2>9, FormLater
<1>3. CASE op # "submit"
  <2>1. task' = [task EXCEPT ![op] = NoTask] /\ UNCHANGED <<request, view>>
    BY <1>3 DEF PauseEnds
  <2>2. /\ TaskOK(task') /\ task'[op].phase = "idle"
        /\ \A o \in Operations \ {op} :
              task'[o] = task[o] /\ Counts(task', o) = Counts(task, o)
    BY <2>1, OverOK
  <2>3. SpinnersOK(spinner', task') BY <1>1, <2>2, DoneAfter
  <2>4. task'["submit"] = task["submit"] BY <1>3, <2>2 DEF Operations
  <2> QED BY <1>1, <2>1, <2>2, <2>3, <2>4, FormLater
<1> QED BY <1>2, <1>3

LEMMA AfterSubmitOK == ASSUME FormInv, AfterSubmit PROVE FormInv'
<1> USE DEF FormInv
<1>1. /\ task["submit"].phase = "end" /\ task' = [task EXCEPT !["submit"] = NoTask]
      /\ UNCHANGED <<setup, view, form, spinner, request, tips, log>>
  BY DEF AfterSubmit
<1>2. "submit" \in Operations BY DEF Operations
<1>3. /\ TaskOK(task') /\ task'["submit"].phase = "idle"
      /\ \A o \in Operations \ {"submit"} : Counts(task', o) = Counts(task, o)
  BY <1>1, <1>2, OverOK
<1>4. Counts(task', "submit") = Counts(task, "submit") BY <1>1, <1>3 DEF Counts
<1>5. \A o \in Operations : Counts(task', o) = Counts(task, o) BY <1>3, <1>4
<1>6. SpinnersOK(spinner, task') BY <1>5, SpinnersStay
<1>7. RequestOK(request, "idle", form.texts) /\ NoticeOK(view, request, "idle")
  BY <1>1 DEF RequestOK, NoticeOK
<1> QED BY <1>1, <1>3, <1>6, <1>7, FormLater

LEMMA RefreshOK ==
    ASSUME FormInv, NEW op \in {"refresh", "again"}, Refresh(op) PROVE FormInv'
<1> USE DEF FormInv
<1>1. /\ task[op].phase = "idle" /\ task' = [task EXCEPT ![op].phase = "delay"]
      /\ spinner' = [spinner EXCEPT !["link"] = Start(@)]
      /\ log' = [log EXCEPT !.edits = @ + 1] /\ log.edits < MaxEdits
      /\ UNCHANGED <<setup, view, form, request, tips>>
  BY DEF Refresh
<1>2. op \in Operations /\ "delay" \in Phases BY DEF Operations, Phases
<1>3. ~task[op].old BY <1>1, <1>2 DEF TaskOK
<1>4. /\ TaskOK(task') /\ task'[op].phase = "delay" /\ ~task'[op].old
      /\ \A o \in Operations \ {op} :
            task'[o] = task[o] /\ Counts(task', o) = Counts(task, o)
  <2> DEFINE m == Move(task, op, "delay")
  <2>1. task' = m BY <1>1 DEF Move
  <2>2. /\ TaskOK(m) /\ m[op].phase = "delay" /\ m[op].old = task[op].old
        /\ \A o \in Operations \ {op} : m[o] = task[o] /\ Counts(m, o) = Counts(task, o)
    BY <1>2, <1>3, MoveOK
  <2> HIDE DEF m
  <2> QED BY <1>3, <2>1, <2>2
<1>5. SpinnersOK(spinner', task')
  <2> DEFINE x == spinner["link"]
             before == Counts(task, "refresh") + Counts(task, "again")
             after == Counts(task', "refresh") + Counts(task', "again")
  <2>1. SpinnerOK(x) /\ x.count <= before /\ x.count \in Nat BY DEF SpinnersOK, SpinnerOK
  <2>2. SpinnerOK(Start(x)) /\ Start(x).count = x.count + 1 BY <2>1, SpinnerSteps
  <2>3. /\ DOMAIN spinner' = {"submit", "link"} /\ spinner'["link"] = Start(x)
        /\ spinner'["submit"] = spinner["submit"]
    BY <1>1 DEF SpinnersOK
  <2>4. Counts(task', "submit") = Counts(task, "submit") BY <1>4 DEF Operations
  <2>5. Counts(task, op) = 0 /\ Counts(task', op) = 1 BY <1>1, <1>4 DEF Counts
  <2>6. after = before + 1 /\ before \in Nat
    <3>1. Counts(task, "refresh") \in Nat /\ Counts(task, "again") \in Nat BY DEF Counts
    <3>2. CASE op = "refresh"
      <4>1. Counts(task', "again") = Counts(task, "again") BY <1>4, <3>2 DEF Operations
      <4> QED BY <2>5, <3>1, <3>2, <4>1
    <3>3. CASE op = "again"
      <4>1. Counts(task', "refresh") = Counts(task, "refresh") BY <1>4, <3>3 DEF Operations
      <4> QED BY <2>5, <3>1, <3>3, <4>1
    <3> QED BY <3>2, <3>3
  <2>7. SpinnersOK(spinner', task') <=>
          /\ SpinnerOK(spinner["submit"]) /\ SpinnerOK(Start(x))
          /\ spinner["submit"].count <= Counts(task, "submit") /\ Start(x).count <= after
    BY <2>3, <2>4 DEF SpinnersOK
  <2> HIDE DEF x, before, after
  <2>8. Start(x).count <= after BY <2>1, <2>2, <2>6
  <2> QED BY <2>2, <2>7, <2>8 DEF SpinnersOK
<1>6. task'["submit"] = task["submit"] BY <1>4 DEF Operations
<1>7. LogOK(log') BY <1>1, BoundsAssumption DEF LogOK
<1> QED BY <1>1, <1>4, <1>5, <1>6, <1>7, FormLater

LEMMA RefreshFailsOK ==
    ASSUME FormInv, NEW op \in Operations, RefreshFails(op) PROVE FormInv'
<1> USE DEF FormInv
<1>1. /\ op # "submit" /\ task[op].phase = "work" /\ task' = [task EXCEPT ![op] = NoTask]
      /\ spinner' = DoneWith(op)
      /\ UNCHANGED <<setup, view, form, request, tips, log>>
  BY DEF RefreshFails
<1>2. /\ TaskOK(task') /\ task'[op].phase = "idle"
      /\ \A o \in Operations \ {op} :
            task'[o] = task[o] /\ Counts(task', o) = Counts(task, o)
  BY <1>1, OverOK
<1>3. SpinnersOK(spinner', task') BY <1>1, <1>2, DoneAfter
<1>4. task'["submit"] = task["submit"] BY <1>1, <1>2 DEF Operations
<1> QED BY <1>1, <1>2, <1>3, <1>4, FormLater

LEMMA RerenderOK == ASSUME FormInv, NEW op \in Operations, Rerender(op) PROVE FormInv'
<1> USE DEF FormInv
<1>1. /\ op # "submit" /\ task[op].phase = "work"
      /\ task' = [o \in Operations |-> IF o = op THEN [phase |-> "pause", old |-> TRUE] ELSE DestroyChildViews(o)]
      /\ spinner' = [b \in {"submit", "link"} |-> NoSpinner]
      /\ tips' = {}
      /\ form' = [NewForm EXCEPT !.engaged = form.engaged, !.held = form.held]
      /\ view' = [HideSuccess(HideError(view)) EXCEPT !.error = "none"]
      /\ request' = [request EXCEPT !.edited = TRUE]
      /\ UNCHANGED <<setup, log>>
  BY DEF Rerender
<1>2. ASSUME NEW o \in Operations
      PROVE  LET d == DestroyChildViews(o)
             IN  /\ DOMAIN d = {"phase", "old"} /\ d.phase \in Phases /\ d.old \in BOOLEAN
                 /\ d.phase \in {"idle", "delay"} => ~d.old
                 /\ d.phase = IF task[o].phase \in {"delay", "pause"} THEN "lost" ELSE task[o].phase
  <2> DEFINE d == DestroyChildViews(o)
  <2>0. /\ DOMAIN task[o] = {"phase", "old"} /\ task[o].phase \in Phases /\ task[o].old \in BOOLEAN
        /\ task[o].phase \in {"idle", "delay"} => ~task[o].old
    BY DEF TaskOK
  <2>1. CASE task[o].phase \in {"delay", "pause"}
    <3>1. d = [task[o] EXCEPT !.phase = "lost"] BY <2>1 DEF DestroyChildViews
    <3> QED BY <2>0, <2>1, <3>1 DEF Phases
  <2>2. CASE task[o].phase \in {"before", "work"}
    <3>1. d = [task[o] EXCEPT !.old = TRUE] BY <2>2 DEF DestroyChildViews
    <3> QED BY <2>0, <2>2, <3>1
  <2>3. CASE task[o].phase \notin {"delay", "pause", "before", "work"}
    <3>1. d = task[o] BY <2>3 DEF DestroyChildViews
    <3> QED BY <2>0, <2>3, <3>1
  <2> QED BY <2>1, <2>2, <2>3
<1>3. TaskOK(task')
  <2>1. DOMAIN task' = Operations BY <1>1
  <2> SUFFICES ASSUME NEW o \in Operations
               PROVE  /\ DOMAIN task'[o] = {"phase", "old"} /\ task'[o].phase \in Phases
                      /\ task'[o].old \in BOOLEAN /\ (task'[o].phase \in {"idle", "delay"} => ~task'[o].old)
    BY <2>1 DEF TaskOK
  <2>2. CASE o = op
    <3>1. task'[o] = [phase |-> "pause", old |-> TRUE] BY <1>1, <2>2
    <3> QED BY <3>1 DEF Phases
  <2>3. CASE o # op
    <3>1. task'[o] = DestroyChildViews(o) BY <1>1, <2>3
    <3> QED BY <1>2, <3>1
  <2> QED BY <2>2, <2>3
<1>4. SpinnersOK(spinner', task')
  <2>1. \A b \in {"submit", "link"} : /\ DOMAIN spinner'[b] = {"count", "show", "remove", "shown"}
                                      /\ spinner'[b].count = 0
                                      /\ spinner'[b].show \in BOOLEAN /\ ~spinner'[b].show
                                      /\ spinner'[b].remove \in BOOLEAN /\ ~spinner'[b].remove
                                      /\ spinner'[b].shown \in BOOLEAN /\ ~spinner'[b].shown
    BY <1>1 DEF NoSpinner
  <2>2. SpinnerOK(spinner'["submit"]) /\ SpinnerOK(spinner'["link"]) BY <2>1 DEF SpinnerOK
  <2>3. Counts(task', "submit") >= 0 /\ Counts(task', "refresh") + Counts(task', "again") >= 0 BY DEF Counts
  <2>4. DOMAIN spinner' = {"submit", "link"} BY <1>1
  <2> QED BY <2>1, <2>2, <2>3, <2>4 DEF SpinnersOK
<1>5. FormOK(form') /\ form'.marked = {}
  <2> DEFINE f == NewForm
  <2>1. FormOK(f) /\ f.marked = {} /\ f.legible = {} BY NewFormOK
  <2>2. form' = [f EXCEPT !.engaged = form.engaged, !.held = form.held] BY <1>1
  <2>3. form.engaged \in BOOLEAN /\ form.held \in BOOLEAN BY DEF FormOK
  <2> HIDE DEF f
  <2> QED BY <2>1, <2>2, <2>3 DEF FormOK
<1>6. TipsOK(tips', form'.marked) BY <1>1, <1>5, NoTipsOK
<1>7. ViewOK(view') /\ view'.error = "none"
  <2> DEFINE v == HideError(view)
             w == HideSuccess(v)
  <2>1. "WORKING" \in Errors \cup {"WORKING"} OBVIOUS
  <2>2. ViewOK(v) BY <2>1, MessagesOK
  <2> HIDE DEF v
  <2>3. ViewOK(w) BY <2>1, <2>2, MessagesOK
  <2>4. view' = [w EXCEPT !.error = "none"] BY <1>1 DEF v
  <2> HIDE DEF w
  <2> QED BY <2>3, <2>4 DEF ViewOK, Shown
<1>8. /\ RequestOK(request', task'["submit"].phase, form'.texts)
      /\ NoticeOK(view', request', task'["submit"].phase)
  <2>1. task'["submit"] = DestroyChildViews("submit") BY <1>1 DEF Operations
  <2>2. task'["submit"].phase =
          IF task["submit"].phase \in {"delay", "pause"} THEN "lost" ELSE task["submit"].phase
    BY <1>2, <2>1 DEF Operations
  <2>3. /\ DOMAIN request' = DOMAIN request /\ request'.asked = request.asked
        /\ request'.working = request.working /\ request'.notice = request.notice
        /\ request'.edited \in BOOLEAN /\ request'.edited /\ request'.refused = request.refused
    BY <1>1 DEF RequestOK
  <2>4. RequestOK(request', task'["submit"].phase, form'.texts) BY <2>2, <2>3 DEF RequestOK
  <2> QED BY <1>7, <2>4 DEF NoticeOK
<1> QED BY <1>1, <1>3, <1>4, <1>5, <1>6, <1>7, <1>8, FormLater

LEMMA NextPageOK == ASSUME FormInv, NextPage PROVE FormInv'
<1> USE DEF FormInv
<1>1. /\ view' = FreshView(view.passed) /\ form' = NewForm
      /\ task' = [op \in Operations |-> NoTask]
      /\ spinner' = [b \in {"submit", "link"} |-> NoSpinner]
      /\ request' = NoRequest /\ tips' = {} /\ UNCHANGED <<setup, log>>
  BY DEF NextPage
<1>2. view.passed \in Errors \cup {"none"} BY DEF ViewOK
<1>3. ViewOK(view') /\ ~view'.errorVisible BY <1>1, <1>2, NewViewOK
<1>4. FormOK(form') /\ form'.marked = {} BY <1>1, NewFormOK
<1>5. TaskOK(task') /\ SpinnersOK(spinner', task') /\ task'["submit"].phase = "idle"
  BY <1>1, NoTasksOK
<1>6. RequestOK(request', "idle", form'.texts) /\ NoticeOK(view', request', "idle")
  BY <1>1, <1>3, NoRequestOK
<1>7. TipsOK(tips', form'.marked) BY <1>1, <1>4, NoTipsOK
<1> QED BY <1>1, <1>3, <1>4, <1>5, <1>6, <1>7, FormLater

LEMMA IndicatorOK ==
    ASSUME FormInv, NEW b \in {"submit", "link"}, Show(b) \/ Hide(b) PROVE FormInv'
<1> USE DEF FormInv
<1>1. UNCHANGED <<setup, view, form, task, request, tips, log>>
  BY DEF Show, Hide
<1> DEFINE x == spinner[b]
<1>2. SpinnerOK(x) BY DEF SpinnersOK
<1>3. PICK y : spinner' = [spinner EXCEPT ![b] = y] /\ SpinnerOK(y) /\ y.count = x.count
  BY <1>2, SpinnerSteps DEF Show, Hide
<1>4. SpinnersOK(spinner', task) BY <1>3 DEF SpinnersOK
<1> QED BY <1>1, <1>4, FormLater

LEMMA FormStays == ASSUME FormInv, UNCHANGED pageVars PROVE FormInv'
<1>1. UNCHANGED <<setup, view, form, task, spinner, request, tips, log>>
  BY DEF pageVars
<1> QED BY <1>1, FormLater DEF FormInv

LEMMA FormNextOK == ASSUME FormInv, [PageNext]_pageVars PROVE FormInv'
<1>1. CASE Timers
  <2>1. CASE NotifyDelayedRequest BY <2>1, NotifyOK
  <2>2. CASE FocusAutofocusElement BY <2>2, ViewStepsOK
  <2>3. ASSUME NEW op \in Operations, DelayEnds(op) \/ PauseEnds(op) PROVE FormInv'
    BY <2>3, DelayEndsOK, PauseEndsOK
  <2>4. CASE AfterSubmit BY <2>4, AfterSubmitOK
  <2>5. ASSUME NEW b \in {"submit", "link"}, Show(b) \/ Hide(b) PROVE FormInv'
    BY <2>5, IndicatorOK
  <2> QED BY <1>1, <2>1, <2>2, <2>3, <2>4, <2>5 DEF Timers
<1>2. CASE Answers
  <2>1. CASE BeforeSubmitAgrees \/ BeforeSubmitDeclines BY <2>1, BeforeSubmitOK
  <2>2. CASE SubmitFails BY <2>2, SubmitFailsOK
  <2>3. CASE SubmitSucceeds \/ SubmitHalts \/ NavigateWithError BY <2>3, SubmitAnsweredOK
  <2>4. ASSUME NEW op \in Operations, Rerender(op) \/ RefreshFails(op) PROVE FormInv'
    BY <2>4, RerenderOK, RefreshFailsOK
  <2> QED BY <1>2, <2>1, <2>2, <2>3, <2>4 DEF Answers
<1>3. CASE User
  <2>1. ASSUME NEW i \in Inputs, Key(i) \/ Paste(i) PROVE FormInv'
    BY <2>1, TypingOK
  <2>2. CASE (\E i \in Passwords : OnShowPasswordMouseDown(i)) \/ MouseUp BY <2>2, PasswordStepsOK
  <2>3. CASE BeforeUnload BY <2>3, ViewStepsOK
  <2>4. CASE ValidateAndSubmit BY <2>4, ValidateAndSubmitOK
  <2>5. ASSUME NEW op \in {"refresh", "again"}, Refresh(op) PROVE FormInv'
    BY <2>5, RefreshOK
  <2> QED BY <1>3, <2>1, <2>2, <2>3, <2>4, <2>5 DEF User
<1>4. CASE AfterVisible BY <1>4, AfterVisibleOK
<1>5. CASE NextPage BY <1>5, NextPageOK
<1>6. CASE UNCHANGED pageVars BY <1>6, FormStays
<1> QED BY <1>1, <1>2, <1>3, <1>4, <1>5, <1>6 DEF PageNext

-----------------------------------------------------------------------------
(***************************************************************************)
(* What the two properties of Page say, of a state where FormInv holds.    *)
(***************************************************************************)
LEMMA SubmitFollows == ASSUME FormInv PROVE SubmitIsSound
<1> USE DEF FormInv
<1>1. /\ view.life \in {"rendered", "shown"} /\ view.focus \in {"none", "waits", "placed"}
      /\ view.error \in Errors \cup {"none", "WORKING", "UNEXPECTED_ERROR"}
      /\ view.passed \in Errors \cup {"none"}
      /\ {view.errorsEnabled, view.errorVisible, view.success, view.successVisible,
          view.navigated, view.stacked} \subseteq BOOLEAN
  BY DEF ViewOK, Shown
<1>2. /\ DOMAIN form.texts = Inputs /\ form.marked \subseteq Inputs
      /\ form.legible \subseteq Passwords /\ form.labels \subseteq Passwords
      /\ {form.engaged, form.held} \subseteq BOOLEAN
  BY DEF FormOK
<1>3. \A op \in Operations : task[op].phase \in Phases /\ task[op].old \in BOOLEAN BY DEF TaskOK
<1>4. \A b \in DOMAIN spinner : spinner[b].count \in 0..2
  <2>1. \A op \in Operations : Counts(task, op) \in 0..1 BY DEF Counts
  <2>2. Counts(task, "submit") \in 0..1 /\ Counts(task, "refresh") \in 0..1 /\ Counts(task, "again") \in 0..1
    BY <2>1 DEF Operations
  <2>3. /\ spinner["submit"].count \in Nat /\ spinner["link"].count \in Nat
        /\ spinner["submit"].count <= Counts(task, "submit")
        /\ spinner["link"].count <= Counts(task, "refresh") + Counts(task, "again")
    BY DEF SpinnersOK, SpinnerOK
  <2>4. spinner["submit"].count \in 0..2 /\ spinner["link"].count \in 0..2 BY <2>2, <2>3
  <2> QED BY <2>4 DEF SpinnersOK
<1>5. request.asked \in 0..1 /\ request.refused \subseteq Inputs BY DEF RequestOK
<1>6. {tip.el : tip \in tips} \subseteq Inputs BY DEF TipsOK
<1>7. log.submits \in 0..MaxSubmits /\ log.edits \in 0..MaxEdits /\ log.logged \subseteq Errors
  BY DEF LogOK
<1>8. PageTypeOK BY <1>1, <1>2, <1>3, <1>4, <1>5, <1>6, <1>7 DEF PageTypeOK
<1>9. OneSubmitAtOnce BY <1>5 DEF OneSubmitAtOnce
<1>10. SentIsValidated BY DEF RequestOK, SentIsValidated
<1> QED BY <1>8, <1>9, <1>10 DEF SubmitIsSound

LEMMA ScreenFollows == ASSUME FormInv PROVE ScreenTellsTheState
<1> USE DEF FormInv
<1>1. SpinnerTellsWork
  <2>1. \A b \in DOMAIN spinner : SpinnerOK(spinner[b]) BY DEF SpinnersOK
  <2>2. ASSUME NEW b \in DOMAIN spinner
        PROVE  /\ (spinner[b].count > 0) = ((spinner[b].show \/ spinner[b].shown) /\ ~spinner[b].remove)
               /\ spinner[b].remove => spinner[b].shown
    BY <2>1, <2>2 DEF SpinnerOK
  <2> QED BY <2>2 DEF SpinnerTellsWork
<1>2. WorkingOnlyWhileWorking BY DEF NoticeOK, ViewOK, WorkingOnlyWhileWorking
<1>3. ErrorOrSuccess BY DEF ViewOK, ErrorOrSuccess
<1>4. ReportedOnce BY DEF LogOK, ReportedOnce
<1>5. MarkedInputIsExplained
  <2>1. IsFiniteSet(ShownTips) BY FS_Subset DEF ShownTips, TipsOK
  <2>2. Cardinality(ShownTips) <= 1
    <3> DEFINE all == ShownTips
    <3>1. \A x, y \in all : x = y BY DEF ShownTips, TipsOK
    <3> HIDE DEF all
    <3>2. CASE all = {} BY <3>2, FS_EmptySet DEF all
    <3>3. CASE all # {}
      <4>1. PICK x \in all : TRUE BY <3>3
      <4>2. all = {x} BY <3>1, <4>1
      <4>3. Cardinality({x}) = 1 BY FS_Singleton
      <4> QED BY <4>2, <4>3 DEF all
    <3> QED BY <3>2, <3>3
  <2>3. \A i \in form.marked : \E tip \in ShownTips : tip.el = i BY DEF ShownTips, TipsOK
  <2> QED BY <2>2, <2>3 DEF MarkedInputIsExplained
<1>6. LegibleWhileHeld BY DEF FormOK, LegibleWhileHeld
<1> QED BY <1>1, <1>2, <1>3, <1>4, <1>5, <1>6 DEF ScreenTellsTheState

\* The parts of a form stay what they are, alone and together, whatever keys, timers, answers and
\* screens made again come between (form.js, base.js, progress_indicator.js).
THEOREM FormInvariant == PageSpec => []FormInv
<1>1. PageInit => FormInv BY FormInitOK
<1>2. FormInv /\ [PageNext]_pageVars => FormInv' BY FormNextOK
<1> QED BY <1>1, <1>2, PTL DEF PageSpec

\* A form has one submit on its way, of inputs that were valid when it started unless the user
\* changed them since, also while passwords are legible (form.js:155, 194, 230;
\* allow_only_one_submit.js:17).
THEOREM SubmitsAreSound == PageSpec => []SubmitIsSound
<1>1. FormInv => SubmitIsSound BY SubmitFollows
<1> QED BY <1>1, FormInvariant, PTL

\* What the screen says is so: a button that stands for work, the notice of a slow answer, an
\* error or a success, the tooltip of the one input that is marked, and a password that is legible
\* while the button is held (progress_indicator.js:52, notify_delayed_request.js:28, base.js:692,
\* one-visible-of-type-mixin.js:42, password-mixin.js:110).
THEOREM ScreenIsTrue == PageSpec => []ScreenTellsTheState
<1>1. FormInv => ScreenTellsTheState BY ScreenFollows
<1> QED BY <1>1, FormInvariant, PTL

=============================================================================
