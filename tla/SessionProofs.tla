--------------------------- MODULE SessionProofs ----------------------------
(***************************************************************************)
(* Theorems about Session, for any number of tabs, users, forms, writes,   *)
(* failures and expired tokens.                                            *)
(***************************************************************************)
EXTENDS Session, TLAPS

SeenSessions == Sessions \cup {NoSession, Unread}

-----------------------------------------------------------------------------
(* Types.                                                                  *)

\* Whoever is signed in has a session.
LEMMA SignedInHasSession ==
    ASSUME NEW s \in SeenSessions, SignedIn(s)
    PROVE  s \in Sessions
  BY DEF SignedIn, SeenSessions

\* Counting keeps the counters natural.
LEMMA CountType ==
    ASSUME counted \in [Counted -> Nat], NEW m \in Counted, Count(m)
    PROVE  counted' \in [Counted -> Nat]
  BY DEF Count

\* What the operations of the cache make of a query.
LEMMA QueryTypes ==
    ASSUME NEW q \in Query(Sessions, Sessions)
    PROVE  /\ \A s \in Sessions : Ask(q, s) \in Query(Sessions, Sessions)
           /\ Receive(q) \in Query(Sessions, Sessions)
           /\ GiveUp(q) \in Query(Sessions, Sessions)
           /\ Unused \in Query(Sessions, Sessions)
  BY DEF Query, Ask, Fetch, Receive, GiveUp, Unused

\* A guard sends to a page or stays.
LEMMA GuardType ==
    ASSUME NEW p \in Pages, NEW s \in SeenSessions
    PROVE  Guard(p, s) \in Pages \cup {NoPage}
<1>1. CASE s = Unread
  BY <1>1 DEF Guard, Pages
<1>2. CASE s # Unread
  BY <1>2 DEF Guard, Pages, Home, Form, Dashboard
<1> QED
  BY <1>1, <1>2

\* What rendering does to a tab.
LEMMA ShowType ==
    ASSUME TypeOK, NEW t \in Tabs, NEW p \in Pages, NEW s \in SeenSessions,
           NEW g \in Pages \cup {NoPage}, Show(t, p, s, g)
    PROVE  /\ page' \in [Tabs -> Pages]
           /\ seen' \in [Tabs -> SeenSessions]
           /\ going' \in [Tabs -> Pages \cup {NoPage}]
           /\ tasks' \in [Tabs -> Query(Sessions, Sessions)]
           /\ own' \subseteq Tabs
<1> DEFINE effect == IF p # page[t] \/ s # seen[t] THEN Guard(p, s) ELSE NoPage
           asks == /\ Panels(p, s) /\ ~Panels(page[t], seen[t])
                   /\ tasks[t].fetch = "idle" /\ (tasks[t].data = Undefined \/ t \notin fresh)
<1>1. /\ page' = [page EXCEPT ![t] = p]
      /\ seen' = [seen EXCEPT ![t] = s]
      /\ going' = [going EXCEPT ![t] = IF effect = NoPage THEN g ELSE effect]
      /\ tasks' = IF asks THEN [tasks EXCEPT ![t] = Ask(@, s)] ELSE tasks
      /\ own' = IF asks THEN own \cup {t} ELSE IF s # seen[t] THEN own \ {t} ELSE own
  BY DEF Show
<1>2. effect \in Pages \cup {NoPage}
  BY GuardType
<1>3. asks => s \in Sessions
  BY SignedInHasSession DEF Panels
<1>4. ASSUME asks PROVE Ask(tasks[t], s) \in Query(Sessions, Sessions)
  BY <1>3, <1>4, QueryTypes DEF TypeOK
<1> HIDE DEF effect, asks
<1>5. tasks' \in [Tabs -> Query(Sessions, Sessions)]
  BY <1>1, <1>4 DEF TypeOK
<1> QED
  BY <1>1, <1>2, <1>5 DEF TypeOK, SeenSessions

\* The tabs are opened in a typed state.
LEMMA TypeInit == Init => TypeOK
<1> SUFFICES ASSUME Init PROVE TypeOK
  OBVIOUS
<1>1. storage \in Sessions \cup {NoSession}
  BY DEF Init, Sessions
<1>2. page \in [Tabs -> Pages]
  BY EntriesAssumption DEF Init
<1>3. tasks \in [Tabs -> Query(Sessions, Sessions)]
  BY DEF Init, Query, Unused
<1> QED
  BY <1>1, <1>2, <1>3 DEF Init, TypeOK

\* A step that renders keeps the types.
LEMMA ShowStep ==
    ASSUME TypeOK, NEW t \in Tabs, NEW p \in Pages, NEW s \in Sessions \cup {NoSession},
           NEW g \in Pages \cup {NoPage}, Show(t, p, s, g),
           UNCHANGED << server, fresh, writing >>, storage' \in Sessions \cup {NoSession},
           pending' \subseteq pending, p = page[t] \/ t \notin pending',
           requests' \subseteq Requests, counted' \in [Counted -> Nat]
    PROVE  TypeOK'
<1>1. s \in SeenSessions
  BY DEF SeenSessions
<1>2. /\ page' \in [Tabs -> Pages]
      /\ seen' \in [Tabs -> SeenSessions]
      /\ going' \in [Tabs -> Pages \cup {NoPage}]
      /\ tasks' \in [Tabs -> Query(Sessions, Sessions)]
      /\ own' \subseteq Tabs
  BY <1>1, ShowType
<1>3. page' = [page EXCEPT ![t] = p]
  BY DEF Show
<1>4. \A u \in Tabs : u \in pending' => page'[u] \in {"login", "register"}
  BY <1>3 DEF TypeOK
<1> QED
  BY <1>2, <1>4 DEF TypeOK, SeenSessions, server

\* Every step keeps the types.
LEMMA TypeStep == TypeOK /\ [Next]_vars => TypeOK'
<1> SUFFICES ASSUME TypeOK, [Next]_vars PROVE TypeOK'
  OBVIOUS
<1>1. \A m \in Counted : Count(m) => counted' \in [Counted -> Nat]
  BY CountType DEF TypeOK
<1>2. ASSUME NEW r \in requests, NEW at \in {"granted", "refused"}
      PROVE  [r EXCEPT !.at = at] \in Requests
  BY DEF TypeOK, Requests
<1>3. CASE UNCHANGED vars
  BY <1>3 DEF TypeOK, vars
<1>4. ASSUME NEW t \in Tabs, Notice(t) PROVE TypeOK'
  <2>1. /\ page[t] \in Pages /\ storage \in Sessions \cup {NoSession}
        /\ going[t] \in Pages \cup {NoPage} /\ requests \subseteq Requests
        /\ counted \in [Counted -> Nat]
    BY DEF TypeOK
  <2> QED
    BY <1>4, <2>1, ShowStep DEF Notice, forms
<1>5. ASSUME NEW t \in Tabs, Arrive(t) PROVE TypeOK'
  <2>1. /\ going[t] \in Pages /\ storage \in Sessions \cup {NoSession}
        /\ requests \subseteq Requests /\ counted \in [Counted -> Nat]
    BY <1>5 DEF TypeOK, Arrive
  <2>2. requests' \subseteq Requests
    <3>1. ASSUME NEW r \in requests PROVE [r EXCEPT !.mounted = FALSE] \in Requests
      BY DEF TypeOK, Requests
    <3> QED
      BY <1>5, <2>1, <3>1 DEF Arrive, forms
  <2>3. pending' \subseteq pending /\ (going[t] = page[t] \/ t \notin pending')
    BY <1>5 DEF Arrive, forms
  <2> QED
    BY <1>5, <2>1, <2>2, <2>3, ShowStep DEF Arrive
<1>6. ASSUME NEW t \in Tabs, FollowLink(t) PROVE TypeOK'
  <2>1. going' \in [Tabs -> Pages \cup {NoPage}]
    BY <1>6 DEF FollowLink, TypeOK, Pages
  <2>2. counted' \in [Counted -> Nat]
    BY <1>1, <1>6 DEF FollowLink, Counted
  <2> QED
    BY <1>6, <2>1, <2>2 DEF FollowLink, TypeOK, server, forms, cache
<1>7. ASSUME NEW t \in Tabs, Submit(t) PROVE TypeOK'
  <2>1. counted' \in [Counted -> Nat] /\ page[t] \in {"login", "register"}
    BY <1>1, <1>7 DEF Submit, Counted
  <2>2. counted'["submit"] \in Nat
    BY <2>1 DEF Counted
  <2>3. requests' \subseteq Requests
    <3>1. ASSUME NEW u \in People
          PROVE  [op |-> page[t], user |-> u, n |-> counted'["submit"],
                  tab |-> t, mounted |-> TRUE, at |-> "sent"] \in Requests
      BY <2>1, <2>2 DEF Requests
    <3> QED
      BY <1>7, <3>1 DEF Submit, TypeOK
  <2> QED
    BY <1>7, <2>1, <2>3 DEF Submit, TypeOK, server, browser, cache
<1>8. ASSUME NEW t \in Tabs, SignOut(t) PROVE TypeOK'
  <2>1. /\ page[t] \in Pages /\ going[t] \in Pages \cup {NoPage} /\ requests \subseteq Requests
    BY DEF TypeOK
  <2>2. counted' \in [Counted -> Nat]
    BY <1>1, <1>8 DEF SignOut, Counted
  <2> QED
    BY <1>8, <2>1, <2>2, ShowStep DEF SignOut, forms
<1>9. ASSUME NEW t \in Tabs, Reload(t) PROVE TypeOK'
  <2>1. counted' \in [Counted -> Nat]
    BY <1>1, <1>9 DEF Reload, Counted
  <2>2. ASSUME NEW r \in requests
        PROVE  [r EXCEPT !.tab = Undefined, !.mounted = FALSE] \in Requests
    BY DEF TypeOK, Requests
  <2>3. requests' \subseteq Requests
    BY <1>9, <2>2 DEF Reload, TypeOK
  <2>4. tasks' \in [Tabs -> Query(Sessions, Sessions)]
    BY <1>9 DEF Reload, TypeOK, Query, Unused
  <2> QED
    BY <1>9, <2>1, <2>3, <2>4 DEF Reload, TypeOK, server
<1>10. ASSUME NEW t \in Tabs, Write(t) \/ WriteFails(t) \/ Age(t) PROVE TypeOK'
  <2>1. counted' \in [Counted -> Nat]
    BY <1>1, <1>10 DEF Write, WriteFails, Age, Counted, TypeOK
  <2> QED
    BY <1>10, <2>1 DEF Write, WriteFails, Age, TypeOK, server, browser, forms
<1>11. ASSUME NEW t \in Tabs, WriteSucceeds(t) PROVE TypeOK'
  <2>1. Panels(page[t], seen[t]) => seen[t] \in Sessions
    BY SignedInHasSession DEF Panels, TypeOK, SeenSessions
  <2>2. tasks' \in [Tabs -> Query(Sessions, Sessions)] /\ own' \subseteq Tabs
    <3>1. tasks[t] \in Query(Sessions, Sessions)
      BY DEF TypeOK
    <3>2. Panels(page[t], seen[t]) => Ask(tasks[t], seen[t]) \in Query(Sessions, Sessions)
      BY <2>1, <3>1, QueryTypes
    <3> QED
      BY <1>11, <3>2 DEF WriteSucceeds, TypeOK
  <2> QED
    BY <1>11, <2>2 DEF WriteSucceeds, TypeOK, server, browser, forms
<1>12. ASSUME NEW t \in Tabs, TasksArrive(t) \/ TasksFail(t) PROVE TypeOK'
  <2>1. counted' \in [Counted -> Nat]
    BY <1>1, <1>12 DEF TasksArrive, TasksFail, Counted, TypeOK
  <2>2. tasks' \in [Tabs -> Query(Sessions, Sessions)]
    BY <1>12, QueryTypes DEF TasksArrive, TasksFail, TypeOK
  <2> QED
    BY <1>12, <2>1, <2>2 DEF TasksArrive, TasksFail, TypeOK, server, browser, forms
<1>13. ASSUME NEW r \in requests, Authenticate(r) PROVE TypeOK'
  <2>1. users' \subseteq People /\ requests' \subseteq Requests
    BY <1>2, <1>13 DEF Authenticate, Register, Login, TypeOK, Requests
  <2> QED
    BY <1>13, <2>1 DEF Authenticate, TypeOK, browser, cache
<1>14. ASSUME NEW r \in requests, Refuse(r) PROVE TypeOK'
  <2>1. counted' \in [Counted -> Nat]
    BY <1>1, <1>14 DEF Refuse, Counted
  <2> QED
    BY <1>2, <1>14, <2>1 DEF Refuse, TypeOK, server, browser, cache
<1>15. ASSUME NEW r \in requests, SignIn(r) PROVE TypeOK'
  <2>1. /\ r.tab \in Tabs /\ storage' \in Sessions
        /\ requests' \subseteq Requests
    BY <1>15 DEF SignIn, TypeOK, Requests, Sessions
  <2>2. page[r.tab] \in Pages /\ counted \in [Counted -> Nat]
    BY <2>1 DEF TypeOK
  <2>3. PICK s \in Sessions : s = storage'
    BY <2>1
  <2>4. "dashboard" \in Pages
    BY DEF Pages
  <2> QED
    BY <1>15, <2>1, <2>2, <2>3, <2>4, ShowStep DEF SignIn
<1>16. ASSUME NEW r \in requests, SignInFails(r) PROVE TypeOK'
  BY <1>16 DEF SignInFails, TypeOK, server, browser, cache
<1>17. ASSUME NEW s \in Sessions, Expire(s) PROVE TypeOK'
  <2>1. counted' \in [Counted -> Nat]
    BY <1>1, <1>17 DEF Expire, Counted
  <2> QED
    BY <1>17, <2>1 DEF Expire, TypeOK, browser, forms, cache
<1> QED
  BY <1>3, <1>4, <1>5, <1>6, <1>7, <1>8, <1>9, <1>10, <1>11, <1>12, <1>13, <1>14, <1>15, <1>16,
     <1>17
  DEF Next, Answers, Expires

\* Accounts, sessions, forms and queries keep their types.
THEOREM TypeCorrect == Spec => []TypeOK
  BY TypeInit, TypeStep, PTL DEF Spec

-----------------------------------------------------------------------------
(* What is shown after a fetch of one's own.                               *)

\* The invariant: in a tab that has asked under the session it shows, the data or
\* the answer to come is of that session.
OwnIsAsked ==
    \A t \in own :
        /\ SignedIn(seen[t])
        /\ IF tasks[t].fetch = "idle" THEN tasks[t].data = seen[t] ELSE tasks[t].reply = seen[t]

\* A fetch is under way for the session it was asked with.
LEMMA Asked ==
    ASSUME NEW q \in Query(Sessions, Sessions), NEW s
    PROVE  Ask(q, s).fetch # "idle" /\ Ask(q, s).reply = s
  BY DEF Ask, Fetch, Query

\* Rendering keeps the invariant.
LEMMA OwnShow ==
    ASSUME TypeOK, OwnIsAsked, NEW t \in Tabs, NEW p, NEW s, NEW g, Show(t, p, s, g)
    PROVE  OwnIsAsked'
<1> DEFINE asks == /\ Panels(p, s) /\ ~Panels(page[t], seen[t])
                   /\ tasks[t].fetch = "idle" /\ (tasks[t].data = Undefined \/ t \notin fresh)
<1>1. /\ seen' = [seen EXCEPT ![t] = s]
      /\ tasks' = IF asks THEN [tasks EXCEPT ![t] = Ask(@, s)] ELSE tasks
      /\ own' = IF asks THEN own \cup {t} ELSE IF s # seen[t] THEN own \ {t} ELSE own
  BY DEF Show
<1>2. asks => SignedIn(s)
  BY DEF Panels
<1> HIDE DEF asks
<1> SUFFICES ASSUME NEW u \in own'
             PROVE  /\ SignedIn(seen'[u])
                    /\ IF tasks'[u].fetch = "idle" THEN tasks'[u].data = seen'[u]
                                                   ELSE tasks'[u].reply = seen'[u]
  BY DEF OwnIsAsked, SignedIn
<1>3. u \in Tabs /\ (u # t => u \in own)
  BY <1>1 DEF TypeOK
<1>4. CASE u # t
  <2>1. seen'[u] = seen[u] /\ tasks'[u] = tasks[u]
    BY <1>1, <1>3, <1>4 DEF TypeOK
  <2> QED
    BY <1>3, <1>4, <2>1 DEF OwnIsAsked
<1>5. CASE u = t /\ asks
  <2>1. seen'[u] = s /\ tasks'[u] = Ask(tasks[t], s) /\ tasks[t] \in Query(Sessions, Sessions)
    BY <1>1, <1>5 DEF TypeOK
  <2> QED
    BY <1>2, <1>5, <2>1, Asked
<1>6. CASE u = t /\ ~asks
  <2>1. s = seen[t] /\ u \in own
    BY <1>1, <1>6
  <2>2. seen'[u] = seen[u] /\ tasks'[u] = tasks[u]
    BY <1>1, <1>3, <1>6, <2>1 DEF TypeOK
  <2> QED
    BY <2>1, <2>2 DEF OwnIsAsked
<1> QED
  BY <1>4, <1>5, <1>6

\* Every step keeps the invariant.
LEMMA OwnStep == TypeOK /\ OwnIsAsked /\ [Next]_vars => OwnIsAsked'
<1> SUFFICES ASSUME TypeOK, OwnIsAsked, [Next]_vars PROVE OwnIsAsked'
  OBVIOUS
\* One tab changes what it has cached or asked.
<1>1. ASSUME NEW t \in Tabs, \A u \in Tabs \ {t} : seen'[u] = seen[u] /\ tasks'[u] = tasks[u],
             own' \subseteq own \cup {t},
             t \in own' => /\ SignedIn(seen'[t])
                           /\ IF tasks'[t].fetch = "idle" THEN tasks'[t].data = seen'[t]
                                                          ELSE tasks'[t].reply = seen'[t]
      PROVE  OwnIsAsked'
  <2> SUFFICES ASSUME NEW u \in own'
               PROVE  /\ SignedIn(seen'[u])
                      /\ IF tasks'[u].fetch = "idle" THEN tasks'[u].data = seen'[u]
                                                     ELSE tasks'[u].reply = seen'[u]
    BY DEF OwnIsAsked, SignedIn
  <2>1. CASE u = t
    BY <1>1, <2>1
  <2>2. CASE u # t
    <3>1. u \in own /\ u \in Tabs
      BY <1>1, <2>2 DEF TypeOK
    <3> QED
      BY <1>1, <2>2, <3>1 DEF OwnIsAsked
  <2> QED
    BY <2>1, <2>2
<1>2. ASSUME NEW t \in Tabs, Notice(t) \/ Arrive(t) \/ SignOut(t) PROVE OwnIsAsked'
  BY <1>2, OwnShow DEF Notice, Arrive, SignOut
<1>3. ASSUME NEW r \in requests, SignIn(r) PROVE OwnIsAsked'
  <2>1. r.tab \in Tabs
    BY <1>3 DEF SignIn, TypeOK, Requests
  <2> QED
    BY <1>3, <2>1, OwnShow DEF SignIn
<1>4. ASSUME NEW t \in Tabs, Reload(t) PROVE OwnIsAsked'
  BY <1>1, <1>4 DEF Reload, TypeOK
<1>5. ASSUME NEW t \in Tabs, WriteSucceeds(t) PROVE OwnIsAsked'
  <2>1. CASE Panels(page[t], seen[t]) /\ ~FirstLoad(tasks[t])
    <3>1. /\ tasks' = [tasks EXCEPT ![t] = Ask(@, seen[t])] /\ own' = own \cup {t}
          /\ UNCHANGED seen /\ SignedIn(seen[t]) /\ tasks[t] \in Query(Sessions, Sessions)
      BY <1>5, <2>1 DEF WriteSucceeds, browser, Panels, TypeOK
    <3>2. tasks'[t].fetch # "idle" /\ tasks'[t].reply = seen[t]
      BY <3>1, Asked DEF TypeOK
    <3> QED
      BY <1>1, <3>1, <3>2 DEF TypeOK
  <2>2. CASE ~ (Panels(page[t], seen[t]) /\ ~FirstLoad(tasks[t]))
    BY <1>5, <2>2 DEF WriteSucceeds, browser, OwnIsAsked
  <2> QED
    BY <2>1, <2>2
<1>6. ASSUME NEW t \in Tabs, TasksArrive(t) PROVE OwnIsAsked'
  <2>1. /\ tasks[t].fetch = "sent" /\ tasks' = [tasks EXCEPT ![t] = Receive(@)]
        /\ UNCHANGED << own, seen >>
    BY <1>6 DEF TasksArrive, browser
  <2>2. tasks'[t].fetch = "idle" /\ tasks'[t].data = tasks[t].reply
    BY <2>1 DEF TypeOK, Receive
  <2> QED
    BY <1>1, <2>1, <2>2 DEF TypeOK, OwnIsAsked
<1>7. ASSUME NEW t \in Tabs, TasksFail(t) PROVE OwnIsAsked'
  BY <1>1, <1>7 DEF TasksFail, TypeOK, browser
<1>8. ASSUME UNCHANGED << seen, tasks, own >> PROVE OwnIsAsked'
  BY <1>8 DEF OwnIsAsked, SignedIn
<1>9. ASSUME \/ UNCHANGED vars \/ (\E s \in Sessions : Expire(s))
             \/ (\E r \in requests : Authenticate(r) \/ Refuse(r) \/ SignInFails(r))
             \/ (\E t \in Tabs : FollowLink(t) \/ Submit(t) \/ Write(t) \/ WriteFails(t) \/ Age(t))
      PROVE  OwnIsAsked'
  BY <1>8, <1>9 DEF vars, Expire, Authenticate, Refuse, SignInFails, FollowLink, Submit, Write,
                    WriteFails, Age, browser, cache
<1> QED
  BY <1>2, <1>3, <1>4, <1>5, <1>6, <1>7, <1>9 DEF Next, Answers, Expires

\* Once a fetch begun under the session a tab shows has succeeded, the tab shows the
\* data of that session's user, whatever was signed in and out, in whatever tab.
THEOREM OwnDataIsShown == Spec => []ShownIsOwn
<1>1. Init => OwnIsAsked
  BY DEF Init, OwnIsAsked
<1>2. TypeOK /\ OwnIsAsked => ShownIsOwn
  <2> SUFFICES ASSUME TypeOK, OwnIsAsked, NEW t \in own, tasks[t].fetch = "idle"
               PROVE  tasks[t].data # Undefined /\ tasks[t].data.user = seen[t].user
    BY DEF ShownIsOwn
  <2>1. tasks[t].data = seen[t] /\ SignedIn(seen[t]) /\ seen[t] \in SeenSessions
    BY DEF OwnIsAsked, TypeOK, SeenSessions
  <2> QED
    BY <2>1, SignedInHasSession, UndefinedAssumption
<1> QED
  BY <1>1, <1>2, TypeCorrect, OwnStep, PTL DEF Spec

-----------------------------------------------------------------------------
(* Where a tab comes to rest: the safety that PagesSettle stands on.       *)

\* A tab that has read the stored session and is not on its way anywhere is in place:
\* no order of redirects, links, late answers and sign-outs leaves one stuck on a page
\* that nothing sends it away from.
AtRestInPlace == \A t \in Tabs : seen[t] = storage /\ going[t] = NoPage => InPlace(t)

\* The invariant: a tab that goes nowhere, or to the page it is on, is on a page whose
\* guard lets it stay.
Guarded ==
    \A t \in Tabs : seen[t] # Unread /\ going[t] \in {NoPage, page[t]}
                       => Guard(page[t], seen[t]) = NoPage

\* A guard never sends to the page it guards, and lets a tab stay just where it is in place.
LEMMA GuardSends ==
    ASSUME NEW p \in Pages, NEW s \in Sessions \cup {NoSession}
    PROVE  /\ Guard(p, s) # p
           /\ Guard(p, s) = NoPage <=>
                p \in IF s = NoSession THEN {"login", "register"} ELSE {"dashboard"}
<1>1. s # Unread /\ (SignedIn(s) <=> s # NoSession)
  BY NoneAssumption DEF SignedIn
<1>2. \A q \in {"home", "login", "register", "dashboard"} : q # NoPage
  BY NoneAssumption DEF Pages
<1>3. CASE p = "home"
  BY <1>1, <1>2, <1>3 DEF Guard, Home
<1>4. CASE p \in {"login", "register"}
  BY <1>1, <1>2, <1>4 DEF Guard, Form
<1>5. CASE p = "dashboard"
  BY <1>1, <1>2, <1>5 DEF Guard, Dashboard
<1> QED
  BY <1>3, <1>4, <1>5 DEF Pages

\* Rendering keeps the invariant when something has changed, or when the tab was at rest
\* and goes nowhere else.
LEMMA GuardedShow ==
    ASSUME TypeOK, Guarded, NEW t \in Tabs, NEW p \in Pages, NEW s \in Sessions \cup {NoSession},
           NEW g \in Pages \cup {NoPage}, Show(t, p, s, g),
           p # page[t] \/ s # seen[t] \/ g \notin {NoPage, p} \/ Guard(p, s) = NoPage
    PROVE  Guarded'
<1> DEFINE effect == IF p # page[t] \/ s # seen[t] THEN Guard(p, s) ELSE NoPage
<1>1. /\ page' = [page EXCEPT ![t] = p]
      /\ seen' = [seen EXCEPT ![t] = s]
      /\ going' = [going EXCEPT ![t] = IF effect = NoPage THEN g ELSE effect]
  BY DEF Show
<1>2. effect = NoPage => Guard(p, s) = NoPage \/ g \notin {NoPage, p}
  OBVIOUS
<1>3. effect # NoPage => effect \notin {NoPage, p}
  BY GuardSends
<1> HIDE DEF effect
<1> SUFFICES ASSUME NEW u \in Tabs, seen'[u] # Unread, going'[u] \in {NoPage, page'[u]}
             PROVE  Guard(page'[u], seen'[u]) = NoPage
  BY DEF Guarded, Guard, Home, Form, Dashboard, SignedIn
<1>4. CASE u = t
  <2>1. page'[u] = p /\ seen'[u] = s /\ going'[u] = IF effect = NoPage THEN g ELSE effect
    BY <1>1, <1>4 DEF TypeOK
  <2> QED
    BY <1>2, <1>3, <2>1
<1>5. CASE u # t
  <2>1. page'[u] = page[u] /\ seen'[u] = seen[u] /\ going'[u] = going[u]
    BY <1>1, <1>5 DEF TypeOK
  <2> QED
    BY <2>1 DEF Guarded
<1> QED
  BY <1>4, <1>5

\* Every step keeps the invariant.
LEMMA GuardedStep == TypeOK /\ Guarded /\ [Next]_vars => Guarded'
<1> SUFFICES ASSUME TypeOK, Guarded, [Next]_vars PROVE Guarded'
  OBVIOUS
<1>1. storage \in Sessions \cup {NoSession} /\ \A t \in Tabs : page[t] \in Pages
  BY DEF TypeOK
<1>2. ASSUME NEW t \in Tabs, Notice(t) PROVE Guarded'
  <2>1. page[t] \in Pages /\ going[t] \in Pages \cup {NoPage} /\ storage # seen[t]
    BY <1>2 DEF TypeOK, Notice
  <2> QED
    BY <1>1, <1>2, <2>1, GuardedShow DEF Notice
<1>3. ASSUME NEW t \in Tabs, Arrive(t) PROVE Guarded'
  <2>1. going[t] \in Pages /\ NoPage \in Pages \cup {NoPage}
    BY <1>3 DEF TypeOK, Arrive
  <2>2. Show(t, going[t], storage, NoPage)
    BY <1>3 DEF Arrive
  <2>3. storage # Unread
    BY <1>1, NoneAssumption
  <2>4. going[t] = page[t] /\ storage = seen[t] => Guard(going[t], storage) = NoPage
    BY <2>3 DEF Guarded
  <2> QED
    BY <1>1, <2>1, <2>2, <2>4, GuardedShow
<1>4. ASSUME NEW t \in Tabs, SignOut(t) PROVE Guarded'
  <2>1. /\ page[t] \in Pages /\ going[t] \in Pages \cup {NoPage}
        /\ NoSession \in Sessions \cup {NoSession} /\ NoSession # seen[t]
    BY <1>4 DEF TypeOK, SignOut, Panels, SignedIn
  <2> QED
    BY <1>4, <2>1, GuardedShow DEF SignOut
<1>5. ASSUME NEW r \in requests, SignIn(r) PROVE Guarded'
  <2>1. /\ r.tab \in Tabs /\ r.user \in People /\ r.n \in Nat
        /\ storage' = [user |-> r.user, n |-> r.n]
    BY <1>5 DEF SignIn, TypeOK, Requests
  <2>2. storage' \in Sessions
    BY <2>1 DEF Sessions
  <2>3. PICK s \in Sessions : s = storage'
    BY <2>2
  <2>4. Show(r.tab, page[r.tab], s, "dashboard") /\ "dashboard" \in Pages
    BY <1>5, <2>3 DEF SignIn, Pages
  <2>5. Guard("dashboard", s) = NoPage
    BY <2>4, GuardSends, NoneAssumption
  <2>6. page[r.tab] = "dashboard" \/ "dashboard" \notin {NoPage, page[r.tab]}
    BY <2>4, NoneAssumption
  <2> QED
    BY <1>1, <2>1, <2>3, <2>4, <2>5, <2>6, GuardedShow
<1>6. ASSUME NEW t \in Tabs, FollowLink(t) PROVE Guarded'
  <2>1. UNCHANGED << page, seen >>
    BY <1>6 DEF FollowLink
  <2>2. \A u \in Tabs \ {t} : going'[u] = going[u]
    BY <1>6 DEF FollowLink, TypeOK
  <2>3. going'[t] \notin {NoPage, page[t]}
    BY <1>6, NoneAssumption DEF FollowLink, TypeOK, Pages
  <2> QED
    BY <2>1, <2>2, <2>3 DEF Guarded, Guard, Home, Form, Dashboard, SignedIn
<1>7. ASSUME NEW t \in Tabs, Reload(t) PROVE Guarded'
  <2>1. seen'[t] = Unread /\ UNCHANGED page
    BY <1>7 DEF Reload, TypeOK
  <2>2. \A u \in Tabs \ {t} : going'[u] = going[u] /\ seen'[u] = seen[u]
    BY <1>7 DEF Reload, TypeOK
  <2> QED
    BY <2>1, <2>2 DEF Guarded, Guard, Home, Form, Dashboard, SignedIn
<1>8. ASSUME UNCHANGED << page, seen, going >> PROVE Guarded'
  BY <1>8 DEF Guarded, Guard, Home, Form, Dashboard, SignedIn
<1>9. ASSUME \/ UNCHANGED vars \/ (\E s \in Sessions : Expire(s))
             \/ (\E r \in requests : Authenticate(r) \/ Refuse(r) \/ SignInFails(r))
             \/ (\E t \in Tabs : \/ Submit(t) \/ Write(t) \/ WriteSucceeds(t) \/ WriteFails(t)
                                 \/ TasksArrive(t) \/ TasksFail(t) \/ Age(t))
      PROVE  Guarded'
  BY <1>8, <1>9 DEF vars, Expire, Authenticate, Refuse, SignInFails, Submit, Write, WriteSucceeds,
                    WriteFails, TasksArrive, TasksFail, Age, browser
<1> QED
  BY <1>2, <1>3, <1>4, <1>5, <1>6, <1>7, <1>9 DEF Next, Answers, Expires

\* No tab that has read the stored session comes to rest out of place, whatever was
\* redirected, clicked, answered late, signed in or out and reloaded, in whatever tab.
THEOREM RestIsInPlace == Spec => []AtRestInPlace
<1>1. Init => Guarded
  BY DEF Init, Guarded
<1>2. TypeOK /\ Guarded => AtRestInPlace
  <2> SUFFICES ASSUME TypeOK, Guarded, NEW t \in Tabs, seen[t] = storage, going[t] = NoPage
               PROVE  InPlace(t)
    BY DEF AtRestInPlace
  <2>1. page[t] \in Pages /\ storage \in Sessions \cup {NoSession} /\ seen[t] # Unread
    BY NoneAssumption DEF TypeOK
  <2>2. Guard(page[t], storage) = NoPage
    BY <2>1 DEF Guarded
  <2> QED
    BY <2>1, <2>2, GuardSends DEF InPlace
<1> QED
  BY <1>1, <1>2, TypeCorrect, GuardedStep, PTL DEF Spec

=============================================================================
