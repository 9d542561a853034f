------------------------------- MODULE Session -------------------------------
(***************************************************************************)
(* Signing in and out: the session that the tabs of a browser share in     *)
(* localStorage, the pages that follow it, the forms that are answered     *)
(* late, the accounts and tokens of the server, and the query cache of a   *)
(* tab, which outlives a session and whose keys do not name the user.      *)
(*                                                                         *)
(* A session is the user and the number of the submitted form it answers,  *)
(* which stands for its token.  seen[t] is the session tab t has rendered  *)
(* (Unread before hydration), going[t] the page router.replace is on its   *)
(* way to, pending the tabs whose form waits.  tasks[t] is one query of    *)
(* the panels; its data and reply are the session it was fetched with.     *)
(* own has the tabs in which a fetch has been started under the session    *)
(* that is seen, and has not failed: it is only read by the properties.    *)
(***************************************************************************)
EXTENDS QueryCache, Naturals

CONSTANTS
    Tabs, People, NoSession, Unread, NoPage,
    Entries,    \* the pages a tab may be opened at
    Budgets     \* how often each of Counted may happen: one of these at a time

\* What the user does; a form or a write fails; a token expires.
Counted == {"submit", "link", "signOut", "reload", "write", "lost", "expire"}

VARIABLES users, expired, storage, page, seen, going, pending, requests,
          tasks, fresh, writing, own, counted

browser == << storage, page, seen, going >>
forms == << pending, requests >>
cache == << tasks, fresh, writing, own >>
server == << users, expired >>
vars == << users, expired, storage, page, seen, going, pending, requests,
           tasks, fresh, writing, own, counted >>

Sessions == [user : People, n : Nat]
Pages == {"home", "login", "register", "dashboard"}

\* mounted: the form is still the one on the page.  A tab that was reloaded takes no
\* answer (tab = Undefined).
Requests ==
    [op : {"login", "register"}, user : People, n : Nat, tab : Tabs \cup {Undefined},
     mounted : BOOLEAN, at : {"sent", "granted", "refused"}]

TypeOK ==
    /\ users \subseteq People
    /\ expired \subseteq Sessions
    /\ storage \in Sessions \cup {NoSession}
    /\ page \in [Tabs -> Pages]
    /\ seen \in [Tabs -> Sessions \cup {NoSession, Unread}]
    /\ going \in [Tabs -> Pages \cup {NoPage}]
    /\ pending \subseteq Tabs
    /\ requests \subseteq Requests
    /\ \A t \in Tabs : t \in pending => page[t] \in {"login", "register"}
    /\ tasks \in [Tabs -> Query(Sessions, Sessions)]
    /\ fresh \subseteq Tabs /\ writing \subseteq Tabs /\ own \subseteq Tabs
    /\ counted \in [Counted -> Nat]

ASSUME EntriesAssumption == Entries \subseteq Pages
ASSUME UndefinedAssumption == Undefined \notin Sessions
ASSUME NoneAssumption ==
    NoPage \notin Pages /\ NoSession \notin Sessions /\ Unread \notin Sessions \cup {NoSession}

\* The tabs are opened, with the session of an earlier visit or without.
Init ==
    /\ users \in SUBSET People
    /\ storage \in {NoSession} \cup {[user |-> u, n |-> 0] : u \in users}
    /\ page \in [Tabs -> Entries]
    /\ seen = [t \in Tabs |-> Unread]
    /\ going = [t \in Tabs |-> NoPage]
    /\ tasks = [t \in Tabs |-> Unused]
    /\ expired = {} /\ pending = {} /\ requests = {}
    /\ fresh = {} /\ writing = {} /\ own = {}
    /\ counted = [m \in Counted |-> 0]

Count(m) ==
    /\ counted' = [counted EXCEPT ![m] = @ + 1]
    /\ \E budget \in Budgets : \A k \in Counted : counted'[k] <= budget[k]

-----------------------------------------------------------------------------
(* The server.                                                             *)

\* The e-mail is unique.  Register inserts the account and then issues the token.
Register(r) ==
    /\ r.op = "register"
    /\ users' = users \cup {r.user}
    /\ requests' = (requests \ {r})
         \cup {[r EXCEPT !.at = IF r.user \in users THEN "refused" ELSE "granted"]}

Login(r) ==
    /\ r.op = "login"
    /\ requests' = (requests \ {r})
         \cup {[r EXCEPT !.at = IF r.user \in users THEN "granted" ELSE "refused"]}
    /\ UNCHANGED users

Authenticate(r) ==
    /\ r.at = "sent"
    /\ Register(r) \/ Login(r)
    /\ UNCHANGED << expired, browser, pending, cache, counted >>

\* The password is wrong or the request fails, after the account was stored or before.
Refuse(r) ==
    /\ r.at # "refused"
    /\ Count("lost")
    /\ requests' = (requests \ {r}) \cup {[r EXCEPT !.at = "refused"]}
    /\ UNCHANGED << server, browser, pending, cache >>

\* The token's ttl is over: Parse refuses it from now on.
Expire(s) ==
    /\ s \notin expired
    /\ Count("expire")
    /\ expired' = expired \cup {s}
    /\ UNCHANGED << users, browser, forms, cache >>

-----------------------------------------------------------------------------
(* Rendering.                                                              *)

SignedIn(s) == s \notin {NoSession, Unread}

\* The dashboard mounts its panels.
Panels(p, s) == p = "dashboard" /\ SignedIn(s)

\* The effects of the pages: where they send a tab that has read session s.
Home(s) == IF SignedIn(s) THEN "dashboard" ELSE "login"
Form(s) == IF SignedIn(s) THEN "dashboard" ELSE NoPage

\* Mutant: the dashboard does not guard.
DashboardOpen(s) == NoPage

Dashboard(s) == IF SignedIn(s) THEN NoPage ELSE "login"

\* None of them acts before hydration.
Guard(p, s) ==
    CASE s = Unread -> NoPage
      [] s # Unread /\ p = "home" -> Home(s)
      [] s # Unread /\ p \in {"login", "register"} -> Form(s)
      [] s # Unread /\ p = "dashboard" -> Dashboard(s)

\* A fetch sends the token of the session that is rendered.
Ask(q, s) == [Fetch(q) EXCEPT !.reply = s]

\* Tab t renders page p with session s while it is on its way to g: the effect of the
\* page runs if it is new or the token has changed, and panels that become mounted fetch
\* unless their data is fresh or a fetch is under way.
Show(t, p, s, g) ==
    LET effect == IF p # page[t] \/ s # seen[t] THEN Guard(p, s) ELSE NoPage
        asks == /\ Panels(p, s) /\ ~Panels(page[t], seen[t])
                /\ tasks[t].fetch = "idle" /\ (tasks[t].data = Undefined \/ t \notin fresh)
    IN  /\ page' = [page EXCEPT ![t] = p]
        /\ seen' = [seen EXCEPT ![t] = s]
        /\ going' = [going EXCEPT ![t] = IF effect = NoPage THEN g ELSE effect]
        /\ tasks' = IF asks THEN [tasks EXCEPT ![t] = Ask(@, s)] ELSE tasks
        /\ own' = IF asks THEN own \cup {t} ELSE IF s # seen[t] THEN own \ {t} ELSE own

\* Hydration, and the storage event of what another tab has stored.
Notice(t) ==
    /\ seen[t] # storage
    /\ Show(t, page[t], storage, going[t])
    /\ UNCHANGED << server, storage, forms, fresh, writing, counted >>

\* Mutant: the two forms share their state.
ArriveWithForm(t) ==
    /\ going[t] # NoPage
    /\ Show(t, going[t], storage, NoPage)
    /\ UNCHANGED << server, storage, forms, fresh, writing, counted >>

\* The page is there.  Its form starts anew; an answer to the one before is still taken.
Arrive(t) ==
    /\ going[t] # NoPage
    /\ Show(t, going[t], storage, NoPage)
    /\ IF going[t] = page[t] THEN UNCHANGED forms
       ELSE /\ pending' = pending \ {t}
            /\ requests' = {IF r.tab = t THEN [r EXCEPT !.mounted = FALSE] ELSE r : r \in requests}
    /\ UNCHANGED << server, storage, fresh, writing, counted >>

-----------------------------------------------------------------------------
(* The user, and the answers.                                              *)

FollowLink(t) ==
    /\ page[t] \in {"login", "register"} /\ seen[t] # Unread
    /\ Count("link")
    /\ going' = [going EXCEPT ![t] = IF page[t] = "login" THEN "register" ELSE "login"]
    /\ UNCHANGED << server, storage, page, seen, forms, cache >>

Submit(t) ==
    /\ page[t] \in {"login", "register"} /\ seen[t] # Unread /\ t \notin pending
    /\ Count("submit")
    /\ \E u \in People :
          requests' = requests \cup {[op |-> page[t], user |-> u, n |-> counted'["submit"],
                                      tab |-> t, mounted |-> TRUE, at |-> "sent"]}
    /\ pending' = pending \cup {t}
    /\ UNCHANGED << server, browser, cache >>

\* signIn stores the session whatever the tab shows by now, and the form leaves for the
\* dashboard; it stays disabled until then.
SignIn(r) ==
    /\ r.at = "granted" /\ r.tab # Undefined
    /\ storage' = [user |-> r.user, n |-> r.n]
    /\ Show(r.tab, page[r.tab], storage', "dashboard")
    /\ requests' = requests \ {r}
    /\ UNCHANGED << server, pending, fresh, writing, counted >>

SignInFails(r) ==
    /\ r.at # "sent"
    /\ r.at = "refused" \/ r.tab = Undefined
    /\ requests' = requests \ {r}
    /\ pending' = IF r.mounted THEN pending \ {r.tab} ELSE pending
    /\ UNCHANGED << server, browser, cache, counted >>

SignOut(t) ==
    /\ Panels(page[t], seen[t])
    /\ Count("signOut")
    /\ storage' = NoSession
    /\ Show(t, page[t], NoSession, going[t])
    /\ UNCHANGED << server, forms, fresh, writing >>

\* A new document: new component state and a new cache.
Reload(t) ==
    /\ Count("reload")
    /\ seen' = [seen EXCEPT ![t] = Unread]
    /\ going' = [going EXCEPT ![t] = NoPage]
    /\ pending' = pending \ {t}
    /\ requests' = {IF r.tab = t THEN [r EXCEPT !.tab = Undefined, !.mounted = FALSE] ELSE r :
                    r \in requests}
    /\ tasks' = [tasks EXCEPT ![t] = Unused]
    /\ fresh' = fresh \ {t} /\ writing' = writing \ {t} /\ own' = own \ {t}
    /\ UNCHANGED << server, storage, page >>

-----------------------------------------------------------------------------
(* The panels.                                                             *)

\* The user adds a task.
Write(t) ==
    /\ Panels(page[t], seen[t]) /\ seen[t] \notin expired /\ t \notin writing
    /\ Count("write")
    /\ writing' = writing \cup {t}
    /\ UNCHANGED << server, browser, forms, tasks, fresh, own >>

\* Mutant: the refetch does not cancel the fetch that is under way.
WriteSucceedsJoins(t) ==
    /\ t \in writing
    /\ writing' = writing \ {t}
    /\ fresh' = fresh \ {t}
    /\ IF Panels(page[t], seen[t]) /\ ~FirstLoad(tasks[t])
       THEN /\ tasks' = IF tasks[t].fetch = "idle" THEN [tasks EXCEPT ![t] = Ask(@, seen[t])] ELSE tasks
            /\ own' = own \cup {t}
       ELSE UNCHANGED << tasks, own >>
    /\ UNCHANGED << server, browser, forms, counted >>

\* onSuccess invalidates the query: a mounted panel refetches, unless it joins the first
\* load.
WriteSucceeds(t) ==
    /\ t \in writing
    /\ writing' = writing \ {t}
    /\ fresh' = fresh \ {t}
    /\ IF Panels(page[t], seen[t]) /\ ~FirstLoad(tasks[t])
       THEN tasks' = [tasks EXCEPT ![t] = Ask(@, seen[t])] /\ own' = own \cup {t}
       ELSE UNCHANGED << tasks, own >>
    /\ UNCHANGED << server, browser, forms, counted >>

WriteFails(t) ==
    /\ t \in writing
    /\ Count("lost")
    /\ writing' = writing \ {t}
    /\ UNCHANGED << server, browser, forms, tasks, fresh, own >>

\* The server answers with the tasks of the token's user.
TasksArrive(t) ==
    /\ tasks[t].fetch = "sent" /\ tasks[t].reply \notin expired
    /\ tasks' = [tasks EXCEPT ![t] = Receive(@)]
    /\ fresh' = fresh \cup {t}
    /\ UNCHANGED << server, browser, forms, writing, own, counted >>

\* 401, or the request fails twice: the data stays, and nobody signs out.
TasksFail(t) ==
    /\ tasks[t].fetch = "sent"
    /\ IF tasks[t].reply \in expired THEN UNCHANGED counted ELSE Count("lost")
    /\ tasks' = [tasks EXCEPT ![t] = GiveUp(@)]
    /\ own' = own \ {t}
    /\ UNCHANGED << server, browser, forms, fresh, writing >>

\* staleTime passes.
Age(t) ==
    /\ t \in fresh
    /\ fresh' = fresh \ {t}
    /\ UNCHANGED << server, browser, forms, tasks, writing, own, counted >>

-----------------------------------------------------------------------------
Answers == \E r \in requests : Authenticate(r) \/ Refuse(r) \/ SignIn(r) \/ SignInFails(r)

Expires == \E s \in {seen[t] : t \in Tabs} \cap Sessions : Expire(s)

Next ==
    \/ \E t \in Tabs :
          \/ Notice(t) \/ Arrive(t)
          \/ FollowLink(t) \/ Submit(t) \/ SignOut(t) \/ Reload(t)
          \/ Write(t) \/ WriteSucceeds(t) \/ WriteFails(t)
          \/ TasksArrive(t) \/ TasksFail(t) \/ Age(t)
    \/ Answers \/ Expires

Spec == Init /\ [][Next]_vars

\* Storage events are delivered, pages arrive.  Nobody has to answer a form.
FairSpec == Spec /\ \A t \in Tabs : WF_vars(Notice(t)) /\ WF_vars(Arrive(t))

-----------------------------------------------------------------------------
InPlace(t) ==
    /\ seen[t] = storage
    /\ page[t] \in IF storage = NoSession THEN {"login", "register"} ELSE {"dashboard"}

\* docs/LEARNING.md:543, "guards redirect to /login": whatever forms are answered late
\* and whichever tab signs in or out, once that stops every tab shows the stored
\* session, on the dashboard, or a form when there is none.
PagesSettle == <>[](\A t \in Tabs : InPlace(t))

\* The data of one user is shown to another only until a fetch begun in the session has
\* succeeded, however many sessions, tabs, late answers and joined fetches there were.
ShownIsOwn ==
    \A t \in own : Panels(page[t], seen[t]) /\ tasks[t].fetch = "idle"
                      => tasks[t].data # Undefined /\ tasks[t].data.user = seen[t].user

=============================================================================
