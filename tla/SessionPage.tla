----------------------------- MODULE SessionPage -----------------------------
(* The session of the management console and the way between its views:    *)
(* src/web/src/App.jsx with AuthPage.jsx, LoginModal.jsx, LandingPage.jsx  *)
(* and AccountManageModal.jsx.  The browser's storage outlives the page;   *)
(* the state of the page is lost when it is reloaded.  A token is named by *)
(* the account it was issued to.  An answer is given (SessionAnswer) and   *)
(* handled in two steps, by handlers that see the state of the render they *)
(* were made in; the effects of a render belong to the step that causes it. *)
EXTENDS Integers, FiniteSets

CONSTANTS Admins, Members, \* the accounts, by role
          NoOne,           \* no token, no user
          Tabs,            \* the tabs of the console the model looks at
          MaxSessionSteps

AdminOnlyTabs == {"dashboard", "channels", "users", "mcp"}
allowedTabs == {"wallet", "keys", "playground", "pricing", "logs", "docs", "models"}

ASSUME SessionAssumption ==
    /\ NoOne \notin Admins \cup Members /\ Admins \cap Members = {}
    /\ Tabs \subseteq AdminOnlyTabs \cup allowedTabs
    /\ {"dashboard", "wallet", "docs"} \subseteq Tabs

People == Admins \cup Members
Views == {"landing", "console", "status", "auth"}

VARIABLES
    expired,                  \* the tokens the server takes no more
    storedToken, storedUser,  \* the browser's storage
    viewMode, currentTab, authTab,
    adminToken, adminUser,
    pollToken, pollView,      \* what the handler of the 8-second timer sees
    showLoginModal, showAccountModal,
    door,                     \* the sign-in form that is shown: [busy, sending, countdown]
    sessionCalls,             \* requests sent and not yet handled
    sessionSteps              \* what the user did so far, bounded by MaxSessionSteps

stored == <<storedToken, storedUser>>
place == <<viewMode, currentTab, authTab>>
session == <<adminToken, adminUser>>
dialogs == <<showLoginModal, showAccountModal, door>>
sessionVars == <<expired, stored, place, session, pollToken, pollView, dialogs, sessionCalls, sessionSteps>>

\* token: under whose token; view: the viewMode its handler sees; mine: the
\* form it was sent from is still there.
SessionCall(op, token, view) ==
    [op |-> op, token |-> token, view |-> view, mine |-> TRUE, served |-> FALSE, reply |-> "lost"]

\* adminFetch without a token is never taken for the end of a session.
Fetch(op, token, view) == IF token = NoOne THEN {} ELSE {SessionCall(op, token, view)}
effectiveToken == IF adminToken # NoOne THEN adminToken ELSE storedToken

FreshDoor == [busy |-> FALSE, sending |-> FALSE, countdown |-> 0]

defaultTab(user) == IF user \in Admins THEN "dashboard" ELSE "wallet"

\* getRouteFromURL: what a hash leads to, by what is stored.
Route(hash, token, user) ==
    CASE hash \in {"status", "landing"} -> [view |-> hash, tab |-> defaultTab(user)]
      [] hash \in {"login", "register"} -> [view |-> "auth", tab |-> defaultTab(user)]
      [] hash \in Tabs /\ token # NoOne ->
            [view |-> "console",
             tab |-> IF user \notin Admins /\ hash \in AdminOnlyTabs THEN "wallet" ELSE hash]
      [] hash = "" /\ token # NoOne -> [view |-> "console", tab |-> defaultTab(user)]
      [] OTHER -> [view |-> "landing", tab |-> defaultTab(user)]

\* The hash the address bar shows.
targetHash ==
    CASE viewMode = "landing" -> {"", "landing"}
      [] viewMode = "auth"    -> {IF authTab = "register" THEN "register" ELSE "login"}
      [] viewMode = "status"  -> {"status"}
      [] OTHER                -> {currentTab}

\* A page is loaded: its state is what is stored and what the hash says, the
\* stored token is checked.
Load(hash, token, user) ==
    LET route == Route(hash, token, user)
    IN  /\ viewMode' = route.view /\ currentTab' = route.tab
        /\ authTab' = IF hash = "register" THEN "register" ELSE "login"
        /\ adminToken' = token /\ adminUser' = user
        /\ pollToken' = token /\ pollView' = route.view
        /\ showLoginModal' = FALSE /\ showAccountModal' = FALSE /\ door' = FreshDoor
        /\ sessionCalls' = Fetch("start", token, route.view) \cup Fetch("api", token, route.view)

\* The page is loaded with or without what an earlier visit has stored.
SessionInit ==
    /\ expired = {}
    /\ storedUser \in People \cup {NoOne} /\ storedToken = storedUser
    /\ viewMode \in {Route(hash, storedToken, storedUser).view : hash \in {"", "landing"}}
    /\ currentTab = defaultTab(storedUser) /\ authTab = "login"
    /\ adminToken = storedToken /\ adminUser = storedUser
    /\ pollToken = storedToken /\ pollView = viewMode
    /\ showLoginModal = FALSE /\ showAccountModal = FALSE /\ door = FreshDoor
    /\ sessionCalls = Fetch("start", storedToken, viewMode) \cup Fetch("api", storedToken, viewMode)
    /\ sessionSteps = 0

-----------------------------------------------------------------------------
(* The effects of a render.                                                *)

\* No effect that looks at the tab.
GuardedNot(user, tab) == tab

\* A user who is no admin is sent to the wallet from any other tab.
Guarded(user, tab) == IF user # NoOne /\ user \notin Admins /\ tab \notin allowedTabs THEN "wallet" ELSE tab

\* The timer is set anew, and the data fetched, when the tab or the token
\* changes; it keeps seeing the render it was set in.
Rendered(calls) ==
    /\ IF currentTab' # currentTab \/ adminToken' # adminToken
       THEN pollToken' = adminToken' /\ pollView' = viewMode'
       ELSE UNCHANGED <<pollToken, pollView>>
    /\ sessionCalls' = calls \cup (IF pollToken' # pollToken
                                   THEN Fetch("api", pollToken', pollView') ELSE {})

\* A sign-in form that goes loses its state; what it has sent goes on.
FormGoes(calls) ==
    IF viewMode' # viewMode \/ (showLoginModal /\ ~showLoginModal')
    THEN /\ door' = FreshDoor
         /\ Rendered({IF c.op \in {"login", "code"} THEN [c EXCEPT !.mine = FALSE] ELSE c : c \in calls})
    ELSE /\ UNCHANGED door
         /\ Rendered(calls)

GoTo(view, tab) == viewMode' = view /\ currentTab' = Guarded(adminUser', tab)

\* The token and the user, on the page and in the storage.
clearStoredAuth == storedToken' = NoOne /\ storedUser' = NoOne /\ adminToken' = NoOne /\ adminUser' = NoOne

-----------------------------------------------------------------------------
(* The server and the answers.                                             *)

SessionAnswer ==
    \E c \in sessionCalls, reply \in {"ok", "refused", "lost"} :
        /\ ~c.served
        /\ c.op \notin {"login", "code"} =>
              /\ reply = "ok" => c.token \notin expired
              /\ reply = "refused" => c.token \in expired
        /\ expired' = IF c.op = "login" /\ reply = "ok" THEN expired \ {c.token} ELSE expired
        /\ sessionCalls' = (sessionCalls \ {c}) \cup {[c EXCEPT !.served = TRUE, !.reply = reply]}
        /\ UNCHANGED <<stored, place, session, pollToken, pollView, dialogs, sessionSteps>>

TokenExpires ==
    \E a \in People \ expired :
        /\ expired' = expired \cup {a}
        /\ UNCHANGED <<stored, place, session, pollToken, pollView, dialogs, sessionCalls>>

Handled(c, op) == c \in sessionCalls /\ c.served /\ c.op = op

\* The check of the stored token when the page was loaded.
StartReturns ==
    \E c \in sessionCalls :
        /\ Handled(c, "start")
        /\ CASE c.reply = "ok" ->
                  adminUser' = c.token /\ storedToken' = c.token /\ storedUser' = c.token /\ UNCHANGED adminToken
             [] c.reply = "refused" -> clearStoredAuth
             [] OTHER -> UNCHANGED <<stored, session>>
        /\ LET thrownOut == c.reply = "refused" /\ c.view = "console"
           IN  /\ GoTo(IF thrownOut THEN "landing" ELSE viewMode, currentTab)
               /\ showLoginModal' = (showLoginModal \/ thrownOut)
        /\ FormGoes(sessionCalls \ {c})
        /\ UNCHANGED <<expired, authTab, showAccountModal, sessionSteps>>

\* The end of adminFetch, of which the console asks everything: a refusal ends
\* the session if the handler was made in the console, whatever token is the
\* current one.  The wallet and the password do more with an answer.
ApiReturns ==
    \E c \in sessionCalls :
        /\ \/ Handled(c, "api")
           \/ Handled(c, "wallet") /\ c.reply # "ok"
        /\ IF c.reply = "refused" /\ c.view = "console"
           THEN clearStoredAuth /\ showLoginModal' = TRUE
           ELSE UNCHANGED <<stored, session, showLoginModal>>
        /\ GoTo(viewMode, currentTab)
        /\ FormGoes(sessionCalls \ {c})
        /\ UNCHANGED <<expired, authTab, showAccountModal, sessionSteps>>

\* The end of fetchUserProfile: the user and the token it was asked with are
\* stored, whoever is signed in by now.
SessionProfileArrives ==
    \E c \in sessionCalls :
        /\ Handled(c, "profile")
        /\ IF c.reply = "ok"
           THEN adminUser' = c.token /\ storedToken' = c.token /\ storedUser' = c.token
           ELSE UNCHANGED <<stored, adminUser>>
        /\ UNCHANGED adminToken
        /\ UNCHANGED <<expired, authTab, showLoginModal, showAccountModal, sessionSteps>>
        /\ GoTo(viewMode, currentTab)
        /\ FormGoes(sessionCalls \ {c})

\* onUserUpdated and onBalanceUpdate of the wallet: its user, name and role
\* included, becomes the user of the page; the profile is fetched.
UserUpdated ==
    \E c \in sessionCalls :
        /\ Handled(c, "wallet") /\ c.reply = "ok"
        /\ adminUser' = c.token /\ storedUser' = c.token
        /\ UNCHANGED <<adminToken, storedToken>>
        /\ UNCHANGED <<expired, authTab, showLoginModal, showAccountModal, sessionSteps>>
        /\ GoTo(viewMode, currentTab)
        /\ FormGoes((sessionCalls \ {c}) \cup Fetch("profile", c.token, c.view))

\* onLoginSuccess, of whichever form, shown or gone.
LoginReturns ==
    \E c \in sessionCalls :
        /\ Handled(c, "login") /\ c.reply = "ok"
        /\ storedToken' = c.token /\ storedUser' = c.token
        /\ adminToken' = c.token /\ adminUser' = c.token
        /\ GoTo("console", defaultTab(c.token))
        /\ showLoginModal' = FALSE
        /\ FormGoes((sessionCalls \ {c}) \cup Fetch("api", c.token, c.view))
        /\ UNCHANGED <<expired, authTab, showAccountModal, sessionSteps>>

LoginFails ==
    \E c \in sessionCalls :
        /\ Handled(c, "login") /\ c.reply # "ok"
        /\ door' = IF c.mine THEN [door EXCEPT !.busy = FALSE] ELSE door
        /\ sessionCalls' = sessionCalls \ {c}
        /\ UNCHANGED <<expired, stored, place, session, pollToken, pollView, showLoginModal,
                       showAccountModal, sessionSteps>>

\* The end of handleSendCode; the minute is counted in two halves.
CodeReturns ==
    \E c \in sessionCalls :
        /\ Handled(c, "code")
        /\ door' = IF c.mine
                   THEN [door EXCEPT !.sending = FALSE, !.countdown = IF c.reply = "ok" THEN 2 ELSE @]
                   ELSE door
        /\ sessionCalls' = sessionCalls \ {c}
        /\ UNCHANGED <<expired, stored, place, session, pollToken, pollView, showLoginModal,
                       showAccountModal, sessionSteps>>

CountDown ==
    /\ door.countdown > 0
    /\ door' = [door EXCEPT !.countdown = @ - 1]
    /\ UNCHANGED <<expired, stored, place, session, pollToken, pollView, showLoginModal,
                   showAccountModal, sessionCalls, sessionSteps>>

\* The end of handleChangePassword: success closes the dialog, whoever opened
\* it since.
PasswordReturns ==
    \E c \in sessionCalls :
        /\ Handled(c, "password")
        /\ showAccountModal' = (showAccountModal /\ c.reply # "ok")
        /\ IF c.reply = "refused" /\ c.view = "console"
           THEN clearStoredAuth /\ showLoginModal' = TRUE
           ELSE UNCHANGED <<stored, session, showLoginModal>>
        /\ GoTo(viewMode, currentTab)
        /\ FormGoes(sessionCalls \ {c})
        /\ UNCHANGED <<expired, authTab, sessionSteps>>

\* Every 8 seconds.
PollFires ==
    /\ sessionCalls' = sessionCalls
            \cup Fetch("api", IF pollToken # NoOne THEN pollToken ELSE storedToken, pollView)
    /\ UNCHANGED <<expired, stored, place, session, pollToken, pollView, dialogs>>

-----------------------------------------------------------------------------
(* What the user does.                                                     *)

\* A button that only leads elsewhere.
Navigate(view, tab) ==
    /\ UNCHANGED <<expired, stored, session, showLoginModal, showAccountModal>>
    /\ GoTo(view, tab)
    /\ FormGoes(sessionCalls)

NoDialog == ~showLoginModal /\ ~showAccountModal

\* "Enter the console": to the sign-in page without a token.
EnterConsole == IF adminToken # NoOne THEN "console" ELSE "auth"

\* The buttons of the public page.
LandingTop == {"status", EnterConsole}
LandingDocs == {<<EnterConsole, "docs">>}

FromLanding ==
    /\ viewMode = "landing" /\ NoDialog
    /\ \E to \in {<<view, currentTab>> : view \in LandingTop} \cup LandingDocs : Navigate(to[1], to[2])
    /\ authTab' = IF viewMode' = "auth" THEN "login" ELSE authTab

FromStatus ==
    /\ viewMode = "status" /\ NoDialog
    /\ \E view \in {"landing", EnterConsole, "auth"} : Navigate(view, currentTab)
    /\ authTab' = IF viewMode' = "auth" THEN "login" ELSE authTab

FromAuth ==
    /\ viewMode = "auth"
    /\ Navigate("landing", currentTab)
    /\ UNCHANGED authTab

\* The two menus, and what both hold: the way out to the public pages.
AdminMenu == (AdminOnlyTabs \cup (allowedTabs \ {"docs"})) \cap Tabs
MemberMenu == {"wallet", "keys", "playground", "pricing", "logs"} \cap Tabs
Outside == {"landing", "status"}

FromMenu ==
    /\ viewMode = "console" /\ NoDialog
    /\ \/ \E tab \in IF adminUser \in Admins THEN AdminMenu ELSE MemberMenu : Navigate("console", tab)
       \/ \E view \in Outside : Navigate(view, currentTab)
    /\ UNCHANGED authTab

\* The hash is typed, or the browser goes back or forth.
handleLocationChange ==
    \E hash \in {"", "landing", "status", "login", "register"} \cup Tabs :
        LET route == Route(hash, storedToken, storedUser)
        IN  /\ authTab' = IF hash = "register" THEN "register" ELSE "login"
            /\ Navigate(route.view, route.tab)

Reload ==
    /\ \E hash \in targetHash : Load(hash, storedToken, storedUser)
    /\ UNCHANGED <<expired, stored>>

handleLogout ==
    /\ viewMode = "console" /\ NoDialog
    /\ clearStoredAuth
    /\ GoTo("landing", currentTab)
    /\ FormGoes(sessionCalls)
    /\ UNCHANGED <<expired, authTab, showLoginModal, showAccountModal>>

\* The wallet page asks for the wallet when it is shown.
OpenWallet ==
    /\ viewMode = "console" /\ currentTab = "wallet"
    /\ sessionCalls' = sessionCalls \cup Fetch("wallet", effectiveToken, viewMode)
    /\ UNCHANGED <<expired, stored, place, session, pollToken, pollView, dialogs>>

\* A sign-in form is the page "auth" or the dialog over another view.
DoorShown == viewMode = "auth" \/ showLoginModal
CodeOffered == DoorShown /\ ~door.sending /\ door.countdown = 0
LoginOffered == DoorShown /\ ~door.busy

SendFromDoor(op, a) ==
    /\ sessionCalls' = sessionCalls \cup {SessionCall(op, a, viewMode)}
    /\ UNCHANGED <<expired, stored, place, session, pollToken, pollView, showLoginModal, showAccountModal>>

handleLoginSubmit ==
    \E a \in People :
        /\ LoginOffered
        /\ door' = [door EXCEPT !.busy = TRUE]
        /\ SendFromDoor("login", a)

\* A new account is a member's; it is signed in at once.
handleRegisterSubmit ==
    \E a \in Members :
        /\ LoginOffered
        /\ door' = [door EXCEPT !.busy = TRUE]
        /\ SendFromDoor("login", a)

\* The page's buttons of the other identity providers are never disabled, the
\* dialog's are.
handleOAuthLogin ==
    \E a \in People :
        /\ viewMode = "auth"
        /\ UNCHANGED door
        /\ SendFromDoor("login", a)

DialogOAuthLogin ==
    \E a \in People :
        /\ viewMode # "auth" /\ LoginOffered
        /\ door' = [door EXCEPT !.busy = TRUE]
        /\ SendFromDoor("login", a)

handleSendCode ==
    \E a \in People :
        /\ CodeOffered
        /\ door' = [door EXCEPT !.sending = TRUE]
        /\ SendFromDoor("code", a)

CloseLogin ==
    /\ showLoginModal /\ viewMode # "auth"
    /\ showLoginModal' = FALSE
    /\ UNCHANGED <<expired, stored, session, authTab, showAccountModal>>
    /\ GoTo(viewMode, currentTab)
    /\ FormGoes(sessionCalls)

\* The header's name and the banner about the default password.
OpenAccount ==
    /\ viewMode = "console" /\ NoDialog
    /\ showAccountModal' = TRUE
    /\ UNCHANGED <<expired, stored, place, session, pollToken, pollView, showLoginModal, door, sessionCalls>>

CloseAccount ==
    /\ showAccountModal
    /\ showAccountModal' = FALSE
    /\ UNCHANGED <<expired, stored, place, session, pollToken, pollView, showLoginModal, door, sessionCalls>>

PasswordOffered == showAccountModal /\ ~\E c \in sessionCalls : c.op = "password"

handleChangePassword ==
    /\ PasswordOffered
    /\ sessionCalls' = sessionCalls \cup Fetch("password", effectiveToken, viewMode)
    /\ UNCHANGED <<expired, stored, place, session, pollToken, pollView, dialogs>>

SessionArrivals ==
    \/ SessionAnswer \/ StartReturns \/ ApiReturns \/ SessionProfileArrives \/ UserUpdated
    \/ LoginReturns \/ LoginFails \/ CodeReturns \/ CountDown \/ PasswordReturns

SessionNext ==
    \/ SessionArrivals
    \/ /\ sessionSteps < MaxSessionSteps
       /\ sessionSteps' = sessionSteps + 1
       /\ \/ TokenExpires \/ PollFires
          \/ FromLanding \/ FromStatus \/ FromAuth \/ FromMenu \/ handleLocationChange \/ Reload
          \/ handleLogout \/ OpenWallet \/ OpenAccount \/ CloseAccount \/ handleChangePassword
          \/ handleLoginSubmit \/ handleRegisterSubmit \/ handleOAuthLogin \/ DialogOAuthLogin
          \/ handleSendCode \/ CloseLogin

SessionSpec == SessionInit /\ [][SessionNext]_sessionVars

-----------------------------------------------------------------------------
SessionTypeOK ==
    /\ {storedToken, storedUser, adminToken, adminUser, pollToken} \subseteq People \cup {NoOne}
    /\ expired \subseteq People
    /\ {viewMode, pollView} \subseteq Views /\ currentTab \in Tabs /\ authTab \in {"login", "register"}
    /\ {showLoginModal, showAccountModal} \subseteq BOOLEAN
    /\ door \in [busy : BOOLEAN, sending : BOOLEAN, countdown : 0..2]

\* In a session the console shows a tab of the administration only to an
\* account that it takes for an administrator's: whatever answers of an
\* earlier session still come, whatever hash is typed, and with whatever the
\* storage holds after a reload.
AdminTabsNeedAnAdmin ==
    viewMode = "console" /\ adminToken # NoOne /\ currentTab \in AdminOnlyTabs => adminUser \in Admins
=============================================================================
