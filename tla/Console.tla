--------------------------------- MODULE Console ---------------------------------
(***************************************************************************)
(* The browser's page: the session AuthContext keeps, with the server's    *)
(* checks of its token, and the socket useWebSocket keeps for it. The page *)
(* can be reloaded at any time; the token survives in sessionStorage.      *)
(* Answers to the check that a load starts may come after a login. The     *)
(* effect that opens the socket ends when the page is signed out or the    *)
(* preferences change; what it has begun by then goes on by itself.        *)
(***************************************************************************)
EXTENDS Naturals

CONSTANTS
    Tokens,         \* the tokens the server will issue
    NoToken,
    MaxRetries,     \* ten
    MaxLoads,       \* bound: loads of the page
    MaxEffects,     \* bound: runs of the effect in one page
    MaxOutages      \* bound: requests without an answer, and sockets that close

ASSUME ConsoleAssumption ==
    NoToken \notin Tokens /\ {MaxRetries, MaxLoads, MaxEffects, MaxOutages} \subseteq Nat

VARIABLES
    issued, expired,    \* the server's tokens
    stored,         \* sessionStorage
    memoryToken,    \* what requests are sent with
    shown,          \* the token of the user who is shown as signed in, or NoToken
    check,          \* the request to /me of this load: [step, token, restored, retry]
    login,          \* the request of the login form: "no", "sent", "again"
    onLogin,        \* whether the page was opened at the login form
    effect,         \* the effect that is mounted, or 0
    effects,        \* how many there were in this page
    link,           \* effect -> the socket it made last, or its timer
    wsRef,          \* the effect that made the newest socket
    retryCount,
    crossed,        \* history: whether a login was answered before this load's check
    closings,       \* history: closings in a row, no socket having opened
    loads, outages

sessionVars == <<stored, memoryToken, shown, check, login, onLogin, crossed>>
socketVars == <<effect, effects, link, wsRef, retryCount, closings>>
consoleVars == <<issued, expired, sessionVars, socketVars, loads, outages>>

isAuthenticated == shown # NoToken
Unchecked == [step |-> "none", token |-> NoToken, restored |-> FALSE, retry |-> FALSE]
Effects == 1 .. MaxEffects

-----------------------------------------------------------------------------
(* The session *)

\* A token persisted by an earlier load is taken as it is, and checked.
LoadPage ==
    /\ loads < MaxLoads
    /\ memoryToken' = stored
    /\ shown' = stored
    /\ check' = [step |-> "sent", token |-> stored, restored |-> stored # NoToken,
                 retry |-> FALSE]
    /\ login' = "no"
    /\ onLogin' \in BOOLEAN
    /\ crossed' = FALSE
    /\ effect' = 0
    /\ effects' = 0
    /\ link' = [e \in Effects |-> "none"]
    /\ wsRef' = 0
    /\ retryCount' = 0
    /\ closings' = 0
    /\ loads' = loads + 1
    /\ UNCHANGED <<issued, expired, stored, outages>>

\* decode_token, get_current_user
Valid(t) == t \in issued \ expired

CheckPasses ==
    /\ check.step = "sent"
    /\ Valid(check.token)
    /\ shown' = check.token
    /\ check' = Unchecked
    /\ UNCHANGED <<issued, expired, stored, memoryToken, login, onLogin, crossed>>
    /\ UNCHANGED <<socketVars, loads, outages>>

\* Mutant: a refused token is left in the storage.
ForgetsNothing == stored

\* The catch of the check: only that of a restored token empties the storage.
Forgotten == IF check.restored THEN NoToken ELSE stored

SignOut ==
    /\ stored' = Forgotten
    /\ memoryToken' = NoToken
    /\ shown' = NoToken
    /\ check' = Unchecked
    /\ UNCHANGED <<issued, expired, login, onLogin, crossed, socketVars, loads>>

CheckRefused ==
    /\ check.step = "sent"
    /\ ~Valid(check.token)
    /\ SignOut
    /\ UNCHANGED outages

\* No answer, or 5xx: asked once more after a second, with the token there is
\* then, if any. The second time it counts as refused.
CheckFails ==
    /\ check.step = "sent"
    /\ outages < MaxOutages
    /\ outages' = outages + 1
    /\ IF check.retry
       THEN SignOut
       ELSE /\ check' = [check EXCEPT !.step = "again", !.retry = TRUE]
            /\ UNCHANGED <<issued, expired, stored, memoryToken, shown, login, onLogin, crossed>>
            /\ UNCHANGED <<socketVars, loads>>

CheckAgain ==
    /\ check.step = "again"
    /\ check' = [check EXCEPT !.step = "sent",
                              !.token = IF memoryToken # NoToken THEN memoryToken ELSE @]
    /\ UNCHANGED <<issued, expired, stored, memoryToken, shown, login, onLogin, crossed>>
    /\ UNCHANGED <<socketVars, loads, outages>>

\* The form is there, ProtectedRoute having led to it unless it was opened.
\* It waits for its answer, and is left when that is a token.
Submit ==
    /\ loads > 0
    /\ login = "no"
    /\ onLogin \/ (~isAuthenticated /\ check.step = "none")
    /\ login' = "sent"
    /\ UNCHANGED <<issued, expired, stored, memoryToken, shown, check, onLogin, crossed>>
    /\ UNCHANGED <<socketVars, loads, outages>>

LoginAccepted(t) ==
    /\ login \in {"sent", "again"}
    /\ t \notin issued
    /\ issued' = issued \union {t}
    /\ stored' = t
    /\ memoryToken' = t
    /\ shown' = t
    /\ login' = "no"
    /\ onLogin' = FALSE
    /\ crossed' = (crossed \/ check.step # "none")
    /\ UNCHANGED <<expired, check, socketVars, loads, outages>>

LoginRefused ==
    /\ login \in {"sent", "again"}
    /\ login' = "no"
    /\ UNCHANGED <<issued, expired, stored, memoryToken, shown, check, onLogin, crossed>>
    /\ UNCHANGED <<socketVars, loads, outages>>

LoginFails ==
    /\ login = "sent"
    /\ outages < MaxOutages
    /\ outages' = outages + 1
    /\ login' = "again"
    /\ UNCHANGED <<issued, expired, stored, memoryToken, shown, check, onLogin, crossed>>
    /\ UNCHANGED <<socketVars, loads>>

\* After eight hours.
Expire(t) ==
    /\ t \in issued \ expired
    /\ expired' = expired \union {t}
    /\ UNCHANGED <<issued, sessionVars, socketVars, loads, outages>>

-----------------------------------------------------------------------------
(* The socket *)

\* The cleanup stops the effect's timer, and closes the newest socket. Its
\* onclose comes later, and starts a timer that nobody stops.
Cleaned ==
    LET stopped == [link EXCEPT ![effect] = IF @ = "waiting" THEN "none" ELSE @]
    IN  [stopped EXCEPT ![wsRef] = IF @ \in {"connecting", "open"} THEN "closing" ELSE @]

Connect(e, links) ==
    /\ link' = [links EXCEPT ![e] = "connecting"]
    /\ wsRef' = e

StartEffect(links) ==
    /\ effects < MaxEffects
    /\ effects' = effects + 1
    /\ effect' = effects + 1
    /\ Connect(effects + 1, links)

\* React runs the effect after a rendering in which isAuthenticated has changed,
\* or, with the preferences, notify.
RunEffect ==
    /\ \/ /\ isAuthenticated
          /\ effect = 0
          /\ StartEffect(link)
       \/ /\ isAuthenticated
          /\ effect # 0
          /\ StartEffect(Cleaned)
       \/ /\ ~isAuthenticated
          /\ effect # 0
          /\ effect' = 0
          /\ link' = Cleaned
          /\ UNCHANGED <<effects, wsRef>>
    /\ UNCHANGED <<issued, expired, sessionVars, retryCount, closings, loads, outages>>

\* Mutant: the retries since the page was loaded count.
NeverReset == retryCount

RetriesAfterOpen == 0

\* onopen
SocketOpens(e) ==
    /\ link[e] = "connecting"
    /\ link' = [link EXCEPT ![e] = "open"]
    /\ retryCount' = RetriesAfterOpen
    /\ closings' = 0
    /\ UNCHANGED <<issued, expired, sessionVars, effect, effects, wsRef, loads, outages>>

\* onclose: of a socket the page has closed, or the server, or the network.
SocketCloses(e) ==
    /\ \/ /\ link[e] = "closing"
          /\ UNCHANGED outages
       \/ /\ link[e] \in {"connecting", "open"}
          /\ outages < MaxOutages
          /\ outages' = outages + 1
    /\ closings' = closings + 1
    /\ IF retryCount < MaxRetries
       THEN /\ retryCount' = retryCount + 1
            /\ link' = [link EXCEPT ![e] = "waiting"]
       ELSE /\ link' = [link EXCEPT ![e] = "given up"]
            /\ UNCHANGED retryCount
    /\ UNCHANGED <<issued, expired, sessionVars, effect, effects, wsRef, loads>>

\* Three seconds later.
TimerFires(e) ==
    /\ link[e] = "waiting"
    /\ Connect(e, link)
    /\ UNCHANGED <<issued, expired, sessionVars, effect, effects, retryCount, closings>>
    /\ UNCHANGED <<loads, outages>>

ConsoleInit ==
    /\ issued = {}
    /\ expired = {}
    /\ stored = NoToken
    /\ memoryToken = NoToken
    /\ shown = NoToken
    /\ check = Unchecked
    /\ login = "no"
    /\ onLogin = FALSE
    /\ crossed = FALSE
    /\ effect = 0
    /\ effects = 0
    /\ link = [e \in Effects |-> "none"]
    /\ wsRef = 0
    /\ retryCount = 0
    /\ closings = 0
    /\ loads = 0
    /\ outages = 0

ConsoleNext ==
    \/ LoadPage
    \/ CheckPasses
    \/ CheckRefused
    \/ CheckFails
    \/ CheckAgain
    \/ Submit
    \/ LoginRefused
    \/ LoginFails
    \/ \E t \in Tokens : LoginAccepted(t) \/ Expire(t)
    \/ RunEffect
    \/ \E e \in Effects : SocketOpens(e) \/ SocketCloses(e) \/ TimerFires(e)

ConsoleSpec == ConsoleInit /\ [][ConsoleNext]_consoleVars

-----------------------------------------------------------------------------
(* Properties *)

\* A user is shown as signed in exactly if the page has a token, in memory and
\* for the next load, and it is his: unless a login was answered before the
\* check of this load, whose answer then undoes it or shows the user before.
SessionIsWhole ==
    ~crossed => /\ memoryToken = shown
                /\ loads > 0 => stored = shown

\* While its effect is mounted, the page has a socket or is to make one, be it
\* one that an earlier effect left behind, unless more of them have closed in a
\* row than may be retried; and none of the effect's own is closed by the page.
Live == {"connecting", "open", "waiting"}
HookKeepsListening ==
    effect # 0 =>
        /\ link[effect] # "closing"
        /\ (\E e \in Effects : link[e] \in Live) \/ closings > MaxRetries

SignedInPagesWork == SessionIsWhole /\ HookKeepsListening

=============================================================================
