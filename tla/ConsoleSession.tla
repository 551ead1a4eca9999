--------------------------- MODULE ConsoleSession ---------------------------
(***************************************************************************)
(* A browser tab on the console's security page.  The console keeps the    *)
(* access token in a cookie; its routes forward what the page asks to the  *)
(* API with the token of the cookie that came with the request.  MfaManager*)
(* runs one operation at a time; its status reads, the re-render after a   *)
(* step-up and the sign-out run beside it.  Requests are answered in any   *)
(* order and may be lost on the way there or back.  The API's handlers are *)
(* SecondFactor's, here in one step each.                                  *)
(***************************************************************************)
EXTENDS Naturals

CONSTANTS
  MaxLogins,    \* bound: sessions
  MaxClicks,    \* bound: operations and sign-outs
  NoCookie      \* no token cookie

Operations == {"enroll", "activate", "regenerate", "disable", "stepUp"}

VARIABLES
  page,         \* "login", "panel", or a redirect: "toLogin", "toConsole"
  cookie,       \* AC_TOKEN_COOKIE: [session, aal, lapses], or NoCookie
  logins,       \* how many sessions were started
  live,         \* the sessions whose tokens the API accepts
  mfa,          \* the user's factor: [on, pending, batch]
  panel,        \* the state of the mounted MfaManager
  flights,      \* requests that the tab has sent
  clicks,       \* how many operations and sign-outs it has started
  stray         \* history: a request that nobody waits for made the codes

consoleVars == <<page, cookie, logins, live, mfa, panel, flights, clicks, stray>>

Mounted(n, status, aal) ==
  [mount |-> n, status |-> status, enrolling |-> FALSE, codes |-> 0, busy |-> FALSE,
   steppedUp |-> aal >= 2]

ConsoleInit ==
  /\ page = "login"
  /\ cookie = NoCookie
  /\ logins = 0
  /\ live = {}
  /\ mfa \in [on : BOOLEAN, pending : {FALSE}, batch : {0}]
  /\ panel = Mounted(0, "unknown", 1)
  /\ flights = {}
  /\ clicks = 0
  /\ stray = FALSE

-----------------------------------------------------------------------------
(* The cookie and the pages that look at it.                               *)

MutTokenCookie(session, aal) == [session |-> session, aal |-> aal, lapses |-> FALSE]

(* tokenCookieOptions: every token cookie has a maxAge. *)
TokenCookie(session, aal) == [session |-> session, aal |-> aal, lapses |-> TRUE]

CookieExpires ==
  /\ cookie # NoCookie
  /\ cookie.lapses
  /\ cookie' = NoCookie
  /\ UNCHANGED <<page, logins, live, mfa, panel, flights, clicks, stray>>

(* LoginCard and the login route; a refused login changes nothing. *)
SignIn ==
  /\ page = "login"
  /\ logins < MaxLogins
  /\ logins' = logins + 1
  /\ live' = live \cup {logins'}
  /\ cookie' = TokenCookie(logins', 1)
  /\ page' = "toConsole"
  /\ UNCHANGED <<mfa, panel, flights, clicks, stray>>

(* LoginPage sends a browser with a cookie on to the console. *)
OpenLogin ==
  /\ page = "toLogin"
  /\ page' = IF cookie # NoCookie THEN "toConsole" ELSE "login"
  /\ UNCHANGED <<cookie, logins, live, mfa, panel, flights, clicks, stray>>

(* AccessTokenGuard accepts the token: the session was not revoked. *)
Accepts(token) == token # NoCookie /\ token.session \in live

Status == IF mfa.on THEN "on" ELSE "off"

(* ConsoleLayout and SecurityPage: no cookie or a 401 goes to the login    *)
(* page, which is also the answer when the blocklist cannot be read;       *)
(* another failure shows the page without a status.                        *)
OpenConsole ==
  /\ page = "toConsole"
  /\ \/ page' = "toLogin" /\ UNCHANGED panel
     \/ /\ Accepts(cookie)
        /\ page' = "panel"
        /\ \E status \in {Status, "unknown"} :
             panel' = Mounted(panel.mount + 1, status, cookie.aal)
  /\ UNCHANGED <<cookie, logins, live, mfa, flights, clicks, stray>>

(* The session ends elsewhere: a reset, a logout of all sessions. *)
EndSession(s) ==
  /\ s \in live
  /\ live' = live \ {s}
  /\ UNCHANGED <<page, cookie, logins, mfa, panel, flights, clicks, stray>>

-----------------------------------------------------------------------------
(* What MfaManager shows and lets the user do.                             *)

Screen ==
  IF panel.status = "unknown" THEN "unavailable"
  ELSE IF panel.codes # 0 THEN "codes"
  ELSE IF panel.enrolling THEN "enrollment"
  ELSE IF panel.status = "off" THEN "off"
  ELSE "manage"

Offered(op) ==
  CASE op = "enroll" -> Screen = "off"
    [] op = "activate" -> Screen = "enrollment"
    [] op = "stepUp" -> Screen = "manage"
    [] OTHER -> Screen = "manage" /\ panel.steppedUp

Request(op, n) ==
  [id |-> n, op |-> op, mount |-> panel.mount, token |-> cookie, reply |-> "none", data |-> 0]

MutClick(op) ==
  /\ page = "panel"
  /\ clicks < MaxClicks
  /\ Offered(op)
  /\ panel' = [panel EXCEPT !.busy = TRUE]
  /\ clicks' = clicks + 1
  /\ flights' = flights \cup {Request(op, clicks')}
  /\ UNCHANGED <<page, cookie, logins, live, mfa, stray>>

(* A button of an operation, which is disabled while one is under way. *)
Click(op) ==
  /\ page = "panel"
  /\ clicks < MaxClicks
  /\ Offered(op)
  /\ ~panel.busy
  /\ panel' = [panel EXCEPT !.busy = TRUE]
  /\ clicks' = clicks + 1
  /\ flights' = flights \cup {Request(op, clicks')}
  /\ UNCHANGED <<page, cookie, logins, live, mfa, stray>>

(* Cancel, which is not disabled, and "I have saved them". *)
Dismiss ==
  /\ page = "panel"
  /\ \/ Screen = "enrollment" /\ panel' = [panel EXCEPT !.enrolling = FALSE]
     \/ Screen = "codes" /\ panel' = [panel EXCEPT !.codes = 0]
  /\ UNCHANGED <<page, cookie, logins, live, mfa, flights, clicks, stray>>

(* handleLogout of the shell. *)
SignOut ==
  /\ page = "panel"
  /\ clicks < MaxClicks
  /\ \A f \in flights : f.op # "logout"
  /\ clicks' = clicks + 1
  /\ flights' = flights \cup {Request("logout", clicks')}
  /\ UNCHANGED <<page, cookie, logins, live, mfa, panel, stray>>

-----------------------------------------------------------------------------
(* The console's routes and the API.                                       *)

Waited(f) == page = "panel" /\ f.mount = panel.mount

(* A request that nobody waits for any more is forgotten when answered. *)
Replied(f, reply, data) ==
  flights' = (flights \ {f}) \cup
             (IF f.mount = 0 THEN {} ELSE {[f EXCEPT !.reply = reply, !.data = data]})

(* A refusal or a failure before any effect.  401: no cookie, the token is *)
(* not accepted, a wrong code of a step-up; the logout route hides both.   *)
Refuse(f) ==
  /\ f.reply = "none"
  /\ \E reply \in (IF f.op = "logout" THEN {"ok"} ELSE {"401", "error", "unavailable"}) :
       Replied(f, reply, 0)
  /\ UNCHANGED <<page, cookie, logins, live, mfa, panel, clicks, stray>>

(* Handlers that issue recovery codes. *)
Issues(f) ==
  \/ f.op = "activate" /\ mfa.pending /\ (mfa.on => f.token.aal >= 2)
  \/ f.op = "regenerate" /\ mfa.on /\ f.token.aal >= 2

ServeCodes(f) ==
  /\ f.reply = "none" /\ Accepts(f.token) /\ Issues(f)
  /\ mfa' = [on |-> TRUE, pending |-> mfa.pending /\ f.op # "activate",
             batch |-> mfa.batch + 1]
  /\ Replied(f, "ok", mfa'.batch)
  /\ stray' = ~Waited(f)
  /\ UNCHANGED <<page, cookie, logins, live, panel, clicks>>

ServeFactor(f) ==
  /\ f.reply = "none" /\ Accepts(f.token)
  /\ \/ f.op = "enroll" /\ mfa' = [mfa EXCEPT !.pending = TRUE]
     \/ f.op = "disable" /\ mfa.on /\ f.token.aal >= 2 /\ mfa' = [mfa EXCEPT !.on = FALSE]
     \/ f.op = "stepUp" /\ mfa.on /\ UNCHANGED mfa
  /\ Replied(f, "ok", 0)
  /\ UNCHANGED <<page, cookie, logins, live, panel, clicks, stray>>

(* The status read, and the page's own read when it renders again. *)
ServeRead(f) ==
  /\ f.reply = "none" /\ Accepts(f.token)
  /\ f.op \in {"status", "render"}
  /\ Replied(f, Status, 0)
  /\ UNCHANGED <<page, cookie, logins, live, mfa, panel, clicks, stray>>

(* POST /auth/logout. *)
ServeLogout(f) ==
  /\ f.reply = "none" /\ Accepts(f.token) /\ f.op = "logout"
  /\ live' = live \ {f.token.session}
  /\ Replied(f, "ok", 0)
  /\ UNCHANGED <<page, cookie, logins, mfa, panel, clicks, stray>>

-----------------------------------------------------------------------------
(* The answer reaches the browser.                                         *)

(* Set-Cookie of the step-up and logout routes, whatever the page does. *)
Cookies(f) ==
  CASE f.op = "stepUp" /\ f.reply = "ok" -> TokenCookie(f.token.session, 2)
    [] f.op = "logout" -> NoCookie
    [] OTHER -> cookie

(* What follows a success: the codes' and the factor's status is read      *)
(* again, a step-up renders the page again.                                *)
FollowUp(f) ==
  IF f.reply # "ok" \/ f.op \in {"enroll", "logout"} THEN {}
  ELSE IF f.op = "stepUp" THEN {[Request("render", f.id) EXCEPT !.token = cookie']}
  ELSE {Request("status", f.id)}

Applied(f) ==
  CASE f.op = "status" -> [panel EXCEPT !.status = f.reply]
    [] f.op = "render" -> [panel EXCEPT !.steppedUp = f.token.aal >= 2]
    [] f.op = "enroll" -> [panel EXCEPT !.busy = FALSE, !.enrolling = TRUE]
    [] f.op = "activate" -> [panel EXCEPT !.busy = FALSE, !.enrolling = FALSE, !.codes = f.data]
    [] f.op = "regenerate" -> [panel EXCEPT !.busy = FALSE, !.codes = f.data]
    [] OTHER -> [panel EXCEPT !.busy = FALSE]

(* fail: the operation is over; a failed read changes nothing. *)
Failed(f) == IF f.op \in Operations THEN [panel EXCEPT !.busy = FALSE] ELSE panel

Receive(f) ==
  /\ f.reply # "none"
  /\ cookie' = Cookies(f)
  /\ IF Waited(f)
     THEN /\ page' = IF f.reply = "401" \/ f.op = "logout" THEN "toLogin" ELSE page
          /\ panel' = CASE f.reply \in {"ok", "on", "off"} -> Applied(f)
                        [] f.reply = "401" -> panel
                        [] OTHER -> Failed(f)
          /\ flights' = (flights \ {f}) \cup FollowUp(f)
     ELSE /\ flights' = flights \ {f}
          /\ UNCHANGED <<page, panel>>
  /\ UNCHANGED <<logins, live, mfa, clicks, stray>>

(* The connection breaks: the page sees a failure, and the cookie does not *)
(* change; a request that was not served yet may still be.                 *)
Lose(f) ==
  /\ f.mount # 0
  /\ flights' = (flights \ {f}) \cup
                (IF f.reply = "none" THEN {[f EXCEPT !.mount = 0]} ELSE {})
  /\ IF Waited(f)
     THEN /\ page' = IF f.op = "logout" THEN "toLogin" ELSE page
          /\ panel' = Failed(f)
     ELSE UNCHANGED <<page, panel>>
  /\ UNCHANGED <<cookie, logins, live, mfa, clicks, stray>>

ConsoleNext ==
  \/ CookieExpires
  \/ SignIn
  \/ OpenLogin
  \/ OpenConsole
  \/ \E s \in 1 .. MaxLogins : EndSession(s)
  \/ \E op \in Operations : Click(op)
  \/ Dismiss
  \/ SignOut
  \/ \E f \in flights : Refuse(f)
  \/ \E f \in flights : ServeCodes(f)
  \/ \E f \in flights : ServeFactor(f)
  \/ \E f \in flights : ServeRead(f)
  \/ \E f \in flights : ServeLogout(f)
  \/ \E f \in flights : Receive(f)
  \/ \E f \in flights : Lose(f)

(* The browser follows redirects, and the cookie has a limited age. *)
ConsoleFairness ==
  /\ WF_consoleVars(OpenLogin \/ OpenConsole)
  /\ WF_consoleVars(CookieExpires)

-----------------------------------------------------------------------------
(***************************************************************************)
(* Recovery codes are shown once and the user keeps them: the codes on the *)
(* screen are the ones that the API accepts.  Only a request that the page *)
(* gave up or left behind, and that is served late, may have replaced them.*)
(***************************************************************************)
ShownCodesWork ==
  (page = "panel" /\ panel.codes # 0) => (panel.codes = mfa.batch \/ stray)

(***************************************************************************)
(* A browser whose token the API refuses is sent from the console to the   *)
(* login page and back for as long as it has the cookie; as the cookie has *)
(* a limited age, every redirect comes to rest on a page.                  *)
(***************************************************************************)
RedirectsSettle == page \in {"toLogin", "toConsole"} ~> page \in {"login", "panel"}
=============================================================================
