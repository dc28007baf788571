------------------------------ MODULE AdminAuth ------------------------------
(***************************************************************************)
(* Sessions of the admin interface: AuthService, AdminAuthMiddleware and   *)
(* the part of the UI that holds the CSRF token (client.ts, App.tsx).      *)
(*                                                                         *)
(* A session lives in a signed cookie only; the server keeps nothing.      *)
(* Session n has CSRF token n.  The tabs of one browser share the cookie,  *)
(* and each keeps in memory the token it last saw.  A Set-Cookie takes     *)
(* effect when the response arrives, so a later request may overtake it.   *)
(* Authentication is enabled (with ADMIN_AUTH_ENABLED off the middleware   *)
(* lets everything pass).                                                  *)
(***************************************************************************)
EXTENDS Integers

CONSTANTS
    Tab,           \* tabs of the browser
    Modes,         \* values of ADMIN_AUTH_MODE to be looked at
    MaxSessions    \* bound: sessions made

ASSUME ModeAssumption == Modes \subseteq {"local", "sso", "both"}
ASSUME SessionAssumption == MaxSessions \in Nat

None == 0
Keep == -1         \* a response without Set-Cookie

VARIABLES
    mode,     \* ADMIN_AUTH_MODE
    cookie,   \* the session in the browser's cookie
    live,     \* sessions that have not expired
    made,     \* sessions made so far
    tab,      \* what each tab shows and knows
    reply,    \* the response on its way to each tab
    left      \* history: sessions the browser has logged out of

authVars == <<mode, cookie, live, made, tab, reply, left>>

Session == 1..MaxSessions
NoReply == [kind |-> "none", cookie |-> Keep, csrf |-> None]

Shown == [screen : {"loading", "login", "app"}, csrf : Session \cup {None},
          error : BOOLEAN]
Response == [kind : {"none", "session", "login", "logout", "reject", "list"},
             cookie : Session \cup {None, Keep}, csrf : Session \cup {None}]

AuthTypeOK ==
    /\ mode \in Modes
    /\ cookie \in Session \cup {None}
    /\ live \subseteq Session
    /\ made \in 0..MaxSessions
    /\ tab \in [Tab -> Shown]
    /\ reply \in [Tab -> Response]
    /\ left \subseteq Session

AuthInit ==
    /\ mode \in Modes
    /\ cookie = None /\ live = {} /\ made = 0 /\ left = {}
    /\ tab = [t \in Tab |-> [screen |-> "loading", csrf |-> None, error |-> FALSE]]
    /\ reply = [t \in Tab |-> NoReply]

-----------------------------------------------------------------------------
(***************************************************************************)
(* AuthService.                                                            *)
(***************************************************************************)
\* Signature and expiresAt are good.
ReadSession == IF cookie \in live THEN cookie ELSE None

CreateSession ==
    /\ made < MaxSessions
    /\ made' = made + 1
    /\ live' = live \cup {made'}

Answer(t, kind, newCookie, csrf) ==
    reply' = [reply EXCEPT ![t] =
                 [kind |-> kind, cookie |-> newCookie, csrf |-> csrf]]

Quiet(t) == reply[t].kind = "none"

SessionStatus(t) == Answer(t, "session", Keep, ReadSession)

\* GET /auth/session, when the page is loaded and after a logout.
FetchAuthSession(t) ==
    /\ tab[t].screen = "loading" /\ Quiet(t)
    /\ SessionStatus(t)
    /\ UNCHANGED <<mode, cookie, live, made, tab, left>>

\* Credentials that are refused change nothing.
LoginLocal(t) ==
    /\ tab[t].screen = "login" /\ Quiet(t)
    /\ mode # "sso"
    /\ CreateSession
    /\ Answer(t, "login", made', made')
    /\ UNCHANGED <<mode, cookie, tab, left>>

\* A trusted proxy vouches for an allowed user.
LoginSso(t) ==
    /\ tab[t].screen = "login" /\ Quiet(t)
    /\ mode # "local"
    /\ CreateSession
    /\ Answer(t, "login", made', made')
    /\ UNCHANGED <<mode, cookie, tab, left>>

Logout(t) ==
    /\ tab[t].screen = "app" /\ Quiet(t)
    /\ Answer(t, "logout", None, None)
    /\ UNCHANGED <<mode, cookie, live, made, tab, left>>

\* authenticateRequest: the session of a request under /admin.  Behind a
\* trusted proxy a request without one gets a new session on the way.
Authenticated(session, newCookie) ==
    \/ /\ session = ReadSession /\ session # None
       /\ newCookie = Keep
       /\ UNCHANGED <<made, live>>
    \/ /\ ReadSession = None /\ mode # "local"
       /\ CreateSession
       /\ session = made' /\ newCookie = made'
    \/ /\ ReadSession = None           \* local, or no trusted identity
       /\ session = None /\ newCookie = Keep
       /\ UNCHANGED <<made, live>>

VerifyCsrf(t, session) == tab[t].csrf # None /\ tab[t].csrf = session

\* The middleware: 401, or 403 for a method that is not safe.
Refused(t, newCookie) == Answer(t, "reject", newCookie, None)

-----------------------------------------------------------------------------
(***************************************************************************)
(* The browser.                                                            *)
(***************************************************************************)
\* Mutant: the clearing Set-Cookie is not honoured.
CookieAfterKept(t) == IF reply[t].cookie \in {Keep, None} THEN cookie
                      ELSE reply[t].cookie

CookieAfter(t) == IF reply[t].cookie = Keep THEN cookie ELSE reply[t].cookie

\* Mutant: fetchAuthSession forgets to keep the token.
TabAfterNoToken(t) ==
    LET r == reply[t]
    IN  CASE r.kind = "session" ->
                [tab[t] EXCEPT !.screen = IF r.csrf = None THEN "login" ELSE "app"]
          [] r.kind = "login" -> [tab[t] EXCEPT !.csrf = r.csrf, !.screen = "app"]
          [] r.kind = "logout" ->
                [tab[t] EXCEPT !.csrf = None, !.screen = "loading", !.error = FALSE]
          [] r.kind = "reject" -> [tab[t] EXCEPT !.error = TRUE]
          [] OTHER -> tab[t]

TabAfter(t) ==
    LET r == reply[t]
    IN  CASE r.kind \in {"session", "login"} ->
                [tab[t] EXCEPT !.csrf = r.csrf,
                               !.screen = IF r.csrf = None THEN "login" ELSE "app"]
          [] r.kind = "logout" ->
                [tab[t] EXCEPT !.csrf = None, !.screen = "loading", !.error = FALSE]
          [] r.kind = "reject" -> [tab[t] EXCEPT !.error = TRUE]
          [] OTHER -> tab[t]

Deliver(t) ==
    /\ ~Quiet(t)
    /\ cookie' = CookieAfter(t)
    /\ tab' = [tab EXCEPT ![t] = TabAfter(t)]
    /\ reply' = [reply EXCEPT ![t] = NoReply]
    /\ left' = IF reply[t].kind = "logout" THEN left \cup ({cookie} \ {None})
               ELSE left
    /\ UNCHANGED <<mode, live, made>>

\* The page is loaded anew: the token is gone with the page.
ReloadTab(t) ==
    /\ tab[t].screen # "loading" /\ Quiet(t)
    /\ tab' = [tab EXCEPT ![t] = [screen |-> "loading", csrf |-> None,
                                  error |-> FALSE]]
    /\ UNCHANGED <<mode, cookie, live, made, reply, left>>

\* The browser drops the cookie by its own clock, before or after.
Expire(n) ==
    /\ n \in live
    /\ live' = live \ {n}
    /\ cookie' \in {cookie, IF cookie = n THEN None ELSE cookie}
    /\ UNCHANGED <<mode, made, tab, reply, left>>

\* What the tab knows is what the server will check.
Usable(t) == tab[t].screen = "app" /\ VerifyCsrf(t, ReadSession)
=============================================================================
