------------------------------ MODULE LocalAuth ------------------------------
(***************************************************************************)
(* Authentication of the runtime and admin routes: one configured token,   *)
(* given as a bearer header or as the cookie that POST /admin/login sets   *)
(* in a browser.  The server keeps no session: the cookie is the token.    *)
(* Rotating the token, and allowing peers other than loopback, needs a     *)
(* restart.  A browser keeps its cookie until it is deleted or too old.    *)
(***************************************************************************)
EXTENDS Naturals, FiniteSets

CONSTANTS
  Tokens,       \* well-formed bearer tokens
  Strong,       \* those of at least 32 characters
  Browsers,     \* clients, each on a loopback or on another address
  MaxAge,       \* bound: time units in the cookie's Max-Age of 12 hours
  MaxRestarts   \* bound

VARIABLES
  server,       \* the configuration the running process has read
  peer,         \* where each browser connects from
  knows,        \* tokens the browser's user has been told
  jar,          \* the browser's admin_token cookie and its age
  session,      \* time since the browser's last login, or none
  last,         \* the last request and what became of it
  restarts

vars == <<server, peer, knows, jar, session, last, restarts>>

NoToken == "none"
Malformed == "malformed"
NoCookie == [token |-> NoToken, age |-> 0]
NoSession == MaxAge + 1
Peers == {"127.0.0.1", "::1", "::ffff:127.0.0.1", "localhost", "192.0.2.1"}
Loopback == {"127.0.0.1", "::1", "::ffff:127.0.0.1"}
Paths == {"/admin", "/v1/runtime"}

TokenAssumption ==
  /\ Strong \subseteq Tokens
  /\ NoToken \notin Tokens /\ Malformed \notin Tokens
  /\ MaxAge \in Nat \ {0} /\ MaxRestarts \in Nat

\* create_app refuses to start with remote access and a short token.
Startable(c) == c.allow_remote => c.token \in Strong

Configurations == {c \in [token : Tokens \cup {NoToken}, allow_remote : BOOLEAN] :
                     Startable(c)}

Nobody == [who |-> NoToken, how |-> "none", token |-> NoToken, status |-> 0]

Init ==
  /\ server \in Configurations
  /\ peer \in [Browsers -> {"127.0.0.1", "192.0.2.1"}]
  /\ knows \in [Browsers -> SUBSET Tokens]
  /\ jar = [b \in Browsers |-> NoCookie]
  /\ session = [b \in Browsers |-> NoSession]
  /\ last = Nobody
  /\ restarts = 0

----------------------------------------------------------------------------
\* The provider.

is_loopback_peer(host) == host \in Loopback

verify_token(token) == token \in Tokens /\ token = server.token

\* Headers: none, several or malformed ones count as no header at all.
_strict_bearer_token(header) == IF header \in Tokens THEN header ELSE NoToken

Supplied(header, cookie) ==
  IF _strict_bearer_token(header) # NoToken THEN _strict_bearer_token(header)
  ELSE cookie

\* authenticate, called by current_principal: the status of the response.
authenticate(host, header, cookie) ==
  IF server.token = NoToken THEN 401
  ELSE IF ~server.allow_remote /\ ~is_loopback_peer(host) THEN 403
  ELSE IF verify_token(Supplied(header, cookie)) THEN 200 ELSE 401

----------------------------------------------------------------------------
\* Routes.

\* The cookie has Path=/admin: the browser sends it nowhere else.
CookieFor(b, path) == IF path = "/admin" THEN jar[b].token ELSE NoToken

\* A user sends a token they know, no header, or something that is not one.
Headers(b) == knows[b] \cup {NoToken, Malformed}

Request(b, path) ==
  \E header \in Headers(b) :
    LET cookie == CookieFor(b, path)
    IN  /\ last' = [who |-> b,
                    how |-> IF _strict_bearer_token(header) # NoToken THEN "header"
                            ELSE "cookie",
                    token |-> Supplied(header, cookie),
                    status |-> authenticate(peer[b], header, cookie)]
        /\ UNCHANGED <<server, peer, knows, jar, session, restarts>>

\* A body that declares more than 4096 bytes is not read.
LoginStatus(b, token, large) ==
  IF server.token = NoToken THEN 401
  ELSE IF ~server.allow_remote /\ ~is_loopback_peer(peer[b]) THEN 403
  ELSE IF large THEN 413
  ELSE IF verify_token(token) THEN 200 ELSE 401

Login(b) ==
  \E token \in Headers(b), large \in BOOLEAN :
    /\ last' = [who |-> b, how |-> "login", token |-> token,
                status |-> LoginStatus(b, token, large)]
    /\ IF LoginStatus(b, token, large) = 200
       THEN /\ jar' = [jar EXCEPT ![b] = [token |-> token, age |-> 0]]
            /\ session' = [session EXCEPT ![b] = 0]
       ELSE UNCHANGED <<jar, session>>
    /\ UNCHANGED <<server, peer, knows, restarts>>

\* Fault: the cookie is kept.
LoggedOutKeeps(b) == UNCHANGED jar

LoggedOut(b) == jar' = [jar EXCEPT ![b] = NoCookie]

\* Logging out needs credentials itself; it clears the browser's cookie.
Logout(b) ==
  \E header \in Headers(b) :
    LET status == authenticate(peer[b], header, jar[b].token)
    IN  /\ last' = [who |-> b, how |-> "logout",
                    token |-> Supplied(header, jar[b].token), status |-> status]
        /\ IF status = 200
           THEN LoggedOut(b) /\ session' = [session EXCEPT ![b] = NoSession]
           ELSE UNCHANGED <<jar, session>>
        /\ UNCHANGED <<server, peer, knows, restarts>>

----------------------------------------------------------------------------
\* Surroundings.

Expired(cookie) == cookie.age >= MaxAge

Passes ==
  /\ jar' = [b \in Browsers |->
       IF jar[b] = NoCookie \/ Expired(jar[b]) THEN NoCookie
       ELSE [jar[b] EXCEPT !.age = @ + 1]]
  /\ session' = [b \in Browsers |->
       IF session[b] < NoSession THEN session[b] + 1 ELSE NoSession]
  /\ last' = Nobody
  /\ UNCHANGED <<server, peer, knows, restarts>>

\* The operator restarts the process, with another token or the same one.
Restart ==
  /\ restarts < MaxRestarts
  /\ restarts' = restarts + 1
  /\ server' \in Configurations
  /\ last' = Nobody
  /\ UNCHANGED <<peer, knows, jar, session>>

Next ==
  \/ \E b \in Browsers : \/ \E path \in Paths : Request(b, path)
                         \/ Login(b) \/ Logout(b)
  \/ Passes
  \/ Restart

Spec == Init /\ [][Next]_vars

----------------------------------------------------------------------------
\* Properties.

Granted == last.status = 200

\* Configuration, cookies and sessions have the values the code gives them.
TypeOK ==
  /\ server \in Configurations
  /\ peer \in [Browsers -> Peers]
  /\ knows \in [Browsers -> SUBSET Tokens]
  /\ jar \in [Browsers -> [token : Tokens \cup {NoToken}, age : 0 .. MaxAge]]
  /\ session \in [Browsers -> 0 .. NoSession]
  /\ last.status \in {0, 200, 401, 403, 413}
  /\ restarts \in 0 .. MaxRestarts

\* "All existing browser session cookies and bearer clients are immediately
\* invalidated": whoever gets in, by header, cookie or login, has been told
\* the token of the process that is running now, whatever restarts and
\* sessions came before.
RotationRevokes == Granted => server.token \in knows[last.who]

\* Only loopback peers get in unless remote access is on, and then only with
\* a long token: also for cookies that were set before a restart.
RemoteNeedsStrongToken ==
  (Granted /\ ~is_loopback_peer(peer[last.who]))
    => server.allow_remote /\ server.token \in Strong

\* A cookie gets its browser in only between a login and the logout, and not
\* longer than its Max-Age: never on the strength of an earlier session.
CookieNeedsSession ==
  (Granted /\ last.how = "cookie") => session[last.who] <= MaxAge

\* Nobody gets in on the strength of an earlier configuration or session.
SessionsHonoured ==
  /\ TypeOK
  /\ RotationRevokes
  /\ RemoteNeedsStrongToken
  /\ CookieNeedsSession
=============================================================================
