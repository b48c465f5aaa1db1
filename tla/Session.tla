-------------------------------- MODULE Session --------------------------------
(***************************************************************************)
(* Who is signed in: AuthProvider.tsx, the login page, the guard of the    *)
(* app's layout, lib/api.ts, and the auth routes and middleware.  Sessions *)
(* are stateless tokens, kept twice: in an httpOnly cookie, which a        *)
(* browser may refuse, and in local storage, sent as a Bearer header.  One *)
(* tab; tokens do not expire, and a reply comes whole or not at all.       *)
(***************************************************************************)
EXTENDS Naturals, FiniteSets

CONSTANTS
    Users,
    MaxLogins, MaxReloads,   \* bounds
    Nobody                   \* no token, no user

ASSUME SessionAssumption == Nobody \notin Users /\ MaxLogins \in Nat /\ MaxReloads \in Nat

VARIABLES
    cookie,      \* the session cookie
    token,       \* localStorage
    blocked,     \* the browser refuses the cookie
    user,        \* AuthProvider's user
    authStatus,  \* AuthProvider's status
    busy,        \* the login page's busy
    calls,       \* the requests under way
    logins, reloads,   \* bounds: attempts so far
    late,        \* a sign-in or sign-out took effect with a /me under way
    signedOut    \* the last sign-out was answered, and no sign-in followed

sessionVars == <<cookie, token, blocked, user, authStatus, busy, calls, logins,
                 reloads, late, signedOut>>

Accounts == Users \cup {Nobody}

\* A request carries the credentials of the moment it is sent.
Call(kind, who, n) ==
    [kind |-> kind, cookie |-> cookie, token |-> token, who |-> who, n |-> n]
Pending(kind) == { c \in calls : c.kind = kind }

\* The guard of the layout: the app's pages are there for a signed-in user.
InApp == authStatus = "authenticated"

\* readToken: the cookie first, then the Bearer header.
Identified(c, t) == IF c # Nobody THEN c ELSE t

SessionTypeOK ==
    /\ { cookie, token, user } \subseteq Accounts
    /\ { blocked, busy, late, signedOut } \subseteq BOOLEAN
    /\ authStatus \in { "loading", "authenticated", "unauthenticated" }
    /\ authStatus = "authenticated" <=> user # Nobody
    /\ \A c \in calls : /\ c.kind \in { "me", "login", "logout" }
                        /\ { c.cookie, c.token, c.who } \subseteq Accounts
    /\ logins \in 0 .. MaxLogins /\ reloads \in 0 .. MaxReloads

\* A failed sign-out leaves a cookie without a stored token.
SessionInit ==
    /\ blocked \in BOOLEAN
    /\ cookie \in (IF blocked THEN {Nobody} ELSE Accounts)
    /\ token \in (IF blocked THEN Accounts ELSE { cookie, Nobody })
    /\ user = Nobody /\ authStatus = "loading" /\ busy = FALSE
    /\ calls = { Call("me", Nobody, 0) }
    /\ logins = 0 /\ reloads = 0 /\ late = FALSE /\ signedOut = FALSE

\* Mutant: the status does not follow a missing user.
MutSetUser(who) == user' = who /\ authStatus' = "authenticated"

SetUser(who) ==
    /\ user' = who
    /\ authStatus' = IF who = Nobody THEN "unauthenticated" ELSE "authenticated"

-------------------------------------------------------------------------------
(* refresh, on mount *)

MeArrives(c) ==
    /\ c.kind = "me"
    /\ calls' = calls \ {c}
    /\ SetUser(Identified(c.cookie, c.token))
    /\ busy' = (busy /\ user' = Nobody)
    /\ UNCHANGED <<cookie, token, blocked, logins, reloads, late, signedOut>>

\* Any failure: no session, no such account, no network, an error of the server.
MeFails(c) ==
    /\ c.kind = "me"
    /\ calls' = calls \ {c}
    /\ SetUser(Nobody)
    /\ UNCHANGED <<cookie, token, blocked, busy, logins, reloads, late, signedOut>>

\* The page is loaded again; calls under way are dropped.
Reload ==
    /\ reloads < MaxReloads
    /\ reloads' = reloads + 1
    /\ user' = Nobody /\ authStatus' = "loading" /\ busy' = FALSE
    /\ calls' = { Call("me", Nobody, 0) }
    /\ late' = FALSE
    /\ UNCHANGED <<cookie, token, blocked, logins, signedOut>>

-------------------------------------------------------------------------------
(* The login page: handleCredential, handleEmailLogin *)

\* Signed in, the page leaves for the app.
Login(who) ==
    /\ logins < MaxLogins
    /\ ~InApp /\ ~busy
    /\ logins' = logins + 1
    /\ busy' = TRUE
    /\ calls' = calls \cup { Call("login", who, logins') }
    /\ UNCHANGED <<cookie, token, blocked, user, authStatus, reloads, late, signedOut>>

\* Mutant: the token is not stored.
MutStored(who) == token

\* loginWithGoogle, devLogin: the token of the reply is stored.
Stored(who) == who

\* The response sets the cookie; the page stores the token and the user.
LoginArrives(c) ==
    /\ c.kind = "login"
    /\ calls' = calls \ {c}
    /\ cookie' = IF blocked THEN Nobody ELSE c.who
    /\ token' = Stored(c.who)
    /\ SetUser(c.who)
    /\ busy' = FALSE
    /\ late' = (late \/ Pending("me") # {})
    /\ signedOut' = FALSE
    /\ UNCHANGED <<blocked, logins, reloads>>

LoginFails(c) ==
    /\ c.kind = "login"
    /\ calls' = calls \ {c}
    /\ busy' = (busy /\ c.n # logins)
    /\ UNCHANGED <<cookie, token, blocked, user, authStatus, logins, reloads, late,
                   signedOut>>

-------------------------------------------------------------------------------
(* The app: its guard, and logout *)

Logout ==
    /\ InApp
    /\ Pending("logout") = {}
    /\ calls' = calls \cup { Call("logout", Nobody, 0) }
    /\ UNCHANGED <<cookie, token, blocked, user, authStatus, busy, logins, reloads,
                   late, signedOut>>

\* Mutant: the stored token survives.
MutForgotten == token

\* The finally of api.logout.
Forgotten == Nobody

LogoutArrives(c) ==
    /\ c.kind = "logout"
    /\ calls' = calls \ {c}
    /\ cookie' = Nobody
    /\ token' = Forgotten
    /\ SetUser(Nobody)
    /\ late' = (late \/ Pending("me") # {})
    /\ signedOut' = TRUE
    /\ UNCHANGED <<blocked, busy, logins, reloads>>

\* The page forgets the user all the same; the cookie stays.
LogoutFails(c) ==
    /\ c.kind = "logout"
    /\ calls' = calls \ {c}
    /\ token' = Forgotten
    /\ SetUser(Nobody)
    /\ late' = (late \/ Pending("me") # {})
    /\ signedOut' = FALSE
    /\ UNCHANGED <<cookie, blocked, busy, logins, reloads>>

SessionNext ==
    \/ Reload \/ Logout
    \/ \E who \in Users : Login(who)
    \/ \E c \in calls : \/ MeArrives(c) \/ MeFails(c)
                        \/ LoginArrives(c) \/ LoginFails(c)
                        \/ LogoutArrives(c) \/ LogoutFails(c)

-------------------------------------------------------------------------------
(* Properties *)

\* The user the app shows is the one the API serves: the two places that keep
\* the session, and the page, never name different people, through failed and
\* overlapping sign-ins and sign-outs, with and without cookies.  Only the
\* answer to a /me that a sign-in or sign-out overtook breaks this.
ShownUserIsServed ==
    InApp /\ ~late => Identified(cookie, token) = user

\* After an answered sign-out nothing brings the user back but a sign-in: no
\* reload, and no reply still under way, with the same exception.
SignedOutMeansOut ==
    signedOut /\ ~late =>
        ~InApp /\ Identified(cookie, token) = Nobody
===============================================================================
