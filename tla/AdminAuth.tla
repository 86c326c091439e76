------------------------------ MODULE AdminAuth ------------------------------
(***************************************************************************)
(* The admin API's sessions and the admin client of one browser: calls     *)
(* that meet a 401, the refresh that the calls of a tab share, sign-in and *)
(* sign-out.  The tabs share the cookie jar; a response sets it only when  *)
(* it arrives.  A token stands for the session it names.                   *)
(***************************************************************************)
EXTENDS Naturals, FiniteSets

CONSTANTS Tabs,
          Calls,        \* calls, each made again and again in one of the tabs
          MaxSessions   \* bound: sessions ever created

BoundAssumption == MaxSessions \in Nat

Sessions == 1 .. MaxSessions
None == 0
Tokens == Sessions \cup {None}

VARIABLES
  tab,         \* tab[k]: the tab of call k, for good
  created,     \* the sessions 1..created exist
  revoked,     \* the sessions whose revoked_at is set
  expired,     \* the sessions whose expires_at has passed
  successor,   \* successor[s]: the sessions made by rotations of s (history variable)
  signedOut,   \* the sessions a sign-out revoked (history variable)
  jar,         \* the access and the refresh cookie
  call,        \* call[k]: where it is, the token it carries, what came back
  arriving,    \* the session of a sign-in response on its way
  delivered    \* delivered[t]: tokens t has seen rotated (history variable)

sessions == <<created, revoked, expired, successor, signedOut>>
browser == <<jar, arriving, delivered>>
adminVars == <<tab, sessions, browser, call>>

Idle == [at |-> "idle", token |-> None, again |-> FALSE, signOut |-> FALSE, made |-> None]

Init ==
  /\ tab \in [Calls -> Tabs]
  /\ created = 0 /\ revoked = {} /\ expired = {} /\ signedOut = {}
  /\ successor = [s \in Sessions |-> {}]
  /\ jar = [access |-> None, refresh |-> None]
  /\ call = [k \in Calls |-> Idle]
  /\ arriving = None
  /\ delivered = [t \in Tabs |-> {}]

Live(s) == s \in 1 .. created /\ s \notin revoked \cup expired
Create == created < MaxSessions /\ created' = created + 1
Cookies(s) == [access |-> s, refresh |-> s]
Set(k, fields) == call' = [call EXCEPT ![k] = fields]

-----------------------------------------------------------------------------
(* AdminAuthController, AdminAuthGuard, AdminAuthService                   *)

\* An administrator whose browser holds no live session signs in: the session is
\* created, and the response is on its way.
SignIn ==
  /\ ~Live(jar.refresh) /\ arriving = None /\ Create
  /\ arriving' = created'
  /\ UNCHANGED <<revoked, expired, successor, signedOut, jar, delivered, call>>

\* AdminAuthGuard, and the handlers that only read.
Guard(k) ==
  /\ call[k].at = "sent"
  /\ Set(k, [call[k] EXCEPT
       !.at = IF Live(call[k].token) /\ call[k].signOut THEN "guarded" ELSE "back",
       !.token = IF Live(@) THEN @ ELSE None])
  /\ UNCHANGED <<sessions, browser>>

\* signOut, behind the guard.
Revoke(k) ==
  LET s == call[k].token IN
  /\ call[k].at = "guarded"
  /\ revoked' = revoked \cup {s}
  /\ signedOut' = IF s \in revoked THEN signedOut ELSE signedOut \cup {s}
  /\ Set(k, [call[k] EXCEPT !.at = "back"])
  /\ UNCHANGED <<created, expired, successor, browser>>

\* refresh: what it checks before the transaction ...
Check(k) ==
  /\ call[k].at = "asked"
  /\ Set(k, [call[k] EXCEPT !.at = IF Live(call[k].token) THEN "checked" ELSE "answered"])
  /\ UNCHANGED <<sessions, browser>>

\* ... and the transaction.  (..Unchecked: without revoked_at in the WHERE.)
StillUnrevokedUnchecked(s) == TRUE
StillUnrevoked(s) == s \notin revoked

Rotate(k) ==
  LET s == call[k].token IN
  /\ call[k].at = "checked"
  /\ \/ /\ StillUnrevoked(s) /\ Create
        /\ revoked' = revoked \cup {s}
        /\ successor' = [successor EXCEPT ![s] = @ \cup {created'}]
        /\ Set(k, [call[k] EXCEPT !.at = "answered", !.made = created'])
     \/ /\ ~StillUnrevoked(s)
        /\ Set(k, [call[k] EXCEPT !.at = "answered"])
        /\ UNCHANGED <<created, revoked, successor>>
  /\ UNCHANGED <<expired, signedOut, browser>>

\* Bound: one session ever expires.
Expire(s) ==
  /\ Live(s) /\ expired = {} /\ expired' = expired \cup {s}
  /\ UNCHANGED <<created, revoked, successor, signedOut, browser, call>>

-----------------------------------------------------------------------------
(* createAdminApiClient, in each tab                                       *)

\* A call leaves with the access cookie of that moment.
Start(k, signOut) ==
  /\ call[k] = Idle
  /\ Set(k, [Idle EXCEPT !.at = "sent", !.token = jar.access, !.signOut = signOut])
  /\ UNCHANGED <<sessions, browser>>

Succeeds(k) ==
  /\ call[k].at = "back" /\ call[k].token # None
  /\ Set(k, Idle)
  /\ jar' = IF call[k].signOut THEN Cookies(None) ELSE jar
  /\ UNCHANGED <<sessions, arriving, delivered>>

\* The response is lost on its way.
Lost(k) == call[k].at = "back" /\ Set(k, Idle) /\ UNCHANGED <<sessions, browser>>

Asking == {"asking", "asked", "checked", "answered"}
\* refreshing ??= ...   (..Own: each call makes a refresh of its own.)
RefreshingOwn(t) == FALSE
Refreshing(t) == \E k \in Calls : tab[k] = t /\ call[k].at \in Asking

\* The first 401 of a call; its second is its answer.
Unauthorized(k) ==
  /\ call[k].at = "back" /\ call[k].token = None
  /\ Set(k, IF call[k].again THEN Idle
            ELSE [call[k] EXCEPT
                    !.at = IF Refreshing(tab[k]) THEN "waiting" ELSE "asking"])
  /\ UNCHANGED <<sessions, browser>>

\* http.mutation has fetched a CSRF token: the refresh leaves with its cookie.
Ask(k) ==
  /\ call[k].at = "asking"
  /\ Set(k, [call[k] EXCEPT !.at = "asked", !.token = jar.refresh])
  /\ UNCHANGED <<sessions, browser>>

\* The calls that wait for the refresh k makes, and k.
Party(k) == {m \in Calls : m = k \/ (tab[m] = tab[k] /\ call[m].at = "waiting")}
Resend(k, s) == [call[k] EXCEPT !.at = "sent", !.token = s, !.again = TRUE, !.made = None]

Refreshed(k) ==
  LET s == call[k].made IN
  /\ call[k].at = "answered" /\ s # None
  /\ jar' = Cookies(s)
  /\ delivered' = [delivered EXCEPT ![tab[k]] = @ \cup {call[k].token}]
  /\ call' = [m \in Calls |-> IF m \in Party(k) THEN Resend(m, s) ELSE call[m]]
  /\ UNCHANGED <<sessions, arriving>>

\* A refusal, a CSRF token not had, or a response lost, and its cookies with it.
RefreshFails(k) ==
  /\ call[k].at \in {"asking", "answered"}
  /\ call' = [m \in Calls |-> IF m \in Party(k) THEN Idle ELSE call[m]]
  /\ UNCHANGED <<sessions, browser>>

SignedIn ==
  /\ arriving # None
  /\ jar' = Cookies(arriving)
  /\ arriving' = None
  /\ UNCHANGED <<sessions, delivered, call>>

\* touchSignIn fails, or the response is lost.
SignInFails ==
  /\ arriving # None
  /\ arriving' = None
  /\ UNCHANGED <<sessions, jar, delivered, call>>

\* The access cookie's maxAge, which is also the lifetime of its token.
AccessLapses ==
  /\ jar.access # None
  /\ jar' = [jar EXCEPT !.access = None]
  /\ UNCHANGED <<sessions, arriving, delivered, call>>

Act ==
  \/ SignIn \/ SignedIn \/ SignInFails
  \/ \E k \in Calls :
       \/ Guard(k) \/ Revoke(k) \/ Check(k) \/ Rotate(k)
       \/ \E signOut \in BOOLEAN : Start(k, signOut)
       \/ Succeeds(k) \/ Lost(k) \/ Unauthorized(k) \/ Ask(k) \/ Refreshed(k) \/ RefreshFails(k)
  \/ \E s \in Sessions : Expire(s)
  \/ AccessLapses
Next == Act /\ UNCHANGED tab

Spec == Init /\ [][Next]_adminVars

-----------------------------------------------------------------------------
(* Properties                                                              *)

TypeOK ==
  /\ tab \in [Calls -> Tabs] /\ created \in 0 .. MaxSessions
  /\ revoked \in SUBSET Sessions /\ expired \in SUBSET Sessions
  /\ signedOut \in SUBSET Sessions
  /\ successor \in [Sessions -> SUBSET Sessions]
  /\ jar \in [access : Tokens, refresh : Tokens]
  /\ call \in [Calls -> [at : {"idle", "sent", "guarded", "back", "waiting"} \cup Asking,
                         token : Tokens, again : BOOLEAN, signOut : BOOLEAN, made : Tokens]]
  /\ arriving \in Tokens
  /\ delivered \in [Tabs -> SUBSET Sessions]

\* A refresh token is redeemed once, however many refreshes present it at the same time,
\* and a session has no successor once a sign-out has revoked it: a refresh that had
\* passed its checks before the sign-out gets nothing.
RedeemedOnce == \A s \in Sessions : Cardinality(successor[s]) <= 1
SignOutIsFinal == \A s \in signedOut : s \in revoked /\ successor[s] = {}

\* A tab never presents a refresh token again that it has already had rotated: the calls
\* of a tab whose access token lapses together do not sign their administrator out.
NoTokenPresentedAgain ==
  \A k \in Calls : call[k].at \in {"asked", "checked"}
                     => call[k].token \notin delivered[tab[k]]

AdminSessionsSound == RedeemedOnce /\ SignOutIsFinal /\ NoTokenPresentedAgain
=============================================================================
