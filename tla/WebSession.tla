----------------------------- MODULE WebSession -----------------------------
(***************************************************************************)
(* One browser's login, seen from its tabs (use-auth.ts, http.ts): who     *)
(* each tab says is signed in, the cookies the tabs share, and the calls   *)
(* under way.  A call carries the cookies there were when it was sent, and *)
(* a tab keeps what its query last returned until it asks again.  Every    *)
(* mutation first fetches a CSRF token, whose cookie the tabs share too.   *)
(*                                                                         *)
(* The API answers a call in one step here; what its transactions do to    *)
(* each other is the subject of AuthSessions.                              *)
(***************************************************************************)
EXTENDS Naturals, FiniteSets

CONSTANTS
    Tabs,
    Budget    \* bound: sign-ins, sign-outs, lost calls, overlapping refetches
              \* and cookies that expire, together

Roles == {"query", "orphan", "action"}
Slots == Tabs \X Roles
Sessions == 1 .. 2 * Budget + 2
None == 0

WebSessionAssumption == Budget \in Nat /\ Tabs # {}

VARIABLES
    row,      \* "none", "live", "revoked"
    login,    \* the sign-in a session descends from
    replaced, \* sessions that have a replaced_by_session_id
    jar,      \* the browser's cookies: access, refresh, csrf
    view,     \* what useAuthUser's query holds in a tab
    call,     \* the calls under way, by tab and by what started them
    spent     \* how much of Budget has been used
webSessionVars == <<row, login, replaced, jar, view, call, spent>>

Idle == [kind |-> "none", at |-> "none", access |-> None, refresh |-> None,
         csrf |-> FALSE, answer |-> "none", sets |-> None]

TypeOK ==
    /\ row \in [Sessions -> {"none", "live", "revoked"}]
    /\ login \in [Sessions -> Sessions \cup {None}] /\ replaced \subseteq Sessions
    /\ jar \in [access: Sessions \cup {None}, refresh: Sessions \cup {None},
                csrf: Slots \cup {<<>>}]
    /\ view \in [Tabs -> {"loading", "user", "anonymous"}]
    /\ call \in [Slots -> [kind: {"none", "me", "refresh", "signIn", "signOut", "signOutAll"},
                           at: {"none", "csrf", "ready", "sent", "answered"},
                           access: Sessions \cup {None}, refresh: Sessions \cup {None},
                           csrf: BOOLEAN, answer: {"none", "ok", "401", "403"},
                           sets: Sessions \cup {None}]]
    /\ spent \in 0 .. Budget

Live(s) == s # None /\ row[s] = "live"
Free == {s \in Sessions : row[s] = "none"}
\* (Bound: a session is made of the free ones; 2 * Budget + 2 are enough for all.)
NextFree == CHOOSE s \in Free : \A o \in Free : s <= o
Busy(t) == \E role \in Roles : call[<<t, role>>].kind # "none"
Spend == spent < Budget /\ spent' = spent + 1

Init ==
    /\ \E signedIn \in BOOLEAN :
          /\ row = [s \in Sessions |-> IF s = 1 /\ signedIn THEN "live" ELSE "none"]
          /\ login = [s \in Sessions |-> IF s = 1 /\ signedIn THEN 1 ELSE None]
          /\ jar = [access |-> None, refresh |-> IF signedIn THEN 1 ELSE None, csrf |-> <<>>]
    /\ replaced = {}
    /\ view = [t \in Tabs |-> "loading"]
    /\ call = [slot \in Slots |-> Idle] /\ spent = 0

(***************************************************************************)
(* A tab's calls.                                                          *)
(***************************************************************************)
Asking == [Idle EXCEPT !.kind = "me", !.at = "sent", !.access = jar'.access]
Mutating(kind) == [Idle EXCEPT !.kind = kind, !.at = "csrf"]

\* A new loadAuthUser.  invalidateQueries leaves one that is under way running,
\* but nobody hears its result any more.
Refetch(t, calls) ==
    [calls EXCEPT ![<<t, "query">>] = Asking,
                  ![<<t, "orphan">>] =
                      IF calls[<<t, "query">>].kind = "none" THEN @ ELSE calls[<<t, "query">>]]

\* The query mounts, its interval or the window's focus refetches it.
Interval(t) ==
    /\ ~Busy(t)
    /\ IF \E u \in Tabs : Busy(u) THEN Spend ELSE UNCHANGED spent
    /\ UNCHANGED jar
    /\ call' = Refetch(t, call)
    /\ UNCHANGED <<row, login, replaced, view>>

\* signIn and signUp of the dialog, signOut and signOutAll of the page.
Act(t, kind) ==
    /\ call[<<t, "action">>].kind = "none" /\ Spend
    /\ kind = "signIn" <=> view[t] = "anonymous"
    /\ view[t] # "loading"
    /\ call' = [call EXCEPT ![<<t, "action">>] = Mutating(kind)]
    /\ UNCHANGED <<row, login, replaced, jar, view>>

\* mutation(): the CSRF cookie arrives, then the request goes out with the jar's
\* cookies of that moment and the token it fetched in its header.
CsrfArrives(slot) ==
    /\ call[slot].at = "csrf"
    /\ jar' = [jar EXCEPT !.csrf = slot]
    /\ call' = [call EXCEPT ![slot].at = "ready"]
    /\ UNCHANGED <<row, login, replaced, view, spent>>

Send(slot) ==
    /\ call[slot].at = "ready"
    /\ call' = [call EXCEPT ![slot].at = "sent", ![slot].access = jar.access,
                            ![slot].refresh = jar.refresh,
                            ![slot].csrf = (jar.csrf = slot)]
    /\ UNCHANGED <<row, login, replaced, jar, view, spent>>

(***************************************************************************)
(* The API.                                                                *)
(***************************************************************************)
Answer(slot, answer, sets) ==
    call' = [call EXCEPT ![slot].at = "answered", ![slot].answer = answer, ![slot].sets = sets]

Revoke(some) == row' = [s \in Sessions |-> IF s \in some THEN "revoked" ELSE row[s]]

\* AccessAuthGuard: the access token names a session that is live.
Guarded(slot) == Live(call[slot].access)

ServeMe(slot) ==
    /\ call[slot].kind = "me"
    /\ Answer(slot, IF Guarded(slot) THEN "ok" ELSE "401", None)
    /\ UNCHANGED <<row, login, replaced>>

\* CsrfGuard.
ServeForbidden(slot) ==
    /\ call[slot].kind # "me" /\ ~call[slot].csrf
    /\ Answer(slot, "403", None)
    /\ UNCHANGED <<row, login, replaced>>

ServeSignIn(slot) ==
    /\ call[slot].kind = "signIn" /\ call[slot].csrf /\ Free # {}
    /\ Answer(slot, "ok", NextFree)
    /\ row' = [row EXCEPT ![NextFree] = "live"]
    /\ login' = [login EXCEPT ![NextFree] = NextFree]
    /\ UNCHANGED replaced

\* AuthService.refresh: rotate, refuse, or revoke the family of a reused token.
ServeRefresh(slot) ==
    LET token == call[slot].refresh IN
    /\ call[slot].kind = "refresh" /\ call[slot].csrf
    /\ \/ /\ Live(token) /\ Free # {}
          /\ row' = [row EXCEPT ![token] = "revoked", ![NextFree] = "live"]
          /\ login' = [login EXCEPT ![NextFree] = login[token]]
          /\ replaced' = replaced \cup {token}
          /\ Answer(slot, "ok", NextFree)
       \/ /\ ~Live(token)
          /\ Revoke(IF token \in replaced
                    THEN {s \in Sessions : login[s] = login[token]} ELSE {})
          /\ Answer(slot, "401", None)
          /\ UNCHANGED <<login, replaced>>

ServeSignOut(slot) ==
    /\ call[slot].kind \in {"signOut", "signOutAll"} /\ call[slot].csrf
    /\ IF Guarded(slot)
       THEN /\ Revoke(IF call[slot].kind = "signOut" THEN {call[slot].access}
                      ELSE {s \in Sessions : row[s] = "live"})
            /\ Answer(slot, "ok", None)
       ELSE Answer(slot, "401", None) /\ UNCHANGED row
    /\ UNCHANGED <<login, replaced>>

Serve(slot) ==
    /\ call[slot].at = "sent"
    /\ \/ ServeMe(slot) \/ ServeForbidden(slot) \/ ServeSignIn(slot)
       \/ ServeRefresh(slot) \/ ServeSignOut(slot)
    /\ UNCHANGED <<jar, view, spent>>

(***************************************************************************)
(* The answers arrive, in any order.                                       *)
(***************************************************************************)
\* loadAuthUser after a 401: try a refresh.  (..Given: give up.)
OnUnauthorizedGiven == Idle
OnUnauthorized == Mutating("refresh")

\* What the tab's query holds after result; an orphan's is not heard.
Heard(slot, result) ==
    view' = IF slot[2] = "query" THEN [view EXCEPT ![slot[1]] = result] ELSE view

Cookies(access, refresh) == jar' = [jar EXCEPT !.access = access, !.refresh = refresh]

DeliverLoad(slot) ==
    LET c == call[slot] IN
    /\ c.kind \in {"me", "refresh"}
    /\ CASE c.answer = "ok" ->
                 /\ IF c.kind = "refresh" THEN Cookies(c.sets, c.sets) ELSE UNCHANGED jar
                 /\ Heard(slot, "user")
                 /\ call' = [call EXCEPT ![slot] = Idle]
         [] c.answer = "401" /\ c.kind = "me" ->
                 /\ call' = [call EXCEPT ![slot] = OnUnauthorized]
                 /\ UNCHANGED <<jar, view>>
         [] c.answer = "401" /\ c.kind = "refresh" ->
                 /\ Heard(slot, "anonymous")
                 /\ call' = [call EXCEPT ![slot] = Idle]
                 /\ UNCHANGED jar
         [] OTHER ->                           \* the query keeps its data
                 /\ call' = [call EXCEPT ![slot] = Idle]
                 /\ UNCHANGED <<jar, view>>

\* onSuccess: set or clear the cookies, then invalidate every query.
DeliverAct(slot) ==
    LET c == call[slot]
        t == slot[1]
        after == [call EXCEPT ![slot] = Idle] IN
    /\ c.kind \in {"signIn", "signOut", "signOutAll"}
    /\ IF c.answer = "ok"
       THEN /\ call[<<t, "orphan">>].kind = "none"
            /\ Cookies(c.sets, c.sets)
            /\ view' = IF c.kind = "signIn" THEN view ELSE [view EXCEPT ![t] = "anonymous"]
            /\ call' = Refetch(t, after)
       ELSE call' = after /\ UNCHANGED <<jar, view>>

Deliver(slot) ==
    /\ call[slot].at = "answered"
    /\ DeliverLoad(slot) \/ DeliverAct(slot)
    /\ UNCHANGED <<row, login, replaced, spent>>

\* A call, or its answer, is lost: the fetch rejects.
Lose(slot) ==
    /\ call[slot].at \in {"sent", "answered"} /\ Spend
    /\ call' = [call EXCEPT ![slot] = Idle]
    /\ UNCHANGED <<row, login, replaced, jar, view>>

(***************************************************************************)
(* Time, and the user's other devices.                                     *)
(***************************************************************************)
AccessExpires ==
    /\ jar.access # None /\ Spend
    /\ jar' = [jar EXCEPT !.access = None]
    /\ UNCHANGED <<row, login, replaced, view, call>>

RevokedElsewhere ==
    /\ Spend
    /\ Revoke({s \in Sessions : row[s] = "live"})
    /\ UNCHANGED <<login, replaced, jar, view, call>>

Next ==
    \/ \E t \in Tabs :
          \/ Interval(t)
          \/ \E kind \in {"signIn", "signOut", "signOutAll"} : Act(t, kind)
    \/ \E slot \in Slots :
          CsrfArrives(slot) \/ Send(slot) \/ Serve(slot) \/ Deliver(slot) \/ Lose(slot)
    \/ AccessExpires \/ RevokedElsewhere

\* Fairness: a call that is under way goes on, and every tab asks again some time
\* (its interval does not stop when the other tab's calls keep it waiting).
Fairness ==
    /\ \A slot \in Slots :
          WF_webSessionVars(CsrfArrives(slot) \/ Send(slot) \/ Serve(slot) \/ Deliver(slot))
    /\ \A t \in Tabs : SF_webSessionVars(Interval(t))
Spec == Init /\ [][Next]_webSessionVars
FairSpec == Spec /\ Fairness

(***************************************************************************)
(* Properties.                                                             *)
(***************************************************************************)
SignedIn == Live(jar.refresh)

\* Whatever sign-ins, sign-outs, refreshes of several tabs, reused tokens, lost
\* answers and CSRF cookies did to each other, every tab comes to show the truth
\* and stays with it: the user when the browser's refresh cookie names a live
\* session, nobody when it does not.
Agree == \A t \in Tabs : view[t] = IF SignedIn THEN "user" ELSE "anonymous"
TabsAgree == <>[]Agree

=============================================================================
