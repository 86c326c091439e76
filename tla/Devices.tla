------------------------------- MODULE Devices -------------------------------
(***************************************************************************)
(* The account page: the sessions of a user's devices, listed and revoked  *)
(* from one of them (account-page.tsx, auth.controller.ts) while all of    *)
(* them sign in and out and rotate their sessions.  A request passes the   *)
(* guard first, which looks its own session up, and acts in a later query. *)
(***************************************************************************)
EXTENDS Naturals

CONSTANTS Here,         \* the browser the page is open in
          Others,       \* the user's other devices
          MaxSessions   \* bound: sessions created in all

DevicesAssumption == Here \notin Others /\ MaxSessions \in Nat \ {0}

Devices == Others \cup {Here}
Sessions == 1 .. MaxSessions
None == 0

VARIABLES
  created,   \* sessions 1 to created are there ...
  device,    \* ... each created on a device, Here before there are others
  live,      \* those that are neither revoked nor expired
  access,    \* the session of the access cookie of the page's browser
  list,      \* the sessions on the page: which, and which is marked as this device
  fetch,     \* the loading of the list
  revoke,    \* the revocation under way; there is one at a time
  page,      \* "user", or "nobody" after signing out everywhere
  past       \* fresh: no device has done anything since the list was read; torn: this browser's
             \* session was rotated while the page was being served; revoked: by the page

devicesVars == <<created, device, live, access, list, fetch, revoke, page, past>>

Idle == [at |-> "idle", by |-> None, id |-> None]
Listing == [ids : SUBSET Sessions, own : Sessions \cup {None}]
Of(d) == {s \in live : device[s] = d}

Init ==
  /\ created = 1 /\ device = [s \in Sessions |-> Here]
  /\ live = {1} /\ access = 1
  /\ list = [ids |-> {}, own |-> None] /\ fetch = Idle /\ revoke = Idle /\ page = "user"
  /\ past = [fresh |-> FALSE, torn |-> FALSE, revoked |-> {}]

-----------------------------------------------------------------------------
(* The devices                                                             *)

\* A session more, of d; old ends.  A page whose request has passed the guard goes on.
Create(d, old) ==
  /\ created < MaxSessions /\ created' = created + 1
  /\ device' = [device EXCEPT ![created + 1] = d]
  /\ live' = (live \ old) \cup {created + 1}
  /\ past' = [past EXCEPT !.fresh = FALSE, !.torn = @ \/ (d = Here /\ fetch.at = "guarded")]
  /\ UNCHANGED <<list, fetch, revoke, page>>

\* Sign-in and refresh; this browser's cookies follow.
SignIn(d) ==
  /\ d # Here /\ Of(d) = {} /\ Create(d, {})
  /\ UNCHANGED access
Rotate(d) ==
  /\ \E s \in Of(d) : (d = Here => s = access) /\ Create(d, {s})
  /\ access' = IF d = Here THEN created + 1 ELSE access

SignOut(d) ==
  /\ d # Here /\ Of(d) # {}
  /\ live' = live \ Of(d) /\ past' = [past EXCEPT !.fresh = FALSE]
  /\ UNCHANGED <<created, device, access, list, fetch, revoke, page>>

-----------------------------------------------------------------------------
(* The list                                                                *)

Loading == [Idle EXCEPT !.at = "sent", !.by = access]

\* The page opens, or the window gets the focus.
Refetch ==
  /\ page = "user" /\ fetch.at = "idle" /\ fetch' = Loading
  /\ UNCHANGED <<created, device, live, access, list, revoke, page, past>>

\* AccessAuthGuard and authenticateAccess: 401 unless the token's session is live.
Guarded(call) == call.by \in live

PassGuard ==
  /\ fetch.at = "sent"
  /\ fetch' = IF Guarded(fetch) THEN [fetch EXCEPT !.at = "guarded"] ELSE Idle
  /\ UNCHANGED <<created, device, live, access, list, revoke, page, past>>

\* findActiveSessions and toSessionResponse.  The answer is rendered at once.
ListSessions ==
  /\ fetch.at = "guarded"
  /\ list' = [ids |-> live, own |-> fetch.by] /\ fetch' = Idle
  /\ past' = [past EXCEPT !.fresh = TRUE]
  /\ UNCHANGED <<created, device, live, access, revoke, page>>

-----------------------------------------------------------------------------
(* Revoking                                                                *)

\* "Revoke": every session but the one of this device has the button, which is disabled
\* while a revocation is under way.
Revoke(s) ==
  /\ page = "user" /\ s \in list.ids \ {list.own} /\ revoke.at = "idle"
  /\ revoke' = [at |-> "sent", by |-> access, id |-> s]
  /\ UNCHANGED <<created, device, live, access, list, fetch, page, past>>

PassRevokeGuard ==
  /\ revoke.at = "sent"
  /\ revoke' = IF Guarded(revoke) THEN [revoke EXCEPT !.at = "guarded"] ELSE Idle
  /\ UNCHANGED <<created, device, live, access, list, fetch, page, past>>

\* revokeOwnedSession: the UPDATE finds nothing if the session is revoked by now, and the
\* answer is the same.
Revoked(s) == live \cap {s}
RevokeOwnedSession ==
  /\ revoke.at = "guarded"
  /\ live' = live \ Revoked(revoke.id) /\ revoke' = [revoke EXCEPT !.at = "answered"]
  /\ past' = [past EXCEPT !.revoked = @ \cup Revoked(revoke.id)]
  /\ UNCHANGED <<created, device, access, list, fetch, page>>

\* onSuccess: the list is loaded again.
Refresh ==
  /\ revoke.at = "answered"
  /\ revoke' = Idle /\ fetch' = IF page = "user" THEN Loading ELSE fetch
  /\ UNCHANGED <<created, device, live, access, list, page, past>>

\* "Sign out everywhere": its cookies are cleared with the answer, and the page asks no more.
SignOutAll ==
  /\ page = "user" /\ access \in live
  /\ live' = {} /\ access' = None /\ page' = "nobody" /\ fetch' = Idle
  /\ list' = [ids |-> {}, own |-> None]
  /\ UNCHANGED <<created, device, revoke, past>>

Next ==
  \/ \E d \in Devices : SignIn(d) \/ Rotate(d) \/ SignOut(d)
  \/ Refetch \/ PassGuard \/ ListSessions
  \/ \E s \in Sessions : Revoke(s)
  \/ PassRevokeGuard \/ RevokeOwnedSession \/ Refresh \/ SignOutAll

Spec == Init /\ [][Next]_devicesVars

-----------------------------------------------------------------------------
(* Properties                                                              *)

TypeOK ==
  /\ created \in Sessions /\ device \in [Sessions -> Devices] /\ live \subseteq Sessions
  /\ access \in Sessions \cup {None} /\ list \in Listing /\ page \in {"user", "nobody"}
  /\ {fetch, revoke} \subseteq [at : {"idle", "sent", "guarded", "answered"},
                                by : Sessions \cup {None}, id : Sessions \cup {None}]
  /\ past \in [fresh : BOOLEAN, torn : BOOLEAN, revoked : SUBSET Sessions]

\* A device that is signed in has a row that can be revoked, and only such devices have:
\* a revocation that came too late, because the session was rotated behind the list, shows
\* in the list that follows it.
AtRest == access \in live /\ fetch.at = "idle" /\ revoke.at = "idle"
DevicesListed ==
  AtRest /\ past.fresh =>
    /\ list.ids = live
    /\ ~past.torn => list.own = access

\* The page never signs its own browser out, unless that browser's session was rotated
\* between the two queries that served a list: its new session then looks like another
\* device's.
OwnSessionKept == ~past.torn => \A s \in past.revoked : device[s] # Here

AccountSound == DevicesListed /\ OwnSessionKept
=============================================================================
