---------------------------- MODULE AuthSessions ----------------------------
(***************************************************************************)
(* The login sessions of one user: AuthService.signIn, refresh, signOut,   *)
(* signOutAll, revokeOwnedSession, and the AuthRepository statements they  *)
(* run against the auth_sessions table.  A session row stands for its      *)
(* refresh token; whoever holds a token may present it, at any time and    *)
(* as often as they like (two tabs, a retry, a copied cookie).             *)
(*                                                                         *)
(* PostgreSQL runs these transactions at READ COMMITTED: a row inserted by *)
(* an open transaction is invisible to the others ("pending" here), and an *)
(* UPDATE scans a snapshot taken when it starts, then checks its WHERE     *)
(* again on each row it had to wait for.                                   *)
(***************************************************************************)
EXTENDS Naturals, FiniteSets

CONSTANTS Sessions,   \* session ids
          Calls,      \* requests to the auth endpoints that take several steps
          WalkLimit,  \* how many ids revokeRotationFamily collects (100)
          None

ASSUME WalkLimitAssumption == WalkLimit \in Nat \ {0}
ASSUME NoSessionAssumption == None \notin Sessions

VARIABLES
  row,      \* row[s]: the row of s: no row, pending, live, or revoked
  next,     \* next[s]: its replaced_by_session_id
  expired,  \* sessions past their expires_at
  root,     \* root[s]: the sign-in session s descends from (history variable)
  pc,       \* pc[k]: the await call k stands at, or how it ended
  token,    \* token[k]: the session whose refresh token k presented
  fresh,    \* fresh[k]: the session its transaction inserted
  ids,      \* ids[k]: the ids it collected
  cursor    \* cursor[k]: nextId of the walk

sessions == <<row, next, root>>
vars == <<sessions, expired, pc, token, fresh, ids, cursor>>

Waiting == {"insert", "rotate", "walk", "expire", "sweep"}
Ended == {"rotated", "refused", "reuse", "swept", "dead"}

Goto(k, label) == pc' = [pc EXCEPT ![k] = label]
Live == {s \in Sessions : row[s] = "live"}
Revoked(some) == [s \in Sessions |-> IF s \in some THEN "revoked" ELSE row[s]]

Init ==
  /\ row = [s \in Sessions |-> "none"]
  /\ next = [s \in Sessions |-> None]
  /\ root = [s \in Sessions |-> None]
  /\ expired = {}
  /\ pc = [k \in Calls |-> "idle"]
  /\ token = [k \in Calls |-> None]
  /\ fresh = [k \in Calls |-> None]
  /\ ids = [k \in Calls |-> {}]
  /\ cursor = [k \in Calls |-> None]

-----------------------------------------------------------------------------
\* signUp and signIn: the session is visible once its transaction commits.
SignIn(s) ==
  /\ row[s] = "none"
  /\ row' = [row EXCEPT ![s] = "live"]
  /\ root' = [root EXCEPT ![s] = s]
  /\ UNCHANGED <<next, expired, pc, token, fresh, ids, cursor>>

\* refresh reads the session of the token it was given, and decides by that.
Present(k, s) ==
  /\ pc[k] = "idle" /\ row[s] \in {"live", "revoked"}
  /\ token' = [token EXCEPT ![k] = s]
  /\ \/ /\ row[s] = "revoked" /\ next[s] # None
        /\ ids' = [ids EXCEPT ![k] = {s}]
        /\ cursor' = [cursor EXCEPT ![k] = next[s]]
        /\ Goto(k, "walk")
     \/ /\ row[s] = "revoked" /\ next[s] = None
        /\ Goto(k, "refused")
        /\ UNCHANGED <<ids, cursor>>
     \/ /\ row[s] = "live"
        /\ Goto(k, IF s \in expired THEN "expire" ELSE "insert")
        /\ UNCHANGED <<ids, cursor>>
  /\ UNCHANGED <<sessions, expired, fresh>>

\* rotateSession opens its transaction and inserts the replacement.
Insert(k, s) ==
  /\ pc[k] = "insert" /\ row[s] = "none"
  /\ row' = [row EXCEPT ![s] = "pending"]
  /\ root' = [root EXCEPT ![s] = root[token[k]]]
  /\ fresh' = [fresh EXCEPT ![k] = s]
  /\ Goto(k, "rotate")
  /\ UNCHANGED <<next, expired, token, ids, cursor>>

\* updateMany ... WHERE revoked_at IS NULL.  (..Unconditional: WHERE id only.)
StillActiveUnconditional(s) == TRUE
StillActive(s) == row[s] = "live"

\* The old session is revoked and linked, and the transaction commits.
Rotate(k) ==
  /\ pc[k] = "rotate" /\ StillActive(token[k])
  /\ row' = [row EXCEPT ![token[k]] = "revoked", ![fresh[k]] = "live"]
  /\ next' = [next EXCEPT ![token[k]] = fresh[k]]
  /\ Goto(k, "rotated")
  /\ UNCHANGED <<root, expired, token, fresh, ids, cursor>>

\* The row fresh[k] of an open transaction disappears with it.  (..Everyones:
\* whoever else has a transaction open loses track of its row.)
UndoEveryones(undone) ==
  LET gone == {fresh[k] : k \in {c \in undone : pc[c] = "rotate"}} IN
  /\ row' = [s \in Sessions |-> IF s \in gone THEN "none" ELSE row[s]]
  /\ root' = [s \in Sessions |-> IF s \in gone THEN None ELSE root[s]]
  /\ fresh' = [k \in Calls |-> None]
Undo(undone) ==
  LET gone == {fresh[k] : k \in {c \in undone : pc[c] = "rotate"}} IN
  /\ row' = [s \in Sessions |-> IF s \in gone THEN "none" ELSE row[s]]
  /\ root' = [s \in Sessions |-> IF s \in gone THEN None ELSE root[s]]
  /\ fresh' = [k \in Calls |-> IF k \in undone THEN None ELSE fresh[k]]

\* SessionAlreadyRotatedError, or any other error, rolls it back.
Rollback(k) ==
  /\ pc[k] \in {"insert", "rotate"}
  /\ Undo({k})
  /\ Goto(k, "refused")
  /\ UNCHANGED <<next, expired, token, ids, cursor>>

\* One turn of revokeRotationFamily's loop.
Walk(k) ==
  /\ pc[k] = "walk" /\ cursor[k] # None /\ Cardinality(ids[k]) < WalkLimit
  /\ ids' = [ids EXCEPT ![k] = @ \cup {cursor[k]}]
  /\ cursor' = [cursor EXCEPT ![k] = next[cursor[k]]]
  /\ UNCHANGED <<sessions, expired, pc, token, fresh>>

\* (..Presented: only the session whose token came back.)
FamilyPresented(k) == {token[k]}
Family(k) == ids[k]

\* The loop is over: revoke what it collected.
RevokeFamily(k) ==
  /\ pc[k] = "walk"
  /\ cursor[k] = None \/ Cardinality(ids[k]) >= WalkLimit
  /\ row' = Revoked(Family(k))
  /\ Goto(k, "reuse")
  /\ UNCHANGED <<next, root, expired, token, fresh, ids, cursor>>

\* The presented session had expired: revokeSession.
RevokeExpired(k) ==
  /\ pc[k] = "expire"
  /\ row' = Revoked({token[k]} \cap Live)
  /\ Goto(k, "refused")
  /\ UNCHANGED <<next, root, expired, token, fresh, ids, cursor>>

\* signOut and revokeOwnedSession: one UPDATE of one live row.
SignOut(s) ==
  /\ row[s] = "live"
  /\ row' = Revoked({s})
  /\ UNCHANGED <<next, root, expired, pc, token, fresh, ids, cursor>>

\* signOutAll's UPDATE takes its snapshot of the user's live rows ...
SignOutAll(k) ==
  /\ pc[k] = "idle"
  /\ ids' = [ids EXCEPT ![k] = Live]
  /\ Goto(k, "sweep")
  /\ UNCHANGED <<sessions, expired, token, fresh, cursor>>

\* updateMany.  (..One: update, of one row only.)
SweptOne(k) == IF ids[k] \cap Live = {} THEN {} ELSE {CHOOSE s \in ids[k] \cap Live : TRUE}
Swept(k) == ids[k] \cap Live

\* ... and revokes those that are live still.
Sweep(k) ==
  /\ pc[k] = "sweep"
  /\ row' = Revoked(Swept(k))
  /\ Goto(k, "swept")
  /\ UNCHANGED <<next, root, expired, token, fresh, ids, cursor>>

\* Time passes expires_at; nothing looks at that of a revoked session.
Expire(s) ==
  /\ row[s] = "live" /\ s \notin expired
  /\ expired' = expired \cup {s}
  /\ UNCHANGED <<sessions, pc, token, fresh, ids, cursor>>

\* The API process dies; PostgreSQL rolls its transactions back.
Crash ==
  LET inFlight == {k \in Calls : pc[k] \in Waiting} IN
  /\ inFlight # {}
  /\ Undo(inFlight)
  /\ pc' = [k \in Calls |-> IF k \in inFlight THEN "dead" ELSE pc[k]]
  /\ UNCHANGED <<next, expired, token, ids, cursor>>

-----------------------------------------------------------------------------
Step(k) ==
  \/ \E s \in Sessions : Insert(k, s)
  \/ Rotate(k) \/ Rollback(k) \/ Walk(k) \/ RevokeFamily(k)
  \/ RevokeExpired(k) \/ Sweep(k)

Environment ==
  \/ \E s \in Sessions : SignIn(s) \/ SignOut(s) \/ Expire(s)
  \/ \E k \in Calls : SignOutAll(k) \/ \E s \in Sessions : Present(k, s)
  \/ Crash

Next == Environment \/ \E k \in Calls : Step(k)

Spec == Init /\ [][Next]_vars

-----------------------------------------------------------------------------
(* Properties                                                              *)

Optional == Sessions \cup {None}

\* Every variable stays within its type, and a call that rotates has the two
\* sessions it works on.
TypeOK ==
  /\ row \in [Sessions -> {"none", "pending", "live", "revoked"}]
  /\ next \in [Sessions -> Optional]
  /\ root \in [Sessions -> Optional]
  /\ expired \subseteq Sessions
  /\ pc \in [Calls -> {"idle"} \cup Waiting \cup Ended]
  /\ token \in [Calls -> Optional]
  /\ fresh \in [Calls -> Optional]
  /\ ids \in [Calls -> SUBSET Sessions]
  /\ cursor \in [Calls -> Optional]
  /\ \A k \in Calls :
       /\ pc[k] \in {"insert", "rotate", "rotated", "walk", "reuse", "expire"}
            => token[k] \in Sessions
       /\ pc[k] \in {"rotate", "rotated"} => fresh[k] \in Sessions

\* However refreshes of one login race each other, sign-outs and reuse, at most
\* one session that descends from it is live: rotation replaces, never adds.
OneLivePerFamily ==
  \A s, t \in Live : root[s] = root[t] => s = t

\* A refresh token buys at most one new session, whatever races it: of any number
\* of calls that present it, one rotates and the others are refused.
RedeemedOnce ==
  \A j, k \in Calls :
    (pc[j] = "rotated" /\ pc[k] = "rotated" /\ token[j] = token[k]) => j = k

\* Revocation is for good and a link, once written, is never rewritten: the
\* walk of revokeRotationFamily follows a chain that only grows at its end.
RevocationIsFinal ==
  [][\A s \in Sessions :
       row[s] = "revoked" => /\ row'[s] = "revoked"
                             /\ next[s] # None => next'[s] = next[s]]_vars

\* When a reused token's walk saw the whole chain - no rotation committed behind
\* it, and it did not stop at the limit - nobody is left signed in by that login.
ReuseClosesFamily ==
  \A k \in Calls :
    (/\ pc[k] = "reuse"
     /\ \A s \in ids[k] : next[s] \in ids[k] \cup {None})
      => \A s \in Live : root[s] # root[token[k]]

\* "Reuse of a revoked refresh token revokes its rotation family": whatever else
\* was going on, no session of that login is live once the call is answered.
ReuseRevokesFamily ==
  \A k \in Calls : pc[k] = "reuse" => \A s \in Live : root[s] # root[token[k]]

\* Sign-out-all ends every login whose session it found live, unless a refresh of
\* that login slipped its replacement in behind the UPDATE's snapshot.
SweepClosesFamilies ==
  \A k \in Calls :
    pc[k] = "swept" =>
      \A t \in ids[k] : next[t] = None => \A s \in Live : root[s] # root[t]

=============================================================================
