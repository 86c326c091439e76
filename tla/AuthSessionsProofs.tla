------------------------- MODULE AuthSessionsProofs -------------------------
(***************************************************************************)
(* Theorems about AuthSessions for every set of sessions and calls and     *)
(* every walk limit.                                                       *)
(*                                                                         *)
(* One invariant carries them all.  Its parts say which rows a call may    *)
(* have in hand: a row that was ever visible stays (Committed), links and  *)
(* collected ids lead to such rows only, and the row a transaction has     *)
(* inserted is its own and of the family of the session it replaces.       *)
(***************************************************************************)
EXTENDS AuthSessions, TLAPS

Committed == {s \in Sessions : row[s] \in {"live", "revoked"}}

LinksAreCommitted ==
  \A s \in Sessions : next[s] # None => row[s] = "revoked" /\ next[s] \in Committed

CollectedAreCommitted ==
  \A k \in Calls :
    /\ pc[k] \in {"insert", "rotate", "walk", "expire"} => token[k] \in Committed
    /\ pc[k] \in {"walk", "sweep"} => ids[k] \subseteq Committed
    /\ pc[k] = "walk" => cursor[k] \in Committed \cup {None}

Replacements ==
  /\ \A k \in Calls :
       pc[k] = "rotate" => /\ row[fresh[k]] = "pending"
                           /\ root[fresh[k]] = root[token[k]]
  /\ \A j, k \in Calls :
       (pc[j] = "rotate" /\ pc[k] = "rotate" /\ fresh[j] = fresh[k]) => j = k

\* A root is a session that was signed in, so a new login founds a new family.
Rooted ==
  \A s \in Sessions : row[s] # "none" => root[s] \in Committed

SpentTokens ==
  \A k \in Calls : pc[k] = "rotated" => row[token[k]] = "revoked"

IInv ==
  /\ TypeOK /\ LinksAreCommitted /\ CollectedAreCommitted /\ Replacements /\ Rooted
  /\ SpentTokens /\ OneLivePerFamily /\ RedeemedOnce

-----------------------------------------------------------------------------
\* The parts of the invariant that a step must re-establish, one by one.
LEMMA Parts ==
  ASSUME TypeOK', LinksAreCommitted', CollectedAreCommitted', Replacements', Rooted',
         SpentTokens', OneLivePerFamily', RedeemedOnce'
  PROVE  IInv'
BY DEF IInv

\* An empty table satisfies the invariant.
LEMMA InitialInv == Init => IInv
BY DEF Init, IInv, TypeOK, LinksAreCommitted, CollectedAreCommitted, Replacements, Rooted,
       SpentTokens, OneLivePerFamily, RedeemedOnce, Committed, Live, Optional, Waiting, Ended

\* A step that leaves the rows alone, and at most moves some calls on.
LEMMA Moving ==
  ASSUME IInv, UNCHANGED <<row, next, root, fresh>>, TypeOK', CollectedAreCommitted',
         \A k \in Calls :
           pc'[k] \in {"rotate", "rotated"} => pc'[k] = pc[k] /\ token'[k] = token[k]
  PROVE  IInv'
<1> USE DEF IInv
<1>1. LinksAreCommitted' /\ Rooted'
  BY DEF LinksAreCommitted, Rooted, Committed
<1>2. Replacements'
  BY DEF Replacements
<1>3. SpentTokens'
  BY DEF SpentTokens
<1>4. OneLivePerFamily' /\ RedeemedOnce'
  BY DEF OneLivePerFamily, RedeemedOnce, Live
<1> QED
  BY <1>1, <1>2, <1>3, <1>4, Parts

\* Every UPDATE that only revokes rows which other transactions can see.
LEMMA Revoking ==
  ASSUME IInv, NEW some \in SUBSET Committed, row' = Revoked(some),
         UNCHANGED <<next, root, expired, token, fresh, ids, cursor>>,
         NEW k \in Calls, NEW end \in {"reuse", "refused", "swept"},
         \/ pc' = pc
         \/ pc' = [pc EXCEPT ![k] = end] /\ (end = "reuse" => token[k] \in Sessions)
  PROVE  IInv'
<1> USE DEF IInv
<1>1. TypeOK
  OBVIOUS
<1>2. /\ some \subseteq Sessions
      /\ \A s \in Sessions : row'[s] = IF s \in some THEN "revoked" ELSE row[s]
  BY DEF Committed, Revoked
<1>3. Committed' = Committed /\ Live' \subseteq Live
  BY <1>2 DEF Committed, Live
<1>4. \A c \in Calls : pc'[c] \notin {"reuse", "refused", "swept"} => pc'[c] = pc[c]
  BY <1>1 DEF TypeOK
<1>5. TypeOK'
  <2>1. row' \in [Sessions -> {"none", "pending", "live", "revoked"}]
    BY <1>1, <1>2 DEF TypeOK, Revoked
  <2> QED
    BY <1>1, <2>1 DEF TypeOK, Waiting, Ended
<1>6. LinksAreCommitted' /\ Rooted'
  BY <1>1, <1>2, <1>3 DEF LinksAreCommitted, Rooted, TypeOK, Committed
<1>7. CollectedAreCommitted'
  BY <1>3, <1>4 DEF CollectedAreCommitted
<1>8. Replacements'
  <2>1. ASSUME NEW c \in Calls, pc[c] = "rotate" PROVE fresh[c] \in Sessions \ some
    BY <1>1, <2>1 DEF Replacements, Committed, TypeOK
  <2> QED
    BY <1>2, <1>4, <2>1 DEF Replacements
<1>9. SpentTokens'
  BY <1>1, <1>2, <1>4 DEF SpentTokens, TypeOK
<1>10. OneLivePerFamily' /\ RedeemedOnce'
  BY <1>3, <1>4 DEF OneLivePerFamily, RedeemedOnce
<1> QED
  BY <1>5, <1>6, <1>7, <1>8, <1>9, <1>10, Parts

\* Every end of an open transaction but its commit: only rows that nobody else
\* could see disappear.
LEMMA Undoing ==
  ASSUME IInv, NEW undone \in SUBSET Calls, Undo(undone),
         UNCHANGED <<next, expired, token, ids, cursor>>,
         NEW end \in {"refused", "dead"},
         pc' = [k \in Calls |-> IF k \in undone THEN end ELSE pc[k]]
  PROVE  IInv'
<1> USE DEF IInv
<1> DEFINE gone == {fresh[k] : k \in {c \in undone : pc[c] = "rotate"}}
<1>1. TypeOK
  OBVIOUS
<1>2. /\ gone \subseteq Sessions
      /\ \A s \in gone : row[s] = "pending"
      /\ \A s \in Sessions : /\ row'[s] = IF s \in gone THEN "none" ELSE row[s]
                             /\ root'[s] = IF s \in gone THEN None ELSE root[s]
  BY <1>1 DEF Undo, TypeOK, Replacements
<1>3. Committed' = Committed /\ Live' = Live
  BY <1>2 DEF Committed, Live
<1>4. \A k \in Calls : pc'[k] # end => k \notin undone /\ pc'[k] = pc[k]
  OBVIOUS
<1>5. \A k \in Calls : k \notin undone => fresh'[k] = fresh[k]
  BY DEF Undo
<1>6. TypeOK'
  <2>1. /\ row' \in [Sessions -> {"none", "pending", "live", "revoked"}]
        /\ root' \in [Sessions -> Optional]
        /\ fresh' \in [Calls -> Optional]
    BY <1>1 DEF TypeOK, Undo, Optional
  <2>2. pc' \in [Calls -> {"idle"} \cup Waiting \cup Ended]
    BY <1>1 DEF TypeOK, Ended
  <2>3. ASSUME NEW k \in Calls, pc'[k] \in {"rotate", "rotated"} PROVE fresh'[k] \in Sessions
    BY <1>1, <1>4, <1>5, <2>3 DEF TypeOK
  <2> QED
    BY <1>1, <1>4, <2>1, <2>2, <2>3 DEF TypeOK
<1>7. LinksAreCommitted'
  BY <1>2, <1>3 DEF LinksAreCommitted, Committed
<1>8. Rooted'
  BY <1>2, <1>3 DEF Rooted, Committed
<1>9. CollectedAreCommitted'
  BY <1>3, <1>4 DEF CollectedAreCommitted
<1>10. Replacements'
  <2>1. ASSUME NEW k \in Calls, pc'[k] = "rotate"
        PROVE  /\ pc[k] = "rotate" /\ fresh'[k] = fresh[k]
               /\ fresh[k] \in Sessions \ gone /\ token[k] \in Sessions \ gone
    <3>1. k \notin undone /\ pc[k] = "rotate" /\ fresh'[k] = fresh[k]
      BY <1>4, <1>5, <2>1
    <3>2. fresh[k] \notin gone
      BY <3>1 DEF Replacements
    <3>3. token[k] \in Committed
      BY <3>1 DEF CollectedAreCommitted
    <3> QED
      BY <1>1, <1>2, <3>1, <3>2, <3>3 DEF TypeOK, Committed
  <2> QED
    BY <1>2, <2>1 DEF Replacements
<1>11. SpentTokens'
  BY <1>1, <1>2, <1>4 DEF SpentTokens, TypeOK
<1>12. OneLivePerFamily' /\ RedeemedOnce'
  BY <1>2, <1>3, <1>4 DEF OneLivePerFamily, RedeemedOnce, Live
<1> QED
  BY <1>6, <1>7, <1>8, <1>9, <1>10, <1>11, <1>12, Parts

-----------------------------------------------------------------------------
\* A new login founds a family of its own.
LEMMA SigningIn ==
  ASSUME IInv, NEW s \in Sessions, SignIn(s)
  PROVE  IInv'
<1> USE DEF IInv, SignIn
<1>1. TypeOK
  OBVIOUS
<1>2. s \notin Committed
  BY DEF Committed
<1>3. /\ row'[s] = "live" /\ root'[s] = s
      /\ \A t \in Sessions \ {s} : row'[t] = row[t] /\ root'[t] = root[t]
  BY <1>1 DEF TypeOK
<1>4. Committed' = Committed \cup {s} /\ Live' = Live \cup {s}
  BY <1>3 DEF Committed, Live
<1>5. TypeOK'
  BY <1>1 DEF TypeOK, Optional
<1>6. LinksAreCommitted'
  BY <1>2, <1>3, <1>4 DEF LinksAreCommitted, Committed
<1>7. Rooted'
  BY <1>3, <1>4 DEF Rooted, Committed
<1>8. CollectedAreCommitted'
  BY <1>4 DEF CollectedAreCommitted
<1>9. Replacements'
  <2>1. ASSUME NEW k \in Calls, pc[k] = "rotate"
        PROVE  fresh[k] \in Sessions \ {s} /\ token[k] \in Sessions \ {s}
    BY <1>1, <1>2, <2>1 DEF TypeOK, Replacements, CollectedAreCommitted, Committed
  <2> QED
    BY <1>3, <2>1 DEF Replacements
<1>10. SpentTokens'
  BY <1>1, <1>3 DEF SpentTokens, TypeOK
<1>11. OneLivePerFamily'
  \* No row had s for its root: a root was visible before.
  <2>1. \A t \in Live : root'[t] = root[t] /\ root[t] # s
    BY <1>2, <1>3 DEF Rooted, Live, Committed
  <2> QED
    BY <1>3, <1>4, <2>1 DEF OneLivePerFamily
<1>12. RedeemedOnce'
  BY DEF RedeemedOnce
<1> QED
  BY <1>5, <1>6, <1>7, <1>8, <1>9, <1>10, <1>11, <1>12, Parts

\* A replacement belongs to the family of the session it is to replace.
LEMMA Inserting ==
  ASSUME IInv, NEW k \in Calls, NEW s \in Sessions, Insert(k, s)
  PROVE  IInv'
<1> USE DEF IInv, Insert, Goto
<1>1. TypeOK
  OBVIOUS
<1>2. token[k] \in Committed /\ s \notin Committed /\ token[k] # s
  BY DEF CollectedAreCommitted, Committed
<1>3. /\ row'[s] = "pending" /\ root'[s] = root[token[k]]
      /\ \A t \in Sessions \ {s} : row'[t] = row[t] /\ root'[t] = root[t]
  BY <1>1 DEF TypeOK
<1>4. Committed' = Committed /\ Live' = Live
  BY <1>3 DEF Committed, Live
<1>5. /\ pc'[k] = "rotate" /\ fresh'[k] = s
      /\ \A c \in Calls \ {k} : pc'[c] = pc[c] /\ fresh'[c] = fresh[c]
  BY <1>1 DEF TypeOK
<1>6. TypeOK'
  <2>1. root[token[k]] \in Optional
    BY <1>1, <1>2 DEF TypeOK, Committed
  <2> QED
    BY <1>1, <2>1 DEF TypeOK, Waiting, Optional
<1>7. LinksAreCommitted'
  BY <1>3, <1>4 DEF LinksAreCommitted, Committed
<1>8. Rooted'
  <2>1. root[token[k]] \in Committed
    BY <1>2 DEF Rooted, Committed
  <2> QED
    BY <1>3, <1>4, <2>1 DEF Rooted
<1>9. CollectedAreCommitted'
  BY <1>2, <1>4, <1>5 DEF CollectedAreCommitted
<1>10. Replacements'
  <2>1. ASSUME NEW c \in Calls \ {k}, pc[c] = "rotate"
        PROVE  fresh[c] \in Sessions \ {s} /\ token[c] \in Sessions \ {s}
    BY <1>1, <2>1 DEF TypeOK, Replacements, CollectedAreCommitted, Committed
  <2>2. token[k] \in Sessions
    BY <1>2 DEF Committed
  <2> QED
    BY <1>2, <1>3, <1>5, <2>1, <2>2 DEF Replacements
<1>11. SpentTokens'
  BY <1>1, <1>3, <1>5 DEF SpentTokens, TypeOK
<1>12. OneLivePerFamily'
  BY <1>3, <1>4 DEF OneLivePerFamily, Live
<1>13. RedeemedOnce'
  BY <1>5 DEF RedeemedOnce
<1> QED
  BY <1>6, <1>7, <1>8, <1>9, <1>10, <1>11, <1>12, <1>13, Parts

\* The step the theorems are about.
LEMMA Rotating ==
  ASSUME IInv, NEW k \in Calls, Rotate(k)
  PROVE  IInv'
<1> USE DEF IInv, Rotate, StillActive, Goto
<1>1. TypeOK
  OBVIOUS
<1>2. /\ token[k] \in Live /\ fresh[k] \in Sessions \ Committed
      /\ row[fresh[k]] = "pending" /\ root[fresh[k]] = root[token[k]]
  BY <1>1 DEF TypeOK, Live, Replacements, Committed
<1>3. /\ row'[token[k]] = "revoked" /\ row'[fresh[k]] = "live"
      /\ \A s \in Sessions \ {token[k], fresh[k]} : row'[s] = row[s]
      /\ next'[token[k]] = fresh[k]
      /\ \A s \in Sessions \ {token[k]} : next'[s] = next[s]
  BY <1>1, <1>2 DEF TypeOK, Live
<1>4. /\ Committed' = Committed \cup {fresh[k]}
      /\ Live' = (Live \ {token[k]}) \cup {fresh[k]}
  BY <1>2, <1>3 DEF Committed, Live
<1>5. pc'[k] = "rotated" /\ \A c \in Calls \ {k} : pc'[c] = pc[c]
  BY <1>1 DEF TypeOK
<1>6. TypeOK'
  BY <1>1, <1>2 DEF TypeOK, Optional, Ended, Live
<1>7. LinksAreCommitted'
  <2>1. ASSUME NEW s \in Sessions, next'[s] # None
        PROVE  row'[s] = "revoked" /\ next'[s] \in Committed'
    <3>1. CASE s = token[k]
      BY <1>3, <1>4, <3>1
    <3>2. CASE s # token[k]
      <4>1. row[s] = "revoked" /\ next[s] \in Committed /\ next'[s] = next[s]
        BY <1>3, <2>1, <3>2 DEF LinksAreCommitted
      <4>2. row'[s] = row[s]
        BY <1>2, <1>3, <3>2, <4>1
      <4> QED
        BY <1>4, <4>1, <4>2
    <3> QED
      BY <3>1, <3>2
  <2> QED
    BY <2>1 DEF LinksAreCommitted
<1>8. Rooted'
  BY <1>2, <1>3, <1>4 DEF Rooted, Committed, Live
<1>9. CollectedAreCommitted'
  BY <1>4, <1>5 DEF CollectedAreCommitted
<1>10. Replacements'
  <2>1. ASSUME NEW c \in Calls, pc'[c] = "rotate"
        PROVE  c # k /\ pc[c] = "rotate" /\ fresh[c] \in Sessions \ {token[k], fresh[k]}
    <3>1. c # k /\ pc[c] = "rotate"
      BY <1>5, <2>1
    <3>2. fresh[c] # fresh[k] /\ row[fresh[c]] = "pending"
      BY <3>1 DEF Replacements
    <3> QED
      BY <1>1, <1>2, <3>1, <3>2 DEF TypeOK, Live
  <2>2. ASSUME NEW c \in Calls, pc'[c] = "rotate"
        PROVE  row'[fresh'[c]] = "pending" /\ root'[fresh'[c]] = root'[token'[c]]
    <3>1. pc[c] = "rotate" /\ row'[fresh[c]] = row[fresh[c]]
      BY <1>3, <2>1, <2>2
    <3>2. row[fresh[c]] = "pending" /\ root[fresh[c]] = root[token[c]]
      BY <3>1 DEF Replacements
    <3>3. fresh' = fresh /\ token' = token /\ root' = root
      OBVIOUS
    <3> QED
      BY <3>1, <3>2, <3>3
  <2>3. ASSUME NEW b \in Calls, NEW c \in Calls, pc'[b] = "rotate", pc'[c] = "rotate",
               fresh'[b] = fresh'[c]
        PROVE  b = c
    BY <2>1, <2>3 DEF Replacements
  <2> QED
    BY <2>2, <2>3 DEF Replacements
<1>11. SpentTokens'
  <2>1. ASSUME NEW c \in Calls, pc'[c] = "rotated" PROVE row'[token[c]] = "revoked"
    <3>1. CASE c = k
      BY <1>3, <3>1
    <3>2. CASE c # k
      BY <1>1, <1>2, <1>3, <1>5, <2>1, <3>2 DEF SpentTokens, TypeOK, Live
    <3> QED
      BY <3>1, <3>2
  <2> QED
    BY <2>1 DEF SpentTokens
<1>12. OneLivePerFamily'
  \* The replacement takes the place of the one live session of its family.
  BY <1>2, <1>4 DEF OneLivePerFamily
<1>13. RedeemedOnce'
  \* The token was live, so nobody had redeemed it.
  BY <1>2, <1>5 DEF RedeemedOnce, SpentTokens, Live
<1> QED
  BY <1>6, <1>7, <1>8, <1>9, <1>10, <1>11, <1>12, <1>13, Parts

-----------------------------------------------------------------------------
\* Every step of Next preserves the invariant.
LEMMA Inductive ==
  IInv /\ [Next]_vars => IInv'
<1> SUFFICES ASSUME IInv, [Next]_vars PROVE IInv'
  OBVIOUS
<1> USE DEF IInv, Goto, sessions
<1>0. TypeOK
  OBVIOUS
<1>1. ASSUME NEW s \in Sessions, SignIn(s) PROVE IInv'
  BY <1>1, SigningIn
<1>2. ASSUME NEW k \in Calls, NEW s \in Sessions, Present(k, s) PROVE IInv'
  <2>1. s \in Committed /\ next[s] \in Committed \cup {None}
    BY <1>2 DEF Present, Committed, LinksAreCommitted
  <2>2. TypeOK'
    BY <1>0, <1>2, <2>1 DEF Present, TypeOK, Waiting, Ended, Optional, Committed
  <2>3. CollectedAreCommitted'
    BY <1>0, <1>2, <2>1 DEF Present, CollectedAreCommitted, Committed, TypeOK
  <2> QED
    BY <1>0, <1>2, <2>2, <2>3, Moving DEF Present, TypeOK
<1>3. ASSUME NEW k \in Calls, NEW s \in Sessions, Insert(k, s) PROVE IInv'
  BY <1>3, Inserting
<1>4. ASSUME NEW k \in Calls, Rotate(k) PROVE IInv'
  BY <1>4, Rotating
<1>5. ASSUME NEW k \in Calls, Rollback(k) PROVE IInv'
  <2>1. pc' = [c \in Calls |-> IF c \in {k} THEN "refused" ELSE pc[c]]
    BY <1>0, <1>5 DEF Rollback, TypeOK
  <2> QED
    BY <1>5, <2>1, Undoing DEF Rollback
<1>6. ASSUME NEW k \in Calls, Walk(k) PROVE IInv'
  <2>1. /\ cursor[k] \in Committed /\ ids[k] \subseteq Committed
        /\ next[cursor[k]] \in Committed \cup {None}
    BY <1>6 DEF Walk, CollectedAreCommitted, LinksAreCommitted, Committed
  <2>2. TypeOK'
    BY <1>0, <1>6, <2>1 DEF Walk, TypeOK, Optional, Committed
  <2>3. CollectedAreCommitted'
    BY <1>0, <1>6, <2>1 DEF Walk, CollectedAreCommitted, Committed, TypeOK
  <2> QED
    BY <1>6, <2>2, <2>3, Moving DEF Walk
<1>7. ASSUME NEW k \in Calls, RevokeFamily(k) PROVE IInv'
  <2>1. ids[k] \in SUBSET Committed /\ token[k] \in Sessions
    BY <1>0, <1>7 DEF RevokeFamily, CollectedAreCommitted, TypeOK
  <2> QED
    BY <1>7, <2>1, Revoking DEF RevokeFamily, Family
<1>8. ASSUME NEW k \in Calls, RevokeExpired(k) PROVE IInv'
  <2>1. {token[k]} \cap Live \in SUBSET Committed
    BY DEF Live, Committed
  <2> QED
    BY <1>8, <2>1, Revoking DEF RevokeExpired
<1>9. ASSUME NEW s \in Sessions, SignOut(s) PROVE IInv'
  <2>1. {s} \in SUBSET Committed
    BY <1>9 DEF SignOut, Committed
  <2>2. CASE Calls = {}
    <3>1. row' \in [Sessions -> {"none", "pending", "live", "revoked"}]
      BY <1>0, <1>9 DEF SignOut, Revoked, TypeOK
    <3> QED
      BY <1>0, <1>9, <2>2, <3>1 DEF SignOut, Revoked, TypeOK, LinksAreCommitted,
         CollectedAreCommitted, Replacements, Rooted, SpentTokens, OneLivePerFamily,
         RedeemedOnce, Committed, Live
  <2>3. CASE Calls # {}
    <3>1. PICK k \in Calls : TRUE
      BY <2>3
    <3> QED
      BY <1>9, <2>1, <3>1, Revoking DEF SignOut
  <2> QED
    BY <2>2, <2>3
<1>10. ASSUME NEW k \in Calls, SignOutAll(k) PROVE IInv'
  <2>1. Live \subseteq Committed /\ Live \in SUBSET Sessions
    BY DEF Live, Committed
  <2>2. TypeOK'
    BY <1>0, <1>10, <2>1 DEF SignOutAll, TypeOK, Waiting, Ended
  <2>3. CollectedAreCommitted'
    BY <1>0, <1>10, <2>1 DEF SignOutAll, CollectedAreCommitted, Committed, TypeOK
  <2> QED
    BY <1>0, <1>10, <2>2, <2>3, Moving DEF SignOutAll, TypeOK
<1>11. ASSUME NEW k \in Calls, Sweep(k) PROVE IInv'
  <2>1. ids[k] \cap Live \in SUBSET Committed
    BY DEF Live, Committed
  <2> QED
    BY <1>11, <2>1, Revoking DEF Sweep, Swept
<1>12. ASSUME NEW s \in Sessions, Expire(s) PROVE IInv'
  <2>1. TypeOK' /\ CollectedAreCommitted'
    BY <1>0, <1>12 DEF Expire, TypeOK, CollectedAreCommitted, Committed
  <2> QED
    BY <1>12, <2>1, Moving DEF Expire
<1>13. ASSUME Crash PROVE IInv'
  BY <1>13, Undoing DEF Crash
<1>14. CASE UNCHANGED vars
  <2>1. TypeOK' /\ CollectedAreCommitted'
    BY <1>0, <1>14 DEF vars, TypeOK, CollectedAreCommitted, Committed
  <2> QED
    BY <1>14, <2>1, Moving DEF vars
<1> QED
  BY <1>1, <1>2, <1>3, <1>4, <1>5, <1>6, <1>7, <1>8, <1>9, <1>10, <1>11, <1>12, <1>13, <1>14
     DEF Next, Environment, Step

\* Everything the invariant says holds in every behaviour of the session table.
THEOREM Invariance == Spec => []IInv
<1> QED
  BY InitialInv, Inductive, PTL DEF Spec

\* Every variable of the session table stays within its type.
THEOREM SessionTypes == Spec => []TypeOK
<1>1. IInv => TypeOK
  BY DEF IInv
<1> QED
  BY <1>1, Invariance, PTL

\* Rotation never leaves two live sessions of one login, for any number of
\* concurrent refreshes, reuses and sign-outs (rotateSession's revoked_at guard).
THEOREM OneLive == Spec => []OneLivePerFamily
<1>1. IInv => OneLivePerFamily
  BY DEF IInv
<1> QED
  BY <1>1, Invariance, PTL

\* No refresh token is redeemed twice, however many calls present it.
THEOREM TokensAreSingleUse == Spec => []RedeemedOnce
<1>1. IInv => RedeemedOnce
  BY DEF IInv
<1> QED
  BY <1>1, Invariance, PTL

\* No step of any call revives a revoked session or rewrites a link.
THEOREM Finality == Spec => RevocationIsFinal
<1> DEFINE Final == \A s \in Sessions :
                      row[s] = "revoked" => /\ row'[s] = "revoked"
                                            /\ next[s] # None => next'[s] = next[s]
<1>1. IInv /\ [Next]_vars => [Final]_vars
  <2> SUFFICES ASSUME IInv, Next PROVE Final
    OBVIOUS
  <2> USE DEF IInv, sessions
  <2>0. TypeOK
    OBVIOUS
  <2>1. ASSUME NEW some, row' = Revoked(some), UNCHANGED next PROVE Final
    BY <2>1 DEF Revoked
  <2>2. ASSUME NEW undone \in SUBSET Calls, Undo(undone), UNCHANGED next PROVE Final
    BY <2>2 DEF Undo, Replacements
  <2>3. ASSUME NEW k \in Calls, Rotate(k) PROVE Final
    BY <2>0, <2>3 DEF Rotate, StillActive, Replacements, TypeOK
  <2>4. ASSUME NEW s \in Sessions, SignIn(s) PROVE Final
    BY <2>0, <2>4 DEF SignIn, TypeOK
  <2>5. ASSUME NEW k \in Calls, NEW s \in Sessions, Insert(k, s) PROVE Final
    BY <2>0, <2>5 DEF Insert, TypeOK
  <2>6. ASSUME UNCHANGED <<row, next>> PROVE Final
    BY <2>6
  <2> QED
    BY <2>1, <2>2, <2>3, <2>4, <2>5, <2>6
       DEF Next, Environment, Step, Present, Rollback, Walk, RevokeFamily, RevokeExpired,
           SignOut, SignOutAll, Sweep, Swept, Expire, Crash
<1> QED
  BY <1>1, Invariance, PTL DEF Spec, RevocationIsFinal

-----------------------------------------------------------------------------
(* Revoking a whole login.  A revoked session without a link ends its      *)
(* login, since the session that was revoked was its only live one         *)
(* (DeadEnds).  Links never run in a circle: every set of sessions has one *)
(* whose link leads out of it (NoTrap), so a set that a walk has closed    *)
(* holds a dead end.                                                       *)

SameLogin == \A s \in Sessions : next[s] # None => root[next[s]] = root[s]

NoTrap == \A some \in SUBSET Committed : some # {} => \E s \in some : next[s] \notin some

DeadEnds ==
  \A s \in Live, t \in Sessions : (row[t] = "revoked" /\ next[t] = None) => root[s] # root[t]

Walks ==
  \A k \in Calls :
    /\ pc[k] \in {"walk", "reuse"} =>
         /\ token[k] \in ids[k] /\ ids[k] \subseteq Committed
         /\ \A s \in ids[k] : root[s] = root[token[k]]
    /\ (pc[k] = "walk" /\ cursor[k] # None) => root[cursor[k]] = root[token[k]]

AllRevoked ==
  \A k \in Calls : pc[k] \in {"reuse", "swept"} => \A s \in ids[k] : row[s] = "revoked"

Chains == SameLogin /\ NoTrap /\ DeadEnds /\ Walks /\ AllRevoked

\* An empty table has no chains.
LEMMA InitialChains == Init => Chains
BY DEF Init, Chains, SameLogin, NoTrap, DeadEnds, Walks, AllRevoked, Committed, Live

\* An UPDATE that revokes visible rows leaves the chains well formed: a live session
\* that loses its row was the only one of its login.
LEMMA RevokedChains ==
  ASSUME IInv, Chains, NEW some \in SUBSET Committed, row' = Revoked(some),
         UNCHANGED <<next, root>>
  PROVE  /\ SameLogin' /\ NoTrap' /\ DeadEnds'
         /\ Committed' = Committed
         /\ \A s \in Sessions : row'[s] = IF s \in some THEN "revoked" ELSE row[s]
         /\ \A s \in Sessions : row[s] = "revoked" => row'[s] = "revoked"
<1> USE DEF Chains
<1>1. \A s \in Sessions : row'[s] = IF s \in some THEN "revoked" ELSE row[s]
  BY DEF Revoked
<1>2. Committed' = Committed /\ Live' \subseteq Live
  BY <1>1 DEF Committed, Live
<1>3. SameLogin' /\ NoTrap'
  BY <1>2 DEF SameLogin, NoTrap
<1>4. ASSUME NEW s \in Live', NEW t \in Sessions, row'[t] = "revoked", next[t] = None
      PROVE  root[s] # root[t]
  <2>1. CASE row[t] = "revoked"
    BY <1>2, <1>4, <2>1 DEF DeadEnds
  <2>2. CASE row[t] # "revoked"
    <3>1. s \in Live /\ t \in Live
      BY <1>1, <1>2, <1>4, <2>2 DEF Committed, Live
    <3>2. s # t
      BY <1>4 DEF Live
    <3> QED
      BY <3>1, <3>2 DEF IInv, OneLivePerFamily
  <2> QED
    BY <2>1, <2>2
<1>5. DeadEnds'
  BY <1>4 DEF DeadEnds
<1> QED
  BY <1>1, <1>2, <1>3, <1>5

\* A rollback takes back rows that no chain knows of.
LEMMA UndoneChains ==
  ASSUME IInv, Chains, NEW undone \in SUBSET Calls, Undo(undone),
         UNCHANGED <<next, token, ids, cursor>>,
         \A k \in Calls : pc'[k] = pc[k] \/ pc'[k] \in {"refused", "dead"}
  PROVE  Chains'
<1> USE DEF IInv, Chains
<1>1. /\ \A s \in Committed : row'[s] = row[s] /\ root'[s] = root[s]
      /\ Committed' = Committed /\ Live' = Live
  BY DEF Undo, Replacements, Committed, Live, TypeOK
<1>2. SameLogin' /\ NoTrap'
  BY <1>1 DEF SameLogin, NoTrap, LinksAreCommitted, Committed
<1>3. DeadEnds'
  BY <1>1 DEF DeadEnds, Live, Committed
<1>4. Walks'
  BY <1>1 DEF Walks, CollectedAreCommitted
<1>5. AllRevoked'
  <2>1. \A s \in Sessions : row[s] = "revoked" => row'[s] = "revoked"
    BY <1>1 DEF Committed
  <2> QED
    BY <2>1 DEF AllRevoked, TypeOK
<1> QED
  BY <1>2, <1>3, <1>4, <1>5

\* Every step keeps the chains as they should be.
LEMMA ChainsInductive == IInv /\ Chains /\ [Next]_vars => Chains'
<1> SUFFICES ASSUME IInv, Chains, [Next]_vars PROVE Chains'
  OBVIOUS
<1> USE NoSessionAssumption
<1> USE DEF IInv, Chains, TypeOK, LinksAreCommitted, CollectedAreCommitted, Replacements, Rooted,
            OneLivePerFamily, SameLogin, NoTrap, DeadEnds, Walks, AllRevoked, Committed, Live,
            Optional, sessions
<1>1. ASSUME NEW s \in Sessions, SignIn(s) PROVE Chains'
  BY <1>1 DEF SignIn
<1>2. ASSUME NEW k \in Calls, NEW s \in Sessions, Present(k, s) PROVE Chains'
  BY <1>2 DEF Present, Goto
<1>3. ASSUME NEW k \in Calls, NEW s \in Sessions, Insert(k, s) PROVE Chains'
  BY <1>3 DEF Insert, Goto
<1>4. ASSUME NEW k \in Calls, Rotate(k) PROVE Chains'
  BY <1>4 DEF Rotate, StillActive, Goto
<1>5. ASSUME NEW k \in Calls, Rollback(k) PROVE Chains'
  BY <1>5, UndoneChains DEF Rollback, Goto
<1>6. ASSUME NEW k \in Calls, Walk(k) PROVE Chains'
  BY <1>6 DEF Walk
<1>7. ASSUME NEW k \in Calls, RevokeFamily(k) PROVE Chains'
  <2>1. ids[k] \in SUBSET Committed
    BY <1>7 DEF RevokeFamily
  <2>2. /\ SameLogin' /\ NoTrap' /\ DeadEnds' /\ Committed' = Committed
        /\ \A s \in Sessions : row'[s] = IF s \in ids[k] THEN "revoked" ELSE row[s]
    <3>1. row' = Revoked(ids[k]) /\ UNCHANGED <<next, root>>
      BY <1>7 DEF RevokeFamily, Family
    <3> HIDE DEF Chains, IInv, SameLogin, NoTrap, DeadEnds, Committed, Live
    <3> QED
      BY <2>1, <3>1, RevokedChains
  <2>3. /\ UNCHANGED <<root, token, ids, cursor>> /\ pc[k] = "walk"
        /\ pc' = [pc EXCEPT ![k] = "reuse"]
    BY <1>7 DEF RevokeFamily, Goto
  <2>4. Walks' /\ AllRevoked'
    BY <2>1, <2>2, <2>3
  <2> QED
    BY <2>2, <2>4
<1>8. ASSUME NEW k \in Calls, RevokeExpired(k) PROVE Chains'
  <2>1. {token[k]} \cap Live \in SUBSET Committed
    OBVIOUS
  <2>2. /\ SameLogin' /\ NoTrap' /\ DeadEnds' /\ Committed' = Committed
        /\ \A s \in Sessions : row[s] = "revoked" => row'[s] = "revoked"
    <3>1. row' = Revoked({token[k]} \cap Live) /\ UNCHANGED <<next, root>>
      BY <1>8 DEF RevokeExpired
    <3> HIDE DEF Chains, IInv, SameLogin, NoTrap, DeadEnds, Committed, Live
    <3> QED
      BY <2>1, <3>1, RevokedChains
  <2>3. UNCHANGED <<root, token, ids, cursor>> /\ pc' = [pc EXCEPT ![k] = "refused"]
    BY <1>8 DEF RevokeExpired, Goto
  <2>4. Walks' /\ AllRevoked'
    BY <2>2, <2>3
  <2> QED
    BY <2>2, <2>4
<1>9. ASSUME NEW s \in Sessions, SignOut(s) PROVE Chains'
  <2>1. {s} \in SUBSET Committed
    BY <1>9 DEF SignOut
  <2>2. /\ SameLogin' /\ NoTrap' /\ DeadEnds' /\ Committed' = Committed
        /\ \A t \in Sessions : row[t] = "revoked" => row'[t] = "revoked"
    <3>1. row' = Revoked({s}) /\ UNCHANGED <<next, root>>
      BY <1>9 DEF SignOut
    <3> HIDE DEF Chains, IInv, SameLogin, NoTrap, DeadEnds, Committed, Live
    <3> QED
      BY <2>1, <3>1, RevokedChains
  <2>3. UNCHANGED <<root, token, ids, cursor, pc>>
    BY <1>9 DEF SignOut
  <2>4. Walks' /\ AllRevoked'
    BY <2>2, <2>3
  <2> QED
    BY <2>2, <2>4
<1>10. ASSUME NEW k \in Calls, SignOutAll(k) PROVE Chains'
  BY <1>10 DEF SignOutAll, Goto
<1>11. ASSUME NEW k \in Calls, Sweep(k) PROVE Chains'
  <2>1. ids[k] \cap Live \in SUBSET Committed /\ ids[k] \subseteq Committed
    BY <1>11 DEF Sweep
  <2>2. /\ SameLogin' /\ NoTrap' /\ DeadEnds' /\ Committed' = Committed
        /\ \A s \in Sessions : row'[s] = IF s \in ids[k] \cap Live THEN "revoked" ELSE row[s]
    <3>1. row' = Revoked(ids[k] \cap Live) /\ UNCHANGED <<next, root>>
      BY <1>11 DEF Sweep, Swept
    <3> HIDE DEF Chains, IInv, SameLogin, NoTrap, DeadEnds, Committed, Live
    <3> QED
      BY <2>1, <3>1, RevokedChains
  <2>3. UNCHANGED <<root, token, ids, cursor>> /\ pc' = [pc EXCEPT ![k] = "swept"]
    BY <1>11 DEF Sweep, Goto
  <2>4. Walks' /\ AllRevoked'
    BY <2>1, <2>2, <2>3
  <2> QED
    BY <2>2, <2>4
<1>12. ASSUME NEW s \in Sessions, Expire(s) PROVE Chains'
  BY <1>12 DEF Expire
<1>13. ASSUME Crash PROVE Chains'
  BY <1>13, UndoneChains DEF Crash
<1>14. ASSUME UNCHANGED vars PROVE Chains'
  BY <1>14 DEF vars
<1> QED
  BY <1>1, <1>2, <1>3, <1>4, <1>5, <1>6, <1>7, <1>8, <1>9, <1>10, <1>11, <1>12, <1>13, <1>14
     DEF Next, Environment, Step

\* The chains are well formed in every behaviour.
LEMMA ChainInvariance == Spec => [](IInv /\ Chains)
BY InitialChains, ChainsInductive, Invariance, PTL DEF Spec

\* When the walk of a reused token saw the whole chain, the login is over: what it
\* revoked includes the chain's end, and nothing live descends past an end.
THEOREM ReuseCloses == Spec => []ReuseClosesFamily
<1>1. ASSUME IInv, Chains PROVE ReuseClosesFamily
  <2> SUFFICES ASSUME NEW k \in Calls, pc[k] = "reuse",
                      \A s \in ids[k] : next[s] \in ids[k] \cup {None},
                      NEW s \in Live
               PROVE  root[s] # root[token[k]]
    BY DEF ReuseClosesFamily
  <2>1. ids[k] \in SUBSET Committed /\ ids[k] # {}
    BY <1>1 DEF Chains, Walks
  <2>2. PICK t \in ids[k] : next[t] \notin ids[k]
    BY <1>1, <2>1 DEF Chains, NoTrap
  <2>3. next[t] = None /\ row[t] = "revoked" /\ root[t] = root[token[k]] /\ t \in Sessions
    BY <1>1, <2>1, <2>2 DEF Chains, Walks, AllRevoked, Committed
  <2> QED
    BY <1>1, <2>3 DEF Chains, DeadEnds
<1> QED
  BY <1>1, ChainInvariance, PTL

\* A login whose session sign-out-all revoked, and which no refresh continued behind
\* the UPDATE's snapshot, has no live session left.
THEOREM SweepCloses == Spec => []SweepClosesFamilies
<1>1. ASSUME IInv, Chains PROVE SweepClosesFamilies
  BY <1>1 DEF SweepClosesFamilies, IInv, TypeOK, Chains, AllRevoked, DeadEnds
<1> QED
  BY <1>1, ChainInvariance, PTL
=============================================================================
