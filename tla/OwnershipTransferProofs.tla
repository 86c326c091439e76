----------------------- MODULE OwnershipTransferProofs -----------------------
(***************************************************************************)
(* Theorems about OwnershipTransfer for every set of chats, replies,       *)
(* sign-ins and users.                                                     *)
(*                                                                         *)
(* The invariant divides time by the anonymous session.  While its row is  *)
(* there nothing has changed hands (Before); once it is gone nothing is    *)
(* the visitor's any more (After).  The one sign-in that deletes it is the *)
(* one that holds rows of the visitor's (Serial, Holding), and by then it  *)
(* holds all it found (Gathered).                                          *)
(***************************************************************************)
EXTENDS OwnershipTransfer, TLAPS

Serial ==
  /\ \A t \in deleter : session /\ stage[t] = "commit"
  /\ \A s, t \in deleter : s = t
  /\ \A t \in Transfers : stage[t] = "commit" /\ session => t \in deleter
  /\ \A t \in Transfers : stage[t] # "idle" => user[t] \in Users

Holding ==
  /\ \A t \in Transfers : \A row \in moved[t] :
       /\ row \in Chats => chat[row] = Visitor
       /\ row \in Records => usage[row] = Visitor
  /\ \A t \in deleter : \A other \in Transfers : other # t => moved[other] = {}

Before ==
  session => /\ \A c \in Chats : chat[c] \in {"none", "pending", "deleted", Visitor}
             /\ \A k \in Records : usage[k] \in {"none", Visitor} /\ seen[k] \notin Users

Referred(k) == call[k] = "open" /\ OwnerOf(k) = Visitor

After ==
  ~session => /\ \A c \in Chats : chat[c] \notin {"pending", Visitor}
              /\ \A k \in Records : usage[k] # Visitor /\ ~Referred(k)

Quiet ==
  deleter # {} => /\ \A c \in Chats : chat[c] # "pending"
                  /\ \A k \in Records : ~Referred(k)

Drafts ==
  \A k \in Records :
    /\ call[k] # "done" => usage[k] = "none"
    /\ call[k] # "idle" => /\ of[k] \in Chats /\ chat[of[k]] \notin {"none", "pending"}
                           /\ seen[k] \in Owners \cup {"gone"}

\* What a reply's transaction read of a user's chat stays true until it is deleted.
SeenStays ==
  \A k \in Records :
    /\ (call[k] # "idle" /\ seen[k] \in Users) => chat[of[k]] \in {seen[k], "deleted"}
    /\ usage[k] \in Users => chat[of[k]] \in {usage[k], "deleted", "lost"}

Gathered ==
  session =>
    \A t \in Transfers :
      /\ \A c \in found[t] : chat[c] \in {"deleted", Visitor}
      /\ \A k \in billed[t] : usage[k] = Visitor
      /\ stage[t] = "lockChats" => \A c \in found[t] : chat[c] = Visitor => c \in scan[t]
      /\ stage[t] \in {"usage", "lockUsage", "session", "commit"}
           => \A c \in found[t] : chat[c] = Visitor => c \in moved[t]
      /\ stage[t] = "lockUsage" => billed[t] \subseteq scan[t]
      /\ stage[t] \in {"session", "commit"} => billed[t] \subseteq moved[t]

IInv ==
  /\ TypeOK /\ Serial /\ Holding /\ Before /\ After /\ Quiet /\ Drafts /\ SeenStays
  /\ Gathered /\ LateReplyIsBilled

-----------------------------------------------------------------------------
\* The statements follow each other in the order of the code.
LEMMA Order ==
  /\ Following("find") = "chats" /\ Following("chats") = "usage"
  /\ Following("usage") = "session" /\ Following("session") = "commit"
  /\ Waiting["chats"] = "lockChats" /\ Waiting["usage"] = "lockUsage"
BY DEF Following, Waiting

\* With nothing created nothing can have changed hands.
LEMMA InitialInv == Init => IInv
BY OwnersAssumption, WordsAssumption
   DEF Init, IInv, TypeOK, Serial, Holding, Before, After, Quiet, Drafts, SeenStays, Gathered,
       LateReplyIsBilled, Owners, Statements, Referred

\* Every step keeps the invariant.
LEMMA Inductive == IInv /\ [Next]_vars => IInv'
<1> SUFFICES ASSUME IInv, [Next]_vars PROVE IInv'
  OBVIOUS
<1> USE OwnersAssumption, RowsAssumption, WordsAssumption, Order
<1> USE DEF IInv, TypeOK, Serial, Holding, Before, After, Quiet, Drafts, SeenStays, Gathered,
            LateReplyIsBilled, Referred, OwnerOf, transfer, record, Owners, Alive, Statements
<1>1. ASSUME NEW c \in Chats, CreateChat(c) PROVE IInv'
  BY <1>1 DEF CreateChat
<1>2. ASSUME NEW c \in Chats, EndCreateChat(c) PROVE IInv'
  BY <1>2 DEF EndCreateChat
<1>3. ASSUME NEW c \in Chats, DeleteChat(c) PROVE IInv'
  BY <1>3 DEF DeleteChat, Locked
<1>4. ASSUME NEW k \in Records, NEW c \in Chats, ReadOwner(k, c) PROVE IInv'
  BY <1>4 DEF ReadOwner
<1>5. ASSUME NEW k \in Records, InsertUsage(k) PROVE IInv'
  BY <1>5 DEF InsertUsage, ForeignKeysHold
<1>6. ASSUME NEW k \in Records, CommitUsage(k) PROVE IInv'
  <2>1. /\ call[k] = "open" /\ call' = [call EXCEPT ![k] = "done"]
        /\ usage' = [usage EXCEPT ![k] = OwnerOf(k)]
        /\ UNCHANGED <<chat, session, deleter, stage, user, found, scan, moved, billed, of, seen>>
    BY <1>6 DEF CommitUsage
  <2>2. /\ OwnerOf(k) \in Owners /\ usage[k] = "none"
        /\ \A t \in Transfers : k \notin moved[t] /\ (session => k \notin billed[t])
    BY <2>1
  <2>3. session => OwnerOf(k) = Visitor
    BY <2>1
  <2>4. TypeOK' /\ Serial' /\ Holding'
    BY <2>1, <2>2
  <2>5. Before' /\ After' /\ Quiet'
    BY <2>1, <2>2, <2>3
  <2>6. Drafts' /\ SeenStays' /\ LateReplyIsBilled'
    BY <2>1, <2>2
  <2>7. Gathered'
    BY <2>1, <2>2
  <2> QED
    BY <2>4, <2>5, <2>6, <2>7
<1>7. ASSUME NEW t \in Transfers, NEW u \in Users, SignIn(t, u) PROVE IInv'
  BY <1>7 DEF SignIn
<1>8. ASSUME NEW t \in Transfers, FindChats(t) PROVE IInv'
  BY <1>8 DEF FindChats, VisitorsChats, VisitorsUsage
<1>9. ASSUME NEW t \in Transfers, Scan(t) PROVE IInv'
  BY <1>9 DEF Scan, VisitorsChats, VisitorsUsage
<1>10. ASSUME NEW t \in Transfers, Update(t) PROVE IInv'
  BY <1>10 DEF Update, StillVisitors, VisitorsChats, VisitorsUsage
<1>11. ASSUME NEW t \in Transfers, DeleteSession(t) PROVE IInv'
  BY <1>11 DEF DeleteSession, Referring, VisitorsChats, VisitorsUsage
<1>12. ASSUME NEW t \in Transfers, Commit(t) PROVE IInv'
  <2>1. UNCHANGED <<user, found, billed, call, of, seen>>
    BY <1>12 DEF Commit, Release
  <2>2. /\ deleter' = deleter \ {t} /\ stage' = [stage EXCEPT ![t] = "done"]
        /\ moved' = [moved EXCEPT ![t] = {}] /\ scan' = [scan EXCEPT ![t] = {}]
    BY <1>12 DEF Commit, Release
  <2>0. /\ stage' \in [Transfers -> Statements \cup {"idle", "lockChats", "lockUsage", "done", "failed"}]
        /\ moved' \in [Transfers -> SUBSET (Chats \cup Records)]
        /\ scan' \in [Transfers -> SUBSET (Chats \cup Records)]
        /\ deleter' \in SUBSET Transfers /\ session' \in BOOLEAN
    BY <1>12, <2>2 DEF Commit
  <2>3. CASE t \in deleter
    <3>1. session /\ ~session' /\ deleter' = {} /\ user[t] \in Users
      <4>1. session /\ stage[t] = "commit" /\ \A s \in deleter : s = t
        BY <2>3
      <4>2. session' = FALSE
        BY <1>12, <2>3 DEF Commit
      <4> QED
        BY <2>2, <4>1, <4>2
    <3>2. \A c \in Chats : chat'[c] = IF c \in moved[t] THEN user[t]
                                      ELSE IF chat[c] = Visitor THEN "lost" ELSE chat[c]
      BY <1>12, <2>3 DEF Commit
    <3>3. \A k \in Records : usage'[k] = IF k \in moved[t] THEN user[t]
                                         ELSE IF usage[k] = Visitor THEN "nobody" ELSE usage[k]
      BY <1>12, <2>3 DEF Commit
    <3>4. TypeOK'
      <4>1. chat' \in [Chats -> Owners \cup {"none", "pending", "deleted", "lost"}]
        BY <1>12, <3>1, <3>2 DEF Commit
      <4>2. usage' \in [Records -> Owners \cup {"none", "nobody"}]
        BY <1>12, <3>1, <3>3 DEF Commit
      <4> QED
        BY <2>1, <2>0, <4>1, <4>2
    <3>5. Serial' /\ Holding'
      <4>1. \A other \in Transfers : moved'[other] = {}
        BY <2>2, <2>3
      <4> QED
        BY <2>1, <2>2, <3>1, <4>1
    <3>6. Before' /\ After' /\ Quiet'
      BY <2>1, <2>3, <3>1, <3>2, <3>3
    <3>7. Drafts' /\ SeenStays' /\ LateReplyIsBilled'
      BY <2>1, <3>1, <3>2, <3>3
    <3>8. Gathered'
      BY <3>1
    <3> QED
      BY <3>4, <3>5, <3>6, <3>7, <3>8
  <2>4. CASE t \notin deleter
    <3>1. ~session /\ ~session' /\ deleter = {} /\ deleter' = {}
      BY <1>12, <2>2, <2>4 DEF Commit
    <3>2. \A row \in moved[t] : row \notin Chats /\ row \notin Records
      BY <3>1
    <3>3. chat' = chat /\ usage' = usage
      BY <1>12, <2>4, <3>2 DEF Commit
    <3>4. TypeOK'
      BY <2>0, <2>1, <3>3
    <3>5. Serial' /\ Holding'
      <4>1. /\ moved'[t] = {} /\ stage'[t] = "done" /\ user'[t] \in Users
            /\ \A o \in Transfers \ {t} : moved'[o] = moved[o] /\ stage'[o] = stage[o]
        BY <1>12, <2>1, <2>2 DEF Commit
      <4>2. Serial'
        BY <2>1, <3>1, <4>1
      <4>3. Holding'
        BY <3>1, <3>3, <4>1
      <4> QED
        BY <4>2, <4>3
    <3>6. Before' /\ After' /\ Quiet' /\ Gathered'
      BY <2>1, <3>1, <3>3
    <3>7. Drafts' /\ SeenStays' /\ LateReplyIsBilled'
      BY <2>1, <3>3
    <3> QED
      BY <3>4, <3>5, <3>6, <3>7
  <2> QED
    BY <2>3, <2>4
<1>13. ASSUME NEW t \in Transfers, Rollback(t) PROVE IInv'
  BY <1>13 DEF Rollback, Release
<1>14. ASSUME UNCHANGED vars PROVE IInv'
  BY <1>14 DEF vars
<1> QED
  BY <1>1, <1>2, <1>3, <1>4, <1>5, <1>6, <1>7, <1>8, <1>9, <1>10, <1>11, <1>12, <1>13, <1>14 DEF Next

-----------------------------------------------------------------------------
\* The invariant holds in every reachable state.
THEOREM Invariance == Spec => []IInv
BY InitialInv, Inductive, PTL DEF Spec

\* Every variable stays within its type.
THEOREM TransferTypes == Spec => []TypeOK
<1>1. IInv => TypeOK
  BY DEF IInv
<1> QED
  BY <1>1, Invariance, PTL

\* A reply recorded after the chat changed hands is billed to the new owner, unless
\* the chat was deleted: with the owner read from the chat no foreign key can fail.
THEOREM LateReplies == Spec => []LateReplyIsBilled
<1>1. IInv => LateReplyIsBilled
  BY DEF IInv
<1> QED
  BY <1>1, Invariance, PTL

\* Usage and chat never belong to different users, however many sign-ins race.
THEOREM UsageWithChat == Spec => []UsageFollowsChat
<1>1. IInv => UsageFollowsChat
  <2> SUFFICES ASSUME IInv, NEW k \in Records, usage[k] \in Users, chat[of[k]] \in Users
               PROVE  usage[k] = chat[of[k]]
    BY DEF UsageFollowsChat
  <2> QED
    BY WordsAssumption DEF IInv, SeenStays
<1> QED
  BY <1>1, Invariance, PTL

\* A chat changes hands at most once: rows that a second sign-in holds locked are
\* the visitor's, so its commit touches none that is a user's.
THEOREM Once == Spec => TransfersOnce
<1>1. IInv /\ [Next]_vars => [\A c \in Chats : chat[c] \in Users => chat'[c] \in {chat[c], "deleted"}]_vars
  <2> SUFFICES ASSUME IInv, Next, NEW c \in Chats, chat[c] \in Users
               PROVE  chat'[c] \in {chat[c], "deleted"}
    BY DEF vars
  <2> USE OwnersAssumption, WordsAssumption DEF IInv, TypeOK, transfer, record
  <2>1. ASSUME NEW d \in Chats, CreateChat(d) \/ EndCreateChat(d) \/ DeleteChat(d)
        PROVE  chat'[c] \in {chat[c], "deleted"}
    BY <2>1 DEF CreateChat, EndCreateChat, DeleteChat
  <2>2. ASSUME NEW t \in Transfers, Commit(t) PROVE chat'[c] = chat[c]
    <3>1. c \notin moved[t] /\ chat[c] # Visitor
      BY DEF Holding
    <3> QED
      BY <2>2, <3>1 DEF Commit
  <2>3. \/ UNCHANGED chat
        \/ \E d \in Chats : CreateChat(d) \/ EndCreateChat(d) \/ DeleteChat(d)
        \/ \E t \in Transfers : Commit(t)
    BY DEF Next, ReadOwner, InsertUsage, CommitUsage, SignIn, FindChats, Scan, Update,
           DeleteSession, Rollback, Release
  <2> QED
    BY <2>1, <2>2, <2>3
<1> QED
  BY <1>1, Invariance, PTL DEF Spec, TransfersOnce

\* Only a sign-in's own commit takes it from its last statement to its end.
LEMMA CommitIsCommit ==
  ASSUME IInv, Next, NEW t \in Transfers, Commits(t)
  PROVE  Commit(t)
<1> USE DEF IInv, TypeOK, Commits, transfer, Statements
<1>1. stage[t] = "commit" /\ stage'[t] = "done" /\ stage' # stage
  OBVIOUS
<1>2. PICK s \in Transfers : \/ \E u \in Users : SignIn(s, u)
                             \/ FindChats(s) \/ Scan(s) \/ Update(s) \/ DeleteSession(s)
                             \/ Commit(s) \/ Rollback(s)
  BY <1>1 DEF Next, CreateChat, EndCreateChat, DeleteChat, ReadOwner, InsertUsage, CommitUsage
<1>3. s = t
  BY <1>1, <1>2 DEF SignIn, FindChats, Scan, Update, DeleteSession, Commit, Rollback, Release
<1> QED
  BY <1>1, <1>2, <1>3 DEF SignIn, FindChats, Scan, Update, DeleteSession, Rollback, Release

\* The sign-in that ends the anonymous session has locked every chat it found, so
\* its cascade takes none of them.
THEOREM FoundChats == Spec => FoundChatsSurvive
<1>1. ASSUME IInv, Next, NEW t \in deleter, Commits(t), NEW c \in found[t]
      PROVE  chat'[c] \in Users \cup {"deleted"}
  <2> USE DEF IInv, TypeOK
  <2>1. Commit(t) /\ c \in Chats /\ user[t] \in Users
    BY <1>1, CommitIsCommit DEF Serial, Commits
  <2>2. chat[c] \in {"deleted", Visitor} /\ (chat[c] = Visitor => c \in moved[t])
    BY <1>1, <2>1 DEF Gathered, Serial
  <2> QED
    BY <1>1, <2>1, <2>2, OwnersAssumption, WordsAssumption DEF Commit
<1>2. IInv /\ [Next]_vars
        => [\A t \in deleter :
              Commits(t) => \A c \in found[t] : chat'[c] \in Users \cup {"deleted"}]_vars
  BY <1>1 DEF vars
<1> QED
  BY <1>2, Invariance, PTL DEF Spec, FoundChatsSurvive

\* Its reassignment has locked all the usage there was, so SET NULL orphans none of it.
THEOREM BilledUsage == Spec => BilledUsageSurvives
<1>1. ASSUME IInv, Next, NEW t \in deleter, Commits(t), NEW k \in billed[t]
      PROVE  usage'[k] \in Users
  <2> USE DEF IInv, TypeOK
  <2>1. Commit(t) /\ k \in Records /\ user[t] \in Users
    BY <1>1, CommitIsCommit DEF Serial, Commits
  <2>2. k \in moved[t]
    BY <1>1, <2>1 DEF Gathered, Serial
  <2> QED
    BY <2>1, <2>2 DEF Commit
<1>2. IInv /\ [Next]_vars
        => [\A t \in deleter : Commits(t) => \A k \in billed[t] : usage'[k] \in Users]_vars
  BY <1>1 DEF vars
<1> QED
  BY <1>2, Invariance, PTL DEF Spec, BilledUsageSurvives
=============================================================================
