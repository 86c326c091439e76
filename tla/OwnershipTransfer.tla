-------------------------- MODULE OwnershipTransfer --------------------------
(***************************************************************************)
(* What an anonymous visitor owns, while it signs in: the statements of    *)
(* AuthRepository.transferAnonymousChats beside the creation and deletion  *)
(* of the visitor's chats, the usage rows of the replies generated in      *)
(* them, and other sign-ins that carry the same anonymous cookie.          *)
(*                                                                         *)
(* PostgreSQL at READ COMMITTED: the variables chat, usage and session are *)
(* what is committed.  An UPDATE scans a snapshot and, having waited for   *)
(* the row locks of other transactions, checks its WHERE again.  A foreign *)
(* key holds a key-share lock on the row it refers to, and a DELETE of     *)
(* that row waits for it, then cascades to what is committed by then.      *)
(***************************************************************************)
EXTENDS FiniteSets

CONSTANTS Chats,      \* chats the visitor creates
          Records,    \* replies in them, each with a usage row to write
          Transfers,  \* sign-ups and sign-ins that carry the visitor's cookie
          Users,
          Visitor     \* the anonymous session, as an owner

ASSUME OwnersAssumption == Visitor \notin Users
ASSUME RowsAssumption == Chats \cap Records = {}
ASSUME WordsAssumption ==
  (Users \cup {Visitor}) \cap {"none", "pending", "deleted", "lost", "nobody", "gone"} = {}

VARIABLES
  chat,     \* chat[c]: its owner, or why it has none
  usage,    \* usage[k]: the owner of the usage row of k, or "none", or "nobody"
  session,  \* whether the anonymous session's row is committed
  deleter,  \* the transfers that hold that row deleted, uncommitted (at most one)
  stage,    \* stage[t]: the statement transfer t is at
  user,     \* user[t]: who signed in
  found,    \* found[t]: the chats findMany returned
  scan,     \* scan[t]: the rows in the snapshot of the running UPDATE
  moved,    \* moved[t]: the rows it has updated and holds locked
  billed,   \* billed[t]: the visitor's usage rows when t began (history variable)
  call,     \* call[k]: where usage.create for k stands
  of,       \* of[k]: the chat of the reply
  seen      \* seen[k]: the owner of that chat as the transaction read it

vars == <<chat, usage, session, deleter, stage, user, found, scan, moved, billed,
          call, of, seen>>
transfer == <<stage, user, found, scan, moved, billed>>
record == <<call, of, seen>>

Owners == Users \cup {Visitor}
Alive(c) == chat[c] \in Owners
Locked(row) == \E t \in Transfers : row \in moved[t]

Init ==
  /\ chat = [c \in Chats |-> "none"]
  /\ usage = [k \in Records |-> "none"]
  /\ session = TRUE /\ deleter = {}
  /\ stage = [t \in Transfers |-> "idle"]
  /\ user = [t \in Transfers |-> Visitor]
  /\ found = [t \in Transfers |-> {}]
  /\ scan = [t \in Transfers |-> {}]
  /\ moved = [t \in Transfers |-> {}]
  /\ billed = [t \in Transfers |-> {}]
  /\ call = [k \in Records |-> "idle"]
  /\ of = [k \in Records |-> "none"]
  /\ seen = [k \in Records |-> "none"]

-----------------------------------------------------------------------------
(* Chats                                                                   *)

\* createChat for the visitor: the insert waits while the session is being
\* deleted and fails once it is gone ...
CreateChat(c) ==
  /\ chat[c] = "none" /\ session /\ deleter = {}
  /\ chat' = [chat EXCEPT ![c] = "pending"]
  /\ UNCHANGED <<usage, session, deleter, transfer, record>>

\* ... and its transaction ends after the first message.
EndCreateChat(c) ==
  /\ chat[c] = "pending"
  /\ \E end \in {Visitor, "none"} : chat' = [chat EXCEPT ![c] = end]
  /\ UNCHANGED <<usage, session, deleter, transfer, record>>

\* ChatsService.delete, by whoever owns the chat; its usage rows stay.
DeleteChat(c) ==
  /\ Alive(c) /\ ~Locked(c)
  /\ chat[c] = Visitor => deleter = {}
  /\ \A k \in Records : ~(call[k] = "open" /\ of[k] = c /\ seen[k] # "gone")
  /\ chat' = [chat EXCEPT ![c] = "deleted"]
  /\ UNCHANGED <<usage, session, deleter, transfer, record>>

-----------------------------------------------------------------------------
(* UsageRepository.create for a reply generated for the visitor            *)

\* The transaction reads the chat's owner.
ReadOwner(k, c) ==
  /\ call[k] = "idle" /\ chat[c] \notin {"none", "pending"}
  /\ of' = [of EXCEPT ![k] = c]
  /\ seen' = [seen EXCEPT ![k] = IF Alive(c) THEN chat[c] ELSE "gone"]
  /\ call' = [call EXCEPT ![k] = "insert"]
  /\ UNCHANGED <<chat, usage, session, deleter, transfer>>

\* The chat's owner; the principal's columns when there is no chat.
\* (..Principal: always the principal's.  ..Seen: no fallback.)
OwnerOfPrincipal(k) == Visitor
OwnerOfSeen(k) == seen[k]
OwnerOf(k) == IF seen[k] \in Owners THEN seen[k] ELSE Visitor

ForeignKeysHold(k) ==
  /\ OwnerOf(k) = Visitor => session
  /\ seen[k] # "gone" => Alive(of[k])

\* The insert; when a row it refers to is gone it fails, and record() logs that.
InsertUsage(k) ==
  /\ call[k] = "insert"
  /\ OwnerOf(k) = Visitor => deleter = {}
  /\ call' = [call EXCEPT ![k] = IF ForeignKeysHold(k) THEN "open" ELSE "failed"]
  /\ UNCHANGED <<chat, usage, session, deleter, transfer, of, seen>>

CommitUsage(k) ==
  /\ call[k] = "open"
  /\ usage' = [usage EXCEPT ![k] = OwnerOf(k)]
  /\ call' = [call EXCEPT ![k] = "done"]
  /\ UNCHANGED <<chat, session, deleter, transfer, of, seen>>

-----------------------------------------------------------------------------
(* transferAnonymousChats, and the transaction around it                   *)

Statements == {"find", "chats", "usage", "session", "commit"}

\* (..SessionFirst: the session's row is deleted before the UPDATEs.)
FollowingSessionFirst(statement) ==
  CASE statement = "find"    -> "session"
    [] statement = "session" -> "chats"
    [] statement = "chats"   -> "usage"
    [] OTHER                 -> "commit"
Following(statement) ==
  CASE statement = "find"  -> "chats"
    [] statement = "chats" -> "usage"
    [] statement = "usage" -> "session"
    [] OTHER               -> "commit"

\* The visitor's rows as transfer t sees them: not those it deleted itself.
VisitorsChats(t) == IF t \in deleter THEN {} ELSE {c \in Chats : chat[c] = Visitor}
VisitorsUsage(t) == IF t \in deleter THEN {} ELSE {k \in Records : usage[k] = Visitor}

\* The anonymous principal was resolved while its session existed.
SignIn(t, u) ==
  /\ stage[t] = "idle" /\ session
  /\ stage' = [stage EXCEPT ![t] = "find"]
  /\ user' = [user EXCEPT ![t] = u]
  /\ UNCHANGED <<chat, usage, session, deleter, found, scan, moved, billed, record>>

FindChats(t) ==
  /\ stage[t] = "find"
  /\ found' = [found EXCEPT ![t] = VisitorsChats(t)]
  /\ billed' = [billed EXCEPT ![t] = VisitorsUsage(t)]
  /\ stage' = [stage EXCEPT ![t] = Following("find")]
  /\ UNCHANGED <<chat, usage, session, deleter, user, scan, moved, record>>

Waiting == [chats |-> "lockChats", usage |-> "lockUsage"]

\* An UPDATE takes its snapshot ...
Scan(t) ==
  /\ stage[t] \in {"chats", "usage"}
  /\ scan' = [scan EXCEPT ![t] = IF stage[t] = "chats" THEN VisitorsChats(t)
                                                      ELSE VisitorsUsage(t)]
  /\ stage' = [stage EXCEPT ![t] = Waiting[stage[t]]]
  /\ UNCHANGED <<chat, usage, session, deleter, user, found, moved, billed, record>>

\* (..Unchecked: what was the visitor's when it was scanned.)
StillVisitorsUnchecked(t) == scan[t]
StillVisitors(t) == scan[t] \cap (VisitorsChats(t) \cup VisitorsUsage(t))

\* ... and writes the rows that are the visitor's still, once it has their locks:
\* neither another UPDATE nor another sign-in's cascade holds them.
Update(t) ==
  /\ stage[t] \in {"lockChats", "lockUsage"}
  /\ \A other \in Transfers \ {t} : scan[t] \cap moved[other] = {}
  /\ StillVisitors(t) = {} \/ deleter \subseteq {t}
  /\ moved' = [moved EXCEPT ![t] = @ \cup StillVisitors(t)]
  /\ scan' = [scan EXCEPT ![t] = {}]
  /\ stage' = [stage EXCEPT ![t] = Following(IF stage[t] = "lockChats" THEN "chats" ELSE "usage")]
  /\ UNCHANGED <<chat, usage, session, deleter, user, found, billed, record>>

\* Inserts that refer to the session's row and are not committed yet.
Referring ==
  {c \in Chats : chat[c] = "pending"}
    \cup {k \in Records : call[k] = "open" /\ OwnerOf(k) = Visitor}

\* DELETE of the session's row: no row matches when it is gone already.
DeleteSession(t) ==
  /\ stage[t] = "session"
  /\ deleter = {}
  /\ \/ ~session /\ UNCHANGED deleter
     \/ /\ session /\ Referring = {}
        /\ \A other \in Transfers \ {t} :
             moved[other] \cap (VisitorsChats(t) \cup VisitorsUsage(t)) = {}
        /\ deleter' = {t}
  /\ stage' = [stage EXCEPT ![t] = Following("session")]
  /\ UNCHANGED <<chat, usage, session, user, found, scan, moved, billed, record>>

Release(t, end) ==
  /\ deleter' = deleter \ {t}
  /\ moved' = [moved EXCEPT ![t] = {}]
  /\ scan' = [scan EXCEPT ![t] = {}]
  /\ stage' = [stage EXCEPT ![t] = end]
  /\ UNCHANGED <<user, found, billed, record>>

\* What t updated is its user's; of the visitor's other rows the cascade deletes
\* the chats, and SET NULL keeps the usage without an owner.
Commit(t) ==
  /\ stage[t] = "commit"
  /\ chat' = [c \in Chats |->
                CASE c \in moved[t]                       -> user[t]
                  [] c \notin moved[t] /\ t \in deleter /\ chat[c] = Visitor -> "lost"
                  [] OTHER                                -> chat[c]]
  /\ usage' = [k \in Records |->
                 CASE k \in moved[t]                      -> user[t]
                   [] k \notin moved[t] /\ t \in deleter /\ usage[k] = Visitor -> "nobody"
                   [] OTHER                               -> usage[k]]
  /\ session' = (session /\ t \notin deleter)
  /\ Release(t, "done")

\* Any statement fails, createSessionRecord included, or the process dies.
Rollback(t) ==
  /\ stage[t] \notin {"idle", "done", "failed"}
  /\ Release(t, "failed")
  /\ UNCHANGED <<chat, usage, session>>

-----------------------------------------------------------------------------
Next ==
  \/ \E c \in Chats : CreateChat(c) \/ EndCreateChat(c) \/ DeleteChat(c)
  \/ \E k \in Records : \/ \E c \in Chats : ReadOwner(k, c)
                        \/ InsertUsage(k) \/ CommitUsage(k)
  \/ \E t \in Transfers : \/ \E u \in Users : SignIn(t, u)
                          \/ FindChats(t) \/ Scan(t) \/ Update(t) \/ DeleteSession(t)
                          \/ Commit(t) \/ Rollback(t)

Spec == Init /\ [][Next]_vars

-----------------------------------------------------------------------------
(* Properties                                                              *)

\* Every variable stays within its type.
TypeOK ==
  /\ chat \in [Chats -> Owners \cup {"none", "pending", "deleted", "lost"}]
  /\ usage \in [Records -> Owners \cup {"none", "nobody"}]
  /\ session \in BOOLEAN /\ deleter \in SUBSET Transfers
  /\ stage \in [Transfers -> Statements \cup {"idle", "lockChats", "lockUsage", "done", "failed"}]
  /\ user \in [Transfers -> Owners]
  /\ found \in [Transfers -> SUBSET Chats]
  /\ scan \in [Transfers -> SUBSET (Chats \cup Records)]
  /\ moved \in [Transfers -> SUBSET (Chats \cup Records)]
  /\ billed \in [Transfers -> SUBSET Records]
  /\ call \in [Records -> {"idle", "insert", "open", "done", "failed"}]
  /\ of \in [Records -> Chats \cup {"none"}]
  /\ seen \in [Records -> Owners \cup {"none", "gone"}]

\* A chat changes hands once: of two sign-ins that carry one cookie the later one
\* takes nothing from the earlier ("anonymous chats transfer exactly once").
TransfersOnce ==
  [][\A c \in Chats : chat[c] \in Users => chat'[c] \in {chat[c], "deleted"}]_vars

Commits(t) == stage[t] = "commit" /\ stage'[t] = "done"

\* The sign-in that ends the anonymous session leaves every chat it found when it
\* began to a user, unless somebody deleted it: none falls to its cascade.
FoundChatsSurvive ==
  [][\A t \in deleter :
       Commits(t) => \A c \in found[t] : chat'[c] \in Users \cup {"deleted"}]_vars

\* It leaves the usage the visitor had when it began to a user: the reassignment
\* runs before SET NULL could orphan it.
BilledUsageSurvives ==
  [][\A t \in deleter : Commits(t) => \A k \in billed[t] : usage'[k] \in Users]_vars

\* A usage row and the chat it is about never belong to different users.
UsageFollowsChat ==
  \A k \in Records :
    (usage[k] \in Users /\ chat[of[k]] \in Users) => usage[k] = chat[of[k]]

\* A reply that is recorded after the chat's transfer is recorded, for the new
\* owner: only the deletion of the chat can prevent that.
LateReplyIsBilled ==
  \A k \in Records :
    (call[k] = "failed" /\ seen[k] \in Users) => chat[of[k]] = "deleted"

\* "On sign-up or sign-in, transfer all chats for the current anonymous session":
\* signing in loses none of the visitor's chats.
NoChatIsLost == \A c \in Chats : chat[c] # "lost"
=============================================================================
