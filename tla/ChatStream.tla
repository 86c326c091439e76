----------------------------- MODULE ChatStream -----------------------------
(***************************************************************************)
(* One POST /chats/:chatId/messages/stream request from its first await to *)
(* the release of its locks: ChatStreamService.stream and everything it    *)
(* calls that changes PostgreSQL or Redis - the Redis locks, the history   *)
(* cache, the message rows, the usage row - together with the operations   *)
(* that run beside it: the client's disconnect, the deletion of the chat,  *)
(* the transfer of an anonymous owner's chats, the expiry of keys, and the *)
(* death of the API process.                                               *)
(*                                                                         *)
(* Every await of the code is a step boundary, so requests interleave      *)
(* wherever the event loop, or a second replica, could interleave them.    *)
(* A request carries its own random lock tokens: the request itself stands *)
(* for them.  A message's id is its position in its chat; a history is the *)
(* set of the ids it holds, since every history is built in id order.      *)
(***************************************************************************)
EXTENDS Naturals, Sequences, FiniteSets

CONSTANTS Requests,    \* stream requests, each made at most once
          Chats,
          Anonymous,   \* principals that are anonymous sessions
          Users,       \* principals that are signed-in users
          Slots,       \* MAX_ACTIVE_GENERATIONS_PER_PRINCIPAL
          Faults,      \* which faults the environment may produce
          None

ASSUME SlotsAssumption == Slots \in Nat \ {0}
ASSUME FaultsAssumption == Faults \subseteq {"redis", "db", "crash", "lapse"}
ASSUME NoneAssumption == None \notin Requests \cup Chats \cup Anonymous \cup Users
ASSUME PrincipalsAssumption == Anonymous \cap Users = {}

Principals == Anonymous \cup Users
SlotKeys == Principals \X (0 .. Slots - 1)
Holder == Requests \cup {None}

VARIABLES
  owner,         \* owner[c]: the principal in the chat row, None once deleted
  messages,      \* messages[c]: the message rows of the chat, oldest first
  usage,         \* requests whose CHAT usage row was written
  cache,         \* cache[c]: the history under the chat's Redis key, or None
  chatLock,      \* chatLock[c]: holder of generation-lock:<c>
  slotLock,      \* slotLock[<<p, s>>]: holder of principal-generation-lock:<p>:<s>
  historyLock,   \* historyLock[c]: holder of history-lock:<c>
  invalidating,  \* chats whose deletion or transfer is still to drop the cache
  pc,            \* pc[r]: the await the request stands at
  task,          \* task[r]: on whose behalf it runs a history subroutine
  chat, principal, slot,
  buffer,        \* buffer[r]: the history the running subroutine has in hand
  history,       \* history[r]: the history the prompt is built from
  question,      \* question[r]: id of its user message, 0 before beginGeneration
  aborted,       \* aborted[r]: its AbortSignal has fired
  event          \* event[r]: the closing event it sent to the client

database == <<owner, messages, usage>>
locks == <<chatLock, slotLock, historyLock>>
place == <<chat, principal, slot>>
turn == <<buffer, history, question>>
vars == <<database, cache, locks, invalidating, pc, task, place, turn, aborted, event>>

-----------------------------------------------------------------------------
(* Messages and histories                                                  *)

Statuses == {"STREAMING", "COMPLETED", "FAILED", "CANCELLED"}
Message == [role : {"USER", "ASSISTANT"}, status : Statuses]
Prompt == [role |-> "USER", status |-> "COMPLETED"]
Placeholder == [role |-> "ASSISTANT", status |-> "STREAMING"]

IsPartOfCompletedTurn(m, i) ==
  /\ m[i].status = "COMPLETED"
  /\ (m[i].role = "USER" /\ i < Len(m) /\ m[i + 1].role = "ASSISTANT")
       => m[i + 1].status = "COMPLETED"

\* What loadFromDatabase returns for the message rows m.
HistoryOf(m) == {i \in DOMAIN m : IsPartOfCompletedTurn(m, i)}

Exists(c) == owner[c] # None

\* The assistant message of a request follows its user message.
Begun(r) == question[r] # 0
ReplyId(r) == question[r] + 1
ReplyRow(r) == messages[chat[r]][ReplyId(r)]

-----------------------------------------------------------------------------
(* Control points.  Between them a request holds locks and runs the        *)
(* heartbeat that extends them.                                            *)

Generating == {"cacheGet", "dbLoad", "cachePut", "begin", "appendLock", "appendPut",
               "appendUnlock", "prompt", "generate", "complete", "usage", "end",
               "invalidate", "releaseChat"}
HoldingSlot == Generating \cup {"chatLock", "reject", "releaseSlot"}
Labels == HoldingSlot \cup {"idle", "slots", "done", "dead"}
Tasks == {"history", "append", "appendFailed", "completed", "cancelled", "error"}
Events == {"none", "rejected", "completed", "cancelled", "error"}
Closing == {"completed", "cancelled", "error"}

Active(r) == pc[r] \notin {"idle", "done", "dead"}
Goto(r, label) == pc' = [pc EXCEPT ![r] = label]
Fault(kind) == kind \in Faults

\* SET ... NX succeeds on a free key only.  (..Overwriting: SET without NX.)
MayAcquireOverwriting(holder) == TRUE
MayAcquire(holder) == holder = None

\* The Lua scripts compare the token before they delete.  (..Unchecked: DEL.)
OwnsTokenUnchecked(holder, r) == holder # None
OwnsToken(holder, r) == holder = r

\* RedisLock.release.  (..Forgotten: a path out that does not call it.)
ReleasedForgotten(lock, key, r) == lock
Released(lock, key, r) ==
  IF OwnsToken(lock[key], r) THEN [lock EXCEPT ![key] = None] ELSE lock

\* A start at which the requests of gone have been refused already; Init is without.
InitAfter(gone) ==
  /\ owner \in [Chats -> Principals]
  /\ messages \in [Chats -> {<<>>, <<Prompt>>}]
  /\ usage = {} /\ invalidating = {}
  /\ cache = [c \in Chats |-> None]
  /\ chatLock = [c \in Chats |-> None]
  /\ slotLock = [k \in SlotKeys |-> None]
  /\ historyLock = [c \in Chats |-> None]
  /\ pc = [r \in Requests |-> IF r \in gone THEN "done" ELSE "idle"]
  /\ task = [r \in Requests |-> "history"]
  /\ chat = [r \in Requests |-> None]
  /\ principal = [r \in Requests |-> None]
  /\ slot = [r \in Requests |-> 0]
  /\ buffer = [r \in Requests |-> {}]
  /\ history = [r \in Requests |-> {}]
  /\ question = [r \in Requests |-> 0]
  /\ aborted = [r \in Requests |-> FALSE]
  /\ event = [r \in Requests |-> IF r \in gone THEN "rejected" ELSE "none"]

Init == InitAfter({})

-----------------------------------------------------------------------------
(* Before the try block: checks and locks                                  *)

\* The ownership, model, length and context checks pass.
Start(r, c, p) ==
  /\ pc[r] = "idle" /\ owner[c] = p
  /\ chat' = [chat EXCEPT ![r] = c]
  /\ principal' = [principal EXCEPT ![r] = p]
  /\ Goto(r, "slots")
  /\ UNCHANGED <<database, cache, locks, invalidating, task, slot, turn, aborted, event>>

\* One of those checks throws: 404, 409 or 413 before anything is locked.
Refuse(r) ==
  /\ pc[r] = "idle"
  /\ Goto(r, "done")
  /\ event' = [event EXCEPT ![r] = "rejected"]
  /\ UNCHANGED <<database, cache, locks, invalidating, task, place, turn, aborted>>

Key(r) == <<principal[r], slot[r]>>

\* One SET NX of acquirePrincipalGenerationLock's loop over the slots.
AcquireSlot(r) ==
  /\ pc[r] = "slots"
  /\ \/ /\ MayAcquire(slotLock[Key(r)])
        /\ slotLock' = [slotLock EXCEPT ![Key(r)] = r]
        /\ Goto(r, "chatLock")
        /\ UNCHANGED <<slot, event>>
     \/ /\ ~MayAcquire(slotLock[Key(r)]) /\ slot[r] + 1 < Slots
        /\ slot' = [slot EXCEPT ![r] = @ + 1]
        /\ UNCHANGED <<slotLock, pc, event>>
     \/ /\ ~MayAcquire(slotLock[Key(r)]) /\ slot[r] + 1 = Slots
        /\ Goto(r, "done")
        /\ event' = [event EXCEPT ![r] = "rejected"]
        /\ UNCHANGED <<slotLock, slot>>
  /\ UNCHANGED <<database, cache, chatLock, historyLock, invalidating, task, chat,
                 principal, turn, aborted>>

\* The Redis call throws out of stream(); the SET may still have been executed.
AcquireSlotThrows(r) ==
  /\ pc[r] = "slots" /\ Fault("redis")
  /\ \/ MayAcquire(slotLock[Key(r)]) /\ slotLock' = [slotLock EXCEPT ![Key(r)] = r]
     \/ UNCHANGED slotLock
  /\ Goto(r, "done")
  /\ event' = [event EXCEPT ![r] = "error"]
  /\ UNCHANGED <<database, cache, chatLock, historyLock, invalidating, task, place, turn,
                 aborted>>

AcquireChat(r) ==
  /\ pc[r] = "chatLock"
  /\ IF MayAcquire(chatLock[chat[r]])
     THEN /\ chatLock' = [chatLock EXCEPT ![chat[r]] = r]
          /\ Goto(r, "cacheGet")
     ELSE /\ Goto(r, "reject")
          /\ UNCHANGED chatLock
  /\ UNCHANGED <<database, cache, slotLock, historyLock, invalidating, task, place, turn,
                 aborted, event>>

\* Thrown before the try block: the principal lock is left to its TTL.
AcquireChatThrows(r) ==
  /\ pc[r] = "chatLock" /\ Fault("redis")
  /\ \/ MayAcquire(chatLock[chat[r]]) /\ chatLock' = [chatLock EXCEPT ![chat[r]] = r]
     \/ UNCHANGED chatLock
  /\ Goto(r, "done")
  /\ event' = [event EXCEPT ![r] = "error"]
  /\ UNCHANGED <<database, cache, slotLock, historyLock, invalidating, task, place, turn,
                 aborted>>

\* The chat is busy: give the principal's slot back and answer 409.
RejectBusyChat(r) ==
  /\ pc[r] = "reject"
  /\ \/ slotLock' = Released(slotLock, Key(r), r) /\ event' = [event EXCEPT ![r] = "rejected"]
     \/ Fault("redis") /\ UNCHANGED slotLock /\ event' = [event EXCEPT ![r] = "error"]
  /\ Goto(r, "done")
  /\ UNCHANGED <<database, cache, chatLock, historyLock, invalidating, task, place, turn,
                 aborted>>

-----------------------------------------------------------------------------
(* ChatHistoryService: the subroutines getHistory, refresh and writeCache  *)

\* (..Retrying: a closing refresh that starts over for ever.)
AfterHistoryRetrying(r) ==
  CASE task[r] = "history" -> "begin"
    [] task[r] = "append"  -> "appendPut"
    [] OTHER               -> "dbLoad"

\* Where the request goes once the history it asked for is in the buffer.
AfterHistory(r) ==
  CASE task[r] = "history" -> "begin"
    [] task[r] = "append"  -> "appendPut"
    [] OTHER               -> "releaseChat"

\* Where a PostgreSQL error in loadFromDatabase takes it.
AfterFailedLoad(r) ==
  CASE task[r] = "history"   -> "releaseChat"
    [] task[r] = "append"    -> "appendUnlock"
    [] task[r] = "completed" -> "end"
    [] OTHER                 -> "invalidate"

\* getHistory's cache read.  A value that does not parse counts as a miss.
CacheGet(r) ==
  /\ pc[r] = "cacheGet"
  /\ \/ /\ cache[chat[r]] # None
        /\ buffer' = [buffer EXCEPT ![r] = cache[chat[r]]]
        /\ Goto(r, AfterHistory(r))
     \/ /\ cache[chat[r]] = None \/ Fault("redis")
        /\ Goto(r, "dbLoad")
        /\ UNCHANGED buffer
  /\ UNCHANGED <<database, cache, locks, invalidating, task, place, history, question,
                 aborted, event>>

DbLoad(r) ==
  /\ pc[r] = "dbLoad"
  /\ buffer' = [buffer EXCEPT ![r] = HistoryOf(messages[chat[r]])]
  /\ Goto(r, "cachePut")
  /\ UNCHANGED <<database, cache, locks, invalidating, task, place, history, question,
                 aborted, event>>

DbLoadFails(r) ==
  /\ pc[r] = "dbLoad" /\ Fault("db")
  /\ Goto(r, AfterFailedLoad(r))
  /\ task' = IF task[r] = "append" THEN [task EXCEPT ![r] = "appendFailed"] ELSE task
  /\ event' = IF task[r] = "history" THEN [event EXCEPT ![r] = "error"] ELSE event
  /\ UNCHANGED <<database, cache, locks, invalidating, place, turn, aborted>>

\* Writing v under the chat's key; a Redis error is logged and swallowed.
PutCache(c, v) ==
  \/ cache' = [cache EXCEPT ![c] = v]
  \/ Fault("redis") /\ UNCHANGED cache

\* A refresh ends the turn: its closing event follows the write.
CachePut(r) ==
  /\ pc[r] = "cachePut"
  /\ PutCache(chat[r], buffer[r])
  /\ Goto(r, AfterHistory(r))
  /\ event' = IF task[r] \in Closing THEN [event EXCEPT ![r] = task[r]] ELSE event
  /\ UNCHANGED <<database, locks, invalidating, task, place, turn, aborted>>

\* append: take the history lock, or skip the update.
AppendLock(r) ==
  /\ pc[r] = "appendLock"
  /\ \/ /\ MayAcquire(historyLock[chat[r]])
        /\ historyLock' = [historyLock EXCEPT ![chat[r]] = r]
        /\ task' = [task EXCEPT ![r] = "append"]
        /\ Goto(r, "cacheGet")
     \/ /\ ~MayAcquire(historyLock[chat[r]]) \/ Fault("redis")
        /\ Goto(r, "prompt")
        /\ UNCHANGED <<historyLock, task>>
  /\ UNCHANGED <<database, cache, chatLock, slotLock, invalidating, place, turn, aborted,
                 event>>

AppendPut(r) ==
  /\ pc[r] = "appendPut"
  /\ PutCache(chat[r], buffer[r] \cup {question[r]})
  /\ Goto(r, "appendUnlock")
  /\ UNCHANGED <<database, locks, invalidating, task, place, turn, aborted, event>>

\* The finally block of append; a failed release is logged and swallowed.
AppendUnlock(r) ==
  /\ pc[r] = "appendUnlock"
  /\ \/ historyLock' = Released(historyLock, chat[r], r)
     \/ Fault("redis") /\ UNCHANGED historyLock
  /\ Goto(r, IF task[r] = "appendFailed" THEN "end" ELSE "prompt")
  /\ UNCHANGED <<database, cache, chatLock, slotLock, invalidating, task, place, turn,
                 aborted, event>>

-----------------------------------------------------------------------------
(* Inside the try block                                                    *)

\* beginGeneration: the user message and the placeholder, in one transaction.
Begin(r) ==
  /\ pc[r] = "begin" /\ Exists(chat[r])
  /\ messages' = [messages EXCEPT ![chat[r]] = @ \o <<Prompt, Placeholder>>]
  /\ question' = [question EXCEPT ![r] = Len(messages[chat[r]]) + 1]
  /\ history' = [history EXCEPT ![r] = buffer[r]]
  /\ Goto(r, "appendLock")
  /\ UNCHANGED <<owner, usage, cache, locks, invalidating, task, place, buffer, aborted,
                 event>>

\* No message id yet, so the catch block rethrows.
BeginFails(r) ==
  /\ pc[r] = "begin"
  /\ ~Exists(chat[r]) \/ Fault("db")
  /\ Goto(r, "releaseChat")
  /\ event' = [event EXCEPT ![r] = "error"]
  /\ UNCHANGED <<database, cache, locks, invalidating, task, place, turn, aborted>>

\* contextWindow.buildPrompt falls back on a failed summary; it throws only on
\* a PostgreSQL error or an abort.
BuildPrompt(r) ==
  /\ pc[r] = "prompt"
  /\ \/ Goto(r, "generate")
     \/ (aborted[r] \/ Fault("db")) /\ Goto(r, "end")
  /\ UNCHANGED <<database, cache, locks, invalidating, task, place, turn, aborted, event>>

\* The Ollama stream ends with a final frame, or throws: an upstream error, a
\* timeout, a response too long, a missing final frame, an abort.
StreamReply(r) ==
  /\ pc[r] = "generate"
  /\ \E next \in {"complete", "end"} : Goto(r, next)
  /\ UNCHANGED <<database, cache, locks, invalidating, task, place, turn, aborted, event>>

SetReply(r, status) ==
  messages' = [messages EXCEPT ![chat[r]][ReplyId(r)].status = status]

Complete(r) ==
  /\ pc[r] = "complete" /\ Exists(chat[r])
  /\ SetReply(r, "COMPLETED")
  /\ Goto(r, "usage")
  /\ UNCHANGED <<owner, usage, cache, locks, invalidating, task, place, turn, aborted, event>>

CompleteFails(r) ==
  /\ pc[r] = "complete"
  /\ ~Exists(chat[r]) \/ Fault("db")
  /\ Goto(r, "end")
  /\ UNCHANGED <<database, cache, locks, invalidating, task, place, turn, aborted, event>>

\* (..WithoutRefresh: the completed reply never reaches the cache.)
RecordUsageWithoutRefresh(r) ==
  /\ pc[r] = "usage"
  /\ usage' = usage \cup {r}
  /\ event' = [event EXCEPT ![r] = "completed"]
  /\ Goto(r, "releaseChat")
  /\ UNCHANGED <<owner, messages, cache, locks, invalidating, task, place, turn, aborted>>

\* usage.record swallows its errors, a chat moved or deleted under its transaction
\* among them; refresh follows.
RecordUsage(r) ==
  /\ pc[r] = "usage"
  /\ \/ usage' = usage \cup {r}
     \/ (Fault("db") \/ owner[chat[r]] # principal[r]) /\ UNCHANGED usage
  /\ task' = [task EXCEPT ![r] = "completed"]
  /\ Goto(r, "dbLoad")
  /\ UNCHANGED <<owner, messages, cache, locks, invalidating, place, turn, aborted, event>>

-----------------------------------------------------------------------------
(* The catch and finally blocks                                            *)

\* (..IgnoringAbort: no branch for an aborted signal.  ..AlwaysAbort: no other.
\* ..AsStatus: the row's status used where the event is meant.)
VerdictIgnoringAbort(r) == "error"
VerdictAlwaysAbort(r) == "cancelled"
VerdictAsStatus(r) == IF aborted[r] THEN "CANCELLED" ELSE "FAILED"
Verdict(r) == IF aborted[r] THEN "cancelled" ELSE "error"

\* endGeneration, then refreshHistory for the verdict reached here.
EndTurn(r) ==
  /\ pc[r] = "end" /\ Exists(chat[r])
  /\ SetReply(r, IF aborted[r] THEN "CANCELLED" ELSE "FAILED")
  /\ task' = [task EXCEPT ![r] = Verdict(r)]
  /\ Goto(r, "dbLoad")
  /\ UNCHANGED <<owner, usage, cache, locks, invalidating, place, turn, aborted, event>>

\* endGeneration throws out of the catch block: no refresh, no closing event
\* but the controller's stream.error.
EndTurnFails(r) ==
  /\ pc[r] = "end"
  /\ ~Exists(chat[r]) \/ Fault("db")
  /\ Goto(r, "releaseChat")
  /\ event' = [event EXCEPT ![r] = "error"]
  /\ UNCHANGED <<database, cache, locks, invalidating, task, place, turn, aborted>>

\* refreshHistory's own catch: drop the key, or log that it could not.
InvalidateOwn(r) ==
  /\ pc[r] = "invalidate"
  /\ PutCache(chat[r], None)
  /\ Goto(r, "releaseChat")
  /\ event' = [event EXCEPT ![r] = task[r]]
  /\ UNCHANGED <<database, locks, invalidating, task, place, turn, aborted>>

\* The locals of a call that is over are gone.
Forget(over) ==
  /\ task' = [r \in Requests |-> IF r \in over THEN "history" ELSE task[r]]
  /\ buffer' = [r \in Requests |-> IF r \in over THEN {} ELSE buffer[r]]
  /\ history' = [r \in Requests |-> IF r \in over THEN {} ELSE history[r]]

\* Promise.allSettled([chatLock.release(), principalLock.release()]): the two
\* commands are pipelined on one connection, so Redis runs them in order.
ReleaseChat(r) ==
  /\ pc[r] = "releaseChat"
  /\ \/ chatLock' = Released(chatLock, chat[r], r)
     \/ Fault("redis") /\ UNCHANGED chatLock
  /\ Goto(r, "releaseSlot")
  /\ UNCHANGED <<database, cache, slotLock, historyLock, invalidating, task, place, turn,
                 aborted, event>>

ReleaseSlot(r) ==
  /\ pc[r] = "releaseSlot"
  /\ \/ slotLock' = Released(slotLock, Key(r), r)
     \/ Fault("redis") /\ UNCHANGED slotLock
  /\ Goto(r, "done")
  /\ Forget({r})
  /\ UNCHANGED <<database, cache, chatLock, historyLock, invalidating, place, question, aborted,
                 event>>

-----------------------------------------------------------------------------
(* The environment                                                         *)

\* The response closes before it was ended: the controller aborts the signal.
Abort(r) ==
  /\ Active(r) /\ ~aborted[r]
  /\ aborted' = [aborted EXCEPT ![r] = TRUE]
  /\ UNCHANGED <<database, cache, locks, invalidating, pc, task, place, turn, event>>

\* A key outlives its TTL.  While its holder runs, the heartbeat keeps the
\* generation locks alive, unless renewals fail or are late by a whole TTL.
\* (..SlotOnly: a heartbeat that does not extend the chat's lock.)
RenewsSlotOnly(r) == FALSE
Renews(r) == pc[r] \in Generating
ExpireChatLock(c) ==
  /\ chatLock[c] # None
  /\ Fault("lapse") \/ ~Renews(chatLock[c])
  /\ chatLock' = [chatLock EXCEPT ![c] = None]
  /\ UNCHANGED <<database, cache, slotLock, historyLock, invalidating, pc, task, place,
                 turn, aborted, event>>

\* (..Never: SET without PX.)
ExpireSlotLockNever(k) == FALSE
ExpireSlotLock(k) ==
  /\ slotLock[k] # None
  /\ Fault("lapse") \/ pc[slotLock[k]] \notin HoldingSlot
  /\ slotLock' = [slotLock EXCEPT ![k] = None]
  /\ UNCHANGED <<database, cache, chatLock, historyLock, invalidating, pc, task, place,
                 turn, aborted, event>>

\* The history lock has no heartbeat: it lapses after 5 s in any case.
ExpireHistoryLock(c) ==
  /\ historyLock[c] # None
  /\ historyLock' = [historyLock EXCEPT ![c] = None]
  /\ UNCHANGED <<database, cache, chatLock, slotLock, invalidating, pc, task, place,
                 turn, aborted, event>>

ExpireCache(c) ==
  /\ cache[c] # None
  /\ cache' = [cache EXCEPT ![c] = None]
  /\ UNCHANGED <<database, locks, invalidating, pc, task, place, turn, aborted, event>>

\* ChatsService.delete: the row and, by cascade, its messages; then the cache.
DeleteChat(c) ==
  /\ Exists(c)
  /\ owner' = [owner EXCEPT ![c] = None]
  /\ messages' = [messages EXCEPT ![c] = <<>>]
  /\ invalidating' = invalidating \cup {c}
  /\ UNCHANGED <<usage, cache, locks, pc, task, place, turn, aborted, event>>

ChatsOf(p) == {c \in Chats : owner[c] = p}

\* finishAuthentication: the transaction moves the chats, then drops their keys.
TransferChats(p, u) ==
  /\ ChatsOf(p) # {}
  /\ owner' = [c \in Chats |-> IF c \in ChatsOf(p) THEN u ELSE owner[c]]
  /\ invalidating' = invalidating \cup ChatsOf(p)
  /\ UNCHANGED <<messages, usage, cache, locks, pc, task, place, turn, aborted, event>>

Invalidate(c) ==
  /\ c \in invalidating
  /\ PutCache(c, None)
  /\ invalidating' = invalidating \ {c}
  /\ UNCHANGED <<database, locks, pc, task, place, turn, aborted, event>>

\* The API process dies: every request in flight stops where it stands.
Crash ==
  LET inFlight == {r \in Requests : Active(r)} IN
  /\ Fault("crash") /\ inFlight # {}
  /\ pc' = [r \in Requests |-> IF r \in inFlight THEN "dead" ELSE pc[r]]
  /\ invalidating' = {}
  /\ Forget(inFlight)
  /\ UNCHANGED <<database, cache, locks, place, question, aborted, event>>

-----------------------------------------------------------------------------
\* What a request does by itself once it was made.
Step(r) ==
  \/ AcquireSlot(r) \/ AcquireSlotThrows(r) \/ AcquireChat(r) \/ AcquireChatThrows(r)
  \/ RejectBusyChat(r) \/ CacheGet(r) \/ DbLoad(r) \/ DbLoadFails(r) \/ CachePut(r)
  \/ Begin(r) \/ BeginFails(r) \/ AppendLock(r) \/ AppendPut(r) \/ AppendUnlock(r)
  \/ BuildPrompt(r) \/ StreamReply(r) \/ Complete(r) \/ CompleteFails(r)
  \/ RecordUsage(r) \/ EndTurn(r) \/ EndTurnFails(r) \/ InvalidateOwn(r)
  \/ ReleaseChat(r) \/ ReleaseSlot(r)

Environment ==
  \/ \E r \in Requests, c \in Chats, p \in Principals : Start(r, c, p)
  \/ \E r \in Requests : Refuse(r) \/ Abort(r)
  \/ \E c \in Chats : \/ ExpireChatLock(c) \/ ExpireHistoryLock(c) \/ ExpireCache(c)
                      \/ DeleteChat(c) \/ Invalidate(c)
  \/ \E k \in SlotKeys : ExpireSlotLock(k)
  \/ \E p \in Anonymous, u \in Users : TransferChats(p, u)
  \/ Crash

Next == Environment \/ \E r \in Requests : Step(r)

Spec == Init /\ [][Next]_vars

\* The event loop runs every request, its timers end every Ollama call, and
\* Redis expires keys: these steps are not postponed for ever.
Fairness ==
  /\ \A r \in Requests : WF_vars(Step(r))
  /\ \A c \in Chats : /\ WF_vars(ExpireChatLock(c))
                      /\ WF_vars(ExpireHistoryLock(c))
                      /\ WF_vars(Invalidate(c))
  /\ \A k \in SlotKeys : WF_vars(ExpireSlotLock(k))

FairSpec == Spec /\ Fairness

-----------------------------------------------------------------------------
(* Properties                                                              *)

LockTypes ==
  /\ chatLock \in [Chats -> Holder]
  /\ slotLock \in [SlotKeys -> Holder]
  /\ historyLock \in [Chats -> Holder]

DataTypes ==
  /\ owner \in [Chats -> Principals \cup {None}]
  /\ messages \in [Chats -> Seq(Message)]
  /\ cache \in [Chats -> (SUBSET Nat) \cup {None}]
  /\ usage \subseteq Requests
  /\ invalidating \subseteq Chats

RequestTypes ==
  /\ pc \in [Requests -> Labels]
  /\ task \in [Requests -> Tasks]
  /\ chat \in [Requests -> Chats \cup {None}]
  /\ principal \in [Requests -> Principals \cup {None}]
  /\ slot \in [Requests -> 0 .. Slots - 1]
  /\ buffer \in [Requests -> SUBSET Nat]
  /\ history \in [Requests -> SUBSET Nat]
  /\ question \in [Requests -> Nat]
  /\ aborted \in [Requests -> BOOLEAN]
  /\ event \in [Requests -> Events]

\* A request in flight has a chat and a principal.
Located(r) == Active(r) => chat[r] \in Chats /\ principal[r] \in Principals

\* The subroutines of the history service run for the callers that have them.
TaskFits(r) ==
  /\ pc[r] \in {"idle", "slots", "chatLock"} => task[r] = "history"
  /\ pc[r] = "cacheGet" => task[r] \in {"history", "append"}
  /\ pc[r] \in {"dbLoad", "cachePut"} => task[r] # "appendFailed"
  /\ pc[r] = "invalidate" => task[r] \in {"cancelled", "error"}

\* Every variable stays within its type (all of stream()'s state).
TypeOK ==
  /\ LockTypes /\ DataTypes /\ RequestTypes
  /\ \A r \in Requests : Located(r) /\ TaskFits(r)

InGeneration(c) == {r \in Requests : chat[r] = c /\ pc[r] \in Generating}

\* Two requests are never inside the generation of one chat at once: the chat
\* lock of stream() excludes them, from before getHistory to the release.
OneGenerationPerChat == \A c \in Chats : Cardinality(InGeneration(c)) <= 1

\* A principal never has more requests past the slot loop than slots, however
\* the loop's SET NX calls of several requests interleave.
PrincipalLimit ==
  \A p \in Principals :
    Cardinality({r \in Requests : principal[r] = p /\ pc[r] \in HoldingSlot}) <= Slots

\* A held chat lock is only ever freed, and only by its holder's release or by
\* its TTL: a request whose lease lapsed never frees its successor's lock, and
\* nobody takes a lock that is held (deleteIfValueMatches, SET NX).
NoForeignRelease ==
  [][\A c \in Chats : (chatLock[c] # None /\ chatLock'[c] # chatLock[c])
       => /\ chatLock'[c] = None
          /\ pc' = pc \/ pc[chatLock[c]] = "releaseChat"]_vars

\* The prompt sent to Ollama carries exactly the answered turns that precede the
\* request's own message, whatever of the cache and of PostgreSQL the history
\* was read from ("each follow-up sends the complete ordered completed history").
PromptIsHistory ==
  \A r \in Requests :
    (pc[r] = "generate" /\ Exists(chat[r]))
      => history[r] = HistoryOf(SubSeq(messages[chat[r]], 1, question[r] - 1))

AtRest(c) == InGeneration(c) = {} /\ c \notin invalidating

\* When nothing runs in a chat, its cached history, if any, is what PostgreSQL
\* would give ("DB and Redis converge").
CacheCoherent ==
  \A c \in Chats :
    (AtRest(c) /\ Exists(c)) => cache[c] \in {None, HistoryOf(messages[c])}

StatusOf == [completed |-> "COMPLETED", cancelled |-> "CANCELLED", error |-> "FAILED"]

\* What the client was told is what the row says, and a turn is billed exactly
\* when its reply was completed, unless the chat changed hands under it.
ClientToldTheTruth ==
  \A r \in Requests :
    (event[r] \in Closing /\ Begun(r) /\ Exists(chat[r]))
      => /\ ReplyRow(r).status = StatusOf[event[r]]
         /\ r \in usage => event[r] = "completed"
         /\ event[r] = "completed" /\ owner[chat[r]] = principal[r] => r \in usage

\* Whatever fails, a client that was told "completed" or "cancelled" was told
\* what PostgreSQL holds: those two events follow the row's final write.
ClosingIsDurable ==
  \A r \in Requests :
    (event[r] \in {"completed", "cancelled"} /\ Begun(r) /\ Exists(chat[r]))
      => ReplyRow(r).status = StatusOf[event[r]]

Holds(r) ==
  \/ \E c \in Chats : chatLock[c] = r \/ historyLock[c] = r
  \/ \E k \in SlotKeys : slotLock[k] = r

\* A request that is over keeps no lock, on any of its ways out: the next
\* message is not refused because of it.
NoLeakedLock == \A r \in Requests : pc[r] = "done" => ~Holds(r)

\* Every request that was made comes to its end.
Terminates == \A r \in Requests : Active(r) ~> ~Active(r)

\* However a request ended, the locks it took become free again.
LocksRecover == \A r \in Requests : Holds(r) ~> ~Holds(r)
=============================================================================
