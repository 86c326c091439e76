-------------------------- MODULE ChatStreamProofs --------------------------
(***************************************************************************)
(* Theorems about ChatStream for every set of requests, chats, principals, *)
(* slots and faults, in three parts: types, locks and slots; what the rows *)
(* of PostgreSQL say of a turn, what its client is told, and what the      *)
(* cache and the prompt make of it; and every step of ChatStream as a step *)
(* of TurnLog.                                                             *)
(***************************************************************************)
EXTENDS ChatStreamLog, FiniteSetTheorems, SequenceTheorems, TLAPS

\* The history of a chat is a set of message ids.
LEMMA HistoryType ==
  ASSUME NEW m \in Seq(Message)
  PROVE  HistoryOf(m) \in SUBSET Nat
BY DEF HistoryOf

\* A row update leaves the rows a sequence of messages.
LEMMA SetReplyType ==
  ASSUME DataTypes, RequestTypes, NEW r \in Requests, NEW s \in Statuses, SetReply(r, s)
  PROVE  messages' \in [Chats -> Seq(Message)]
<1> DEFINE rows == messages[chat[r]]
           updated == [rows EXCEPT ![ReplyId(r)].status = s]
<1>1. chat[r] \in Chats => updated \in Seq(Message)
  <2> SUFFICES ASSUME chat[r] \in Chats PROVE updated \in Seq(Message)
    OBVIOUS
  <2>1. rows \in Seq(Message)
    BY DEF DataTypes
  <2>2. updated = [rows EXCEPT ![ReplyId(r)] = [@ EXCEPT !.status = s]]
    OBVIOUS
  <2>3. ASSUME NEW m \in Message PROVE [m EXCEPT !.status = s] \in Message
    BY DEF Message
  <2>4. \A i \in 1 .. Len(rows) : rows[i] \in Message
    BY <2>1
  <2>5. updated \in [1 .. Len(rows) -> Message]
    <3>1. rows \in [1 .. Len(rows) -> Message]
      BY <2>1
    <3> QED
      BY <2>2, <2>3, <2>4, <3>1
  <2> QED
    BY <2>1, <2>5
<1>2. messages' = [messages EXCEPT ![chat[r]] = updated]
  BY DEF SetReply
<1> QED
  BY <1>1, <1>2 DEF DataTypes

\* The subroutines of the history service return to these places only.
LEMMA TargetTypes ==
  ASSUME NEW r \in Requests
  PROVE  /\ AfterHistory(r) \in {"begin", "appendPut", "releaseChat"}
         /\ AfterFailedLoad(r) \in {"releaseChat", "appendUnlock", "end", "invalidate"}
BY DEF AfterHistory, AfterFailedLoad

\* All of stream()'s state stays within its type, whatever fails and however many
\* requests run.
THEOREM TypeCorrect == Spec => []TypeOK
<1> USE DEF Holder, SlotKeys, Labels, HoldingSlot, Generating, Tasks, Events
<1>1. Init => TypeOK
  <2> SUFFICES ASSUME Init PROVE TypeOK
    OBVIOUS
  <2>1. LockTypes
    BY DEF Init, InitAfter, LockTypes
  <2>2. DataTypes
    <3>1. <<>> \in Seq(Message) /\ <<Prompt>> \in Seq(Message)
      BY DEF Message, Prompt, Statuses
    <3> QED
      BY <3>1 DEF Init, InitAfter, DataTypes
  <2>3. RequestTypes
    BY SlotsAssumption DEF Init, InitAfter, RequestTypes
  <2>4. \A r \in Requests : Located(r) /\ TaskFits(r)
    BY DEF Init, InitAfter, Located, TaskFits, Active
  <2> QED
    BY <2>1, <2>2, <2>3, <2>4 DEF TypeOK
<1>2. TypeOK /\ [Next]_vars => TypeOK'
  <2> SUFFICES ASSUME TypeOK, [Next]_vars PROVE TypeOK'
    OBVIOUS
  <2> USE DEF TypeOK, LockTypes, DataTypes, RequestTypes, Located, TaskFits, Active, Goto,
              vars, database, locks, place, turn
  <2>1. ASSUME NEW r \in Requests, NEW c \in Chats, NEW p \in Principals, Start(r, c, p) PROVE TypeOK'
    BY <2>1 DEF Start
  <2>2. ASSUME NEW r \in Requests, Refuse(r) PROVE TypeOK'
    BY <2>2 DEF Refuse
  <2>3. ASSUME NEW r \in Requests, AcquireSlot(r) PROVE TypeOK'
    <3>0. Key(r) \in SlotKeys
      BY <2>3 DEF AcquireSlot, Key
    <3>1. LockTypes'
      <4>1. slotLock' = slotLock \/ slotLock' = [slotLock EXCEPT ![Key(r)] = r]
        BY <2>3 DEF AcquireSlot
      <4>2. slotLock' \in [SlotKeys -> Holder]
        BY <4>1
      <4> QED
        BY <2>3, <4>2 DEF AcquireSlot
    <3>2. DataTypes'
      BY <2>3, <3>0 DEF AcquireSlot
    <3>3. RequestTypes'
      <4> DEFINE Indices == 0 .. Slots - 1
      <4>1. slot \in [Requests -> Indices] /\ (slot[r] + 1 < Slots => slot[r] + 1 \in Indices)
        BY SlotsAssumption
      <4> HIDE DEF Indices
      <4>2. slot' \in [Requests -> Indices]
        BY <2>3, <4>1 DEF AcquireSlot
      <4> QED
        BY <2>3, <4>2 DEF AcquireSlot, Indices
    <3>4. \A q \in Requests : (Located(q) /\ TaskFits(q))'
      BY <2>3, <3>0 DEF AcquireSlot
    <3> QED
      BY <3>1, <3>2, <3>3, <3>4
  <2>4. ASSUME NEW r \in Requests, AcquireSlotThrows(r) PROVE TypeOK'
    BY <2>4 DEF AcquireSlotThrows, Key
  <2>5. ASSUME NEW r \in Requests, AcquireChat(r) PROVE TypeOK'
    <3>1. chat[r] \in Chats /\ principal[r] \in Principals
      BY <2>5 DEF AcquireChat
    <3>2. /\ chatLock' \in [Chats -> Holder]
          /\ pc' = [pc EXCEPT ![r] = "cacheGet"] \/ pc' = [pc EXCEPT ![r] = "reject"]
      BY <2>5, <3>1 DEF AcquireChat
    <3>3. LockTypes' /\ DataTypes'
      BY <2>5, <3>2 DEF AcquireChat
    <3>4. RequestTypes'
      BY <2>5, <3>2 DEF AcquireChat
    <3>5. \A q \in Requests : (Located(q) /\ TaskFits(q))'
      BY <2>5, <3>1, <3>2 DEF AcquireChat
    <3> QED
      BY <3>3, <3>4, <3>5
  <2>6. ASSUME NEW r \in Requests, AcquireChatThrows(r) PROVE TypeOK'
    BY <2>6 DEF AcquireChatThrows
  <2>7. ASSUME NEW r \in Requests, RejectBusyChat(r) PROVE TypeOK'
    <3>1. LockTypes'
      <4>1. Released(slotLock, Key(r), r) \in [SlotKeys -> Holder]
        BY DEF Released
      <4> QED
        BY <2>7, <4>1 DEF RejectBusyChat
    <3>2. DataTypes'
      BY <2>7 DEF RejectBusyChat, Released, Key
    <3>3. RequestTypes'
      BY <2>7 DEF RejectBusyChat, Released, Key
    <3>4. \A q \in Requests : (Located(q) /\ TaskFits(q))'
      BY <2>7 DEF RejectBusyChat, Released, Key
    <3> QED
      BY <3>1, <3>2, <3>3, <3>4
  <2>8. ASSUME NEW r \in Requests, CacheGet(r) PROVE TypeOK'
    <3>1. LockTypes'
      BY <2>8, TargetTypes DEF CacheGet
    <3>2. DataTypes'
      BY <2>8, TargetTypes DEF CacheGet
    <3>3. RequestTypes'
      <4>1. cache[chat[r]] \in (SUBSET Nat) \cup {None}
        BY <2>8 DEF CacheGet
      <4>2. buffer' \in [Requests -> SUBSET Nat]
        BY <2>8, <4>1 DEF CacheGet
      <4>3. AfterHistory(r) \in Labels
        BY TargetTypes
      <4>4. pc' = [pc EXCEPT ![r] = AfterHistory(r)] \/ pc' = [pc EXCEPT ![r] = "dbLoad"]
        BY <2>8 DEF CacheGet
      <4>5. pc' \in [Requests -> Labels]
        BY <4>3, <4>4
      <4> QED
        BY <2>8, <4>2, <4>5 DEF CacheGet
    <3>4. \A q \in Requests : (Located(q) /\ TaskFits(q))'
      <4>1. /\ task' = task /\ chat' = chat /\ principal' = principal
            /\ task[r] \in {"history", "append"}
            /\ \/ pc' = [pc EXCEPT ![r] = AfterHistory(r)]
               \/ pc' = [pc EXCEPT ![r] = "dbLoad"]
            /\ chat[r] \in Chats /\ principal[r] \in Principals
        BY <2>8 DEF CacheGet
      <4>2. ASSUME NEW q \in Requests, q # r PROVE (Located(q) /\ TaskFits(q))'
        BY <4>1, <4>2
      <4>3. (Located(r) /\ TaskFits(r))'
        <5>1. pc'[r] \in {"begin", "appendPut", "releaseChat", "dbLoad"}
          BY <4>1, TargetTypes
        <5> QED
          BY <4>1, <5>1
      <4> QED
        BY <4>2, <4>3
    <3> QED
      BY <3>1, <3>2, <3>3, <3>4
  <2>9. ASSUME NEW r \in Requests, DbLoad(r) PROVE TypeOK'
    BY <2>9, HistoryType DEF DbLoad
  <2>10. ASSUME NEW r \in Requests, DbLoadFails(r) PROVE TypeOK'
    <3>1. LockTypes'
      BY <2>10 DEF DbLoadFails
    <3>2. DataTypes'
      BY <2>10, TargetTypes DEF DbLoadFails
    <3>3. RequestTypes'
      BY <2>10, TargetTypes DEF DbLoadFails
    <3>4. \A q \in Requests : (Located(q) /\ TaskFits(q))'
      <4>1. /\ task'[r] # "append"
            /\ AfterFailedLoad(r) = "invalidate" => task'[r] \in {"cancelled", "error"}
        BY <2>10 DEF DbLoadFails, AfterFailedLoad
      <4>2. pc' = [pc EXCEPT ![r] = AfterFailedLoad(r)] /\ \A q \in Requests \ {r} : task'[q] = task[q]
        BY <2>10 DEF DbLoadFails
      <4>3. /\ chat' = chat /\ principal' = principal
            /\ chat[r] \in Chats /\ principal[r] \in Principals
        BY <2>10 DEF DbLoadFails
      <4>4. ASSUME NEW q \in Requests, q # r PROVE (Located(q) /\ TaskFits(q))'
        BY <4>2, <4>3, <4>4
      <4>5. (Located(r) /\ TaskFits(r))'
        <5>1. pc'[r] = AfterFailedLoad(r)
          BY <4>2
        <5> QED
          BY <4>1, <4>3, <5>1, TargetTypes
      <4> QED
        BY <4>4, <4>5
    <3> QED
      BY <3>1, <3>2, <3>3, <3>4
  <2>11. ASSUME NEW r \in Requests, CachePut(r) PROVE TypeOK'
    BY <2>11, TargetTypes DEF CachePut, PutCache, Closing
  <2>12. ASSUME NEW r \in Requests, AppendLock(r) PROVE TypeOK'
    <3>1. LockTypes'
      <4>1. historyLock' = historyLock \/ historyLock' = [historyLock EXCEPT ![chat[r]] = r]
        BY <2>12 DEF AppendLock
      <4>2. historyLock' \in [Chats -> Holder]
        BY <4>1
      <4> QED
        BY <2>12, <4>2 DEF AppendLock
    <3>2. DataTypes'
      BY <2>12 DEF AppendLock
    <3>3. RequestTypes'
      BY <2>12 DEF AppendLock
    <3>4. \A q \in Requests : (Located(q) /\ TaskFits(q))'
      <4>1. chat' = chat /\ principal' = principal
        BY <2>12 DEF AppendLock
      <4>2. ASSUME NEW q \in Requests, q # r PROVE (Located(q) /\ TaskFits(q))'
        <5>1. pc'[q] = pc[q] /\ task'[q] = task[q]
          BY <2>12, <4>2 DEF AppendLock
        <5> QED
          BY <4>1, <4>2, <5>1
      <4>3. (Located(r) /\ TaskFits(r))'
        <5>1. \/ pc'[r] = "cacheGet" /\ task'[r] = "append"
              \/ pc'[r] = "prompt"
          BY <2>12 DEF AppendLock
        <5>2. chat[r] \in Chats /\ principal[r] \in Principals
          BY <2>12 DEF AppendLock
        <5> QED
          BY <4>1, <5>1, <5>2
      <4> QED
        BY <4>2, <4>3
    <3> QED
      BY <3>1, <3>2, <3>3, <3>4
  <2>13. ASSUME NEW r \in Requests, AppendPut(r) PROVE TypeOK'
    <3>1. LockTypes'
      BY <2>13 DEF AppendPut, PutCache
    <3>2. DataTypes'
      <4>1. buffer[r] \cup {question[r]} \in SUBSET Nat
        OBVIOUS
      <4>2. cache' \in [Chats -> (SUBSET Nat) \cup {None}]
        BY <2>13, <4>1 DEF AppendPut, PutCache
      <4> QED
        BY <2>13, <4>2 DEF AppendPut
    <3>3. RequestTypes'
      BY <2>13 DEF AppendPut, PutCache
    <3>4. \A q \in Requests : (Located(q) /\ TaskFits(q))'
      BY <2>13 DEF AppendPut, PutCache
    <3> QED
      BY <3>1, <3>2, <3>3, <3>4
  <2>14. ASSUME NEW r \in Requests, AppendUnlock(r) PROVE TypeOK'
    <3>1. LockTypes'
      <4>1. historyLock' = historyLock \/ historyLock' = [historyLock EXCEPT ![chat[r]] = None]
        BY <2>14 DEF AppendUnlock, Released
      <4>2. historyLock' \in [Chats -> Holder]
        BY <4>1
      <4> QED
        BY <2>14, <4>2 DEF AppendUnlock
    <3>2. DataTypes'
      BY <2>14 DEF AppendUnlock
    <3>3. RequestTypes'
      BY <2>14 DEF AppendUnlock
    <3>4. \A q \in Requests : (Located(q) /\ TaskFits(q))'
      BY <2>14 DEF AppendUnlock
    <3> QED
      BY <3>1, <3>2, <3>3, <3>4
  <2>15. ASSUME NEW r \in Requests, Begin(r) PROVE TypeOK'
    <3>1. LockTypes'
      BY <2>15 DEF Begin, Prompt, Placeholder, Message, Statuses
    <3>2. DataTypes'
      <4>1. messages[chat[r]] \in Seq(Message)
        BY <2>15 DEF Begin
      <4>2. <<Prompt, Placeholder>> \in Seq(Message)
        BY DEF Prompt, Placeholder, Message, Statuses
      <4>3. messages[chat[r]] \o <<Prompt, Placeholder>> \in Seq(Message)
        BY <4>1, <4>2
      <4> QED
        BY <2>15, <4>3 DEF Begin
    <3>3. RequestTypes'
      BY <2>15 DEF Begin, Prompt, Placeholder, Message, Statuses
    <3>4. \A q \in Requests : (Located(q) /\ TaskFits(q))'
      BY <2>15 DEF Begin, Prompt, Placeholder, Message, Statuses
    <3> QED
      BY <3>1, <3>2, <3>3, <3>4
  <2>16. ASSUME NEW r \in Requests, BeginFails(r) PROVE TypeOK'
    BY <2>16 DEF BeginFails
  <2>17. ASSUME NEW r \in Requests, BuildPrompt(r) PROVE TypeOK'
    <3>1. pc' = [pc EXCEPT ![r] = "generate"] \/ pc' = [pc EXCEPT ![r] = "end"]
      BY <2>17 DEF BuildPrompt
    <3> QED
      BY <2>17, <3>1 DEF BuildPrompt
  <2>18. ASSUME NEW r \in Requests, StreamReply(r) PROVE TypeOK'
    BY <2>18 DEF StreamReply
  <2>19. ASSUME NEW r \in Requests, Complete(r) PROVE TypeOK'
    BY <2>19, SetReplyType DEF Complete, Statuses
  <2>20. ASSUME NEW r \in Requests, CompleteFails(r) PROVE TypeOK'
    BY <2>20 DEF CompleteFails
  <2>21. ASSUME NEW r \in Requests, RecordUsage(r) PROVE TypeOK'
    BY <2>21 DEF RecordUsage
  <2>22. ASSUME NEW r \in Requests, EndTurn(r) PROVE TypeOK'
    BY <2>22, SetReplyType DEF EndTurn, Statuses, Verdict
  <2>23. ASSUME NEW r \in Requests, EndTurnFails(r) PROVE TypeOK'
    BY <2>23 DEF EndTurnFails
  <2>24. ASSUME NEW r \in Requests, InvalidateOwn(r) PROVE TypeOK'
    <3>1. LockTypes'
      BY <2>24 DEF InvalidateOwn, PutCache
    <3>2. DataTypes'
      BY <2>24 DEF InvalidateOwn, PutCache
    <3>3. RequestTypes'
      BY <2>24 DEF InvalidateOwn, PutCache
    <3>4. \A q \in Requests : (Located(q) /\ TaskFits(q))'
      BY <2>24 DEF InvalidateOwn, PutCache
    <3> QED
      BY <3>1, <3>2, <3>3, <3>4
  <2>25. ASSUME NEW r \in Requests, ReleaseChat(r) PROVE TypeOK'
    <3>1. LockTypes'
      <4>1. chatLock' = chatLock \/ chatLock' = [chatLock EXCEPT ![chat[r]] = None]
        BY <2>25 DEF ReleaseChat, Released
      <4>2. chatLock' \in [Chats -> Holder]
        BY <4>1
      <4> QED
        BY <2>25, <4>2 DEF ReleaseChat
    <3>2. DataTypes'
      BY <2>25 DEF ReleaseChat
    <3>3. RequestTypes'
      BY <2>25 DEF ReleaseChat
    <3>4. \A q \in Requests : (Located(q) /\ TaskFits(q))'
      BY <2>25 DEF ReleaseChat
    <3> QED
      BY <3>1, <3>2, <3>3, <3>4
  <2>26. ASSUME NEW r \in Requests, ReleaseSlot(r) PROVE TypeOK'
    BY <2>26 DEF ReleaseSlot, Released, Key, Forget
  <2>27. ASSUME NEW r \in Requests, Abort(r) PROVE TypeOK'
    BY <2>27 DEF Abort
  <2>28. ASSUME NEW c \in Chats, ExpireChatLock(c) PROVE TypeOK'
    BY <2>28 DEF ExpireChatLock
  <2>29. ASSUME NEW c \in Chats, ExpireHistoryLock(c) PROVE TypeOK'
    BY <2>29 DEF ExpireHistoryLock
  <2>30. ASSUME NEW c \in Chats, ExpireCache(c) PROVE TypeOK'
    BY <2>30 DEF ExpireCache
  <2>31. ASSUME NEW c \in Chats, DeleteChat(c) PROVE TypeOK'
    BY <2>31 DEF DeleteChat
  <2>32. ASSUME NEW c \in Chats, Invalidate(c) PROVE TypeOK'
    BY <2>32 DEF Invalidate, PutCache
  <2>33. ASSUME NEW k \in SlotKeys, ExpireSlotLock(k) PROVE TypeOK'
    BY <2>33 DEF ExpireSlotLock
  <2>34. ASSUME NEW p \in Anonymous, NEW u \in Users, TransferChats(p, u) PROVE TypeOK'
    <3>1. LockTypes'
      BY <2>34 DEF TransferChats, ChatsOf, Principals
    <3>2. DataTypes'
      BY <2>34 DEF TransferChats, ChatsOf, Principals
    <3>3. RequestTypes'
      BY <2>34 DEF TransferChats, ChatsOf, Principals
    <3>4. \A q \in Requests : (Located(q) /\ TaskFits(q))'
      BY <2>34 DEF TransferChats, ChatsOf, Principals
    <3> QED
      BY <3>1, <3>2, <3>3, <3>4
  <2>35. CASE Crash
    BY <2>35 DEF Crash, Forget
  <2>36. CASE UNCHANGED vars
    BY <2>36
  <2> QED
    BY <2>1, <2>2, <2>3, <2>4, <2>5, <2>6, <2>7, <2>8, <2>9, <2>10, <2>11, <2>12, <2>13, <2>14, <2>15, <2>16, <2>17, <2>18, <2>19, <2>20, <2>21, <2>22, <2>23, <2>24, <2>25, <2>26, <2>27, <2>28, <2>29, <2>30, <2>31, <2>32, <2>33, <2>34, <2>35, <2>36
       DEF Next, Environment, Step
<1> QED
  BY <1>1, <1>2, PTL DEF Spec

-----------------------------------------------------------------------------
(* Mutual exclusion.  OneGenerationPerChat is not inductive: it does not   *)
(* say why a second request is kept out.  The invariant that is: a request *)
(* inside the generation of its chat is the holder of the chat's lock, and *)
(* a lock has one holder.                                                  *)

HoldsChatLock == \A r \in Requests : pc[r] \in Generating => chatLock[chat[r]] = r
HoldsSlotLock == \A r \in Requests : pc[r] \in HoldingSlot => slotLock[Key(r)] = r
Held == HoldsChatLock /\ HoldsSlotLock

\* The steps that touch no generation lock and keep the request that takes them
\* among the holders it was among.
LEMMA QuietStep ==
  ASSUME TypeOK, Held, UNCHANGED <<chatLock, slotLock, place>>,
         NEW r \in Requests, NEW l, pc' = [pc EXCEPT ![r] = l],
         l \in Generating => pc[r] \in Generating,
         l \in HoldingSlot => pc[r] \in HoldingSlot
  PROVE  Held'
BY DEF TypeOK, RequestTypes, Held, HoldsChatLock, HoldsSlotLock, place, Key

\* A request in flight has a chat lock and a slot that may be its own.
LEMMA Places ==
  ASSUME TypeOK, NEW r \in Requests, Active(r)
  PROVE  chat[r] \in Chats /\ Key(r) \in SlotKeys
BY DEF TypeOK, RequestTypes, Located, Key, SlotKeys

\* Taking a free lock, or giving one's own back, disturbs no other holder.
LEMMA TakeChat ==
  ASSUME TypeOK, HoldsChatLock, NEW r \in Requests, NEW l, pc' = [pc EXCEPT ![r] = l],
         chat[r] \in Chats, chatLock[chat[r]] = None,
         chatLock' = [chatLock EXCEPT ![chat[r]] = r], UNCHANGED place
  PROVE  HoldsChatLock'
<1> SUFFICES ASSUME NEW q \in Requests, pc'[q] \in Generating PROVE chatLock'[chat[q]'] = q
  BY DEF HoldsChatLock
<1>0. chat[q]' = chat[q]
  BY DEF place
<1>1. CASE q = r
  BY <1>0, <1>1 DEF TypeOK, LockTypes
<1>2. CASE q # r
  <2>1. pc[q] \in Generating
    BY <1>2 DEF TypeOK, RequestTypes
  <2>2. chatLock[chat[q]] = q
    BY <2>1 DEF HoldsChatLock
  <2>3. chat[q] # chat[r]
    BY <1>2, <2>2, NoneAssumption
  <2> QED
    BY <1>0, <2>2, <2>3 DEF TypeOK, LockTypes
<1> QED
  BY <1>1, <1>2

\* Giving the chat lock back disturbs no other holder.
LEMMA FreeChat ==
  ASSUME TypeOK, HoldsChatLock, NEW r \in Requests, NEW l, pc' = [pc EXCEPT ![r] = l],
         chat[r] \in Chats, chatLock[chat[r]] = r, l \notin Generating,
         chatLock' = [chatLock EXCEPT ![chat[r]] = None], UNCHANGED place
  PROVE  HoldsChatLock'
<1> SUFFICES ASSUME NEW q \in Requests, pc'[q] \in Generating PROVE chatLock'[chat[q]'] = q
  BY DEF HoldsChatLock
<1>0. chat[q]' = chat[q]
  BY DEF place
<1>1. CASE q = r
  BY <1>1 DEF TypeOK, RequestTypes
<1>2. CASE q # r
  <2>1. pc[q] \in Generating
    BY <1>2 DEF TypeOK, RequestTypes
  <2>2. chatLock[chat[q]] = q
    BY <2>1 DEF HoldsChatLock
  <2>3. chat[q] # chat[r]
    BY <1>2, <2>2
  <2> QED
    BY <1>0, <2>2, <2>3 DEF TypeOK, LockTypes
<1> QED
  BY <1>1, <1>2

\* Taking a free slot disturbs no other holder.
LEMMA TakeSlot ==
  ASSUME TypeOK, HoldsSlotLock, NEW r \in Requests, NEW l, pc' = [pc EXCEPT ![r] = l],
         Key(r) \in SlotKeys, slotLock[Key(r)] = None,
         slotLock' = [slotLock EXCEPT ![Key(r)] = r], UNCHANGED place
  PROVE  HoldsSlotLock'
<1> SUFFICES ASSUME NEW q \in Requests, pc'[q] \in HoldingSlot PROVE slotLock'[Key(q)'] = q
  BY DEF HoldsSlotLock
<1>0. Key(q)' = Key(q)
  BY DEF place, Key
<1>1. CASE q = r
  BY <1>0, <1>1 DEF TypeOK, LockTypes
<1>2. CASE q # r
  <2>1. pc[q] \in HoldingSlot
    BY <1>2 DEF TypeOK, RequestTypes
  <2>2. slotLock[Key(q)] = q
    BY <2>1 DEF HoldsSlotLock
  <2>3. Key(q) # Key(r)
    BY <1>2, <2>2, NoneAssumption
  <2> QED
    BY <1>0, <2>2, <2>3 DEF TypeOK, LockTypes
<1> QED
  BY <1>1, <1>2

\* Giving a slot back disturbs no other holder.
LEMMA FreeSlot ==
  ASSUME TypeOK, HoldsSlotLock, NEW r \in Requests, NEW l, pc' = [pc EXCEPT ![r] = l],
         Key(r) \in SlotKeys, slotLock[Key(r)] = r, l \notin HoldingSlot,
         slotLock' = [slotLock EXCEPT ![Key(r)] = None], UNCHANGED place
  PROVE  HoldsSlotLock'
<1> SUFFICES ASSUME NEW q \in Requests, pc'[q] \in HoldingSlot PROVE slotLock'[Key(q)'] = q
  BY DEF HoldsSlotLock
<1>0. Key(q)' = Key(q)
  BY DEF place, Key
<1>1. CASE q = r
  BY <1>1 DEF TypeOK, RequestTypes
<1>2. CASE q # r
  <2>1. pc[q] \in HoldingSlot
    BY <1>2 DEF TypeOK, RequestTypes
  <2>2. slotLock[Key(q)] = q
    BY <2>1 DEF HoldsSlotLock
  <2>3. Key(q) # Key(r)
    BY <1>2, <2>2
  <2> QED
    BY <1>0, <2>2, <2>3 DEF TypeOK, LockTypes
<1> QED
  BY <1>1, <1>2

\* Every step of Next keeps the locks with the requests that work under them.
LEMMA HeldInductive ==
  ASSUME "lapse" \notin Faults, TypeOK, Held, [Next]_vars
  PROVE  Held'
<1> USE DEF Held, Goto, database, locks, place, turn
<1>1. ASSUME NEW r \in Requests, NEW c \in Chats, NEW p \in Principals, Start(r, c, p)
      PROVE  Held'
  BY <1>1 DEF Start, TypeOK, RequestTypes, HoldsChatLock, HoldsSlotLock, Key, Generating,
     HoldingSlot
<1>2. ASSUME NEW r \in Requests, AcquireSlot(r) PROVE Held'
  <2>1. Key(r) \in SlotKeys
    BY <1>2, Places DEF AcquireSlot, Active
  <2>2. CASE MayAcquire(slotLock[Key(r)])
    <3>1. HoldsSlotLock'
      BY <1>2, <2>1, <2>2, TakeSlot DEF AcquireSlot, MayAcquire
    <3>2. HoldsChatLock'
      BY <1>2, <2>2 DEF AcquireSlot, HoldsChatLock, TypeOK, RequestTypes, Generating
    <3> QED
      BY <3>1, <3>2
  <2>3. CASE ~MayAcquire(slotLock[Key(r)])
    BY <1>2, <2>3 DEF AcquireSlot, HoldsChatLock, HoldsSlotLock, Key, TypeOK, RequestTypes,
       Generating, HoldingSlot
  <2> QED
    BY <2>2, <2>3
<1>3. ASSUME NEW r \in Requests, AcquireSlotThrows(r) PROVE Held'
  <2>1. Key(r) \in SlotKeys
    BY <1>3, Places DEF AcquireSlotThrows, Active
  <2>2. HoldsChatLock'
    BY <1>3 DEF AcquireSlotThrows, HoldsChatLock, TypeOK, RequestTypes, Generating
  <2>3. CASE UNCHANGED slotLock
    BY <1>3, <2>2, <2>3, QuietStep DEF AcquireSlotThrows, Generating, HoldingSlot
  <2>4. CASE ~UNCHANGED slotLock
    BY <1>3, <2>1, <2>2, <2>4, TakeSlot DEF AcquireSlotThrows, MayAcquire
  <2> QED
    BY <2>3, <2>4
<1>4. ASSUME NEW r \in Requests, AcquireChat(r) PROVE Held'
  <2>1. chat[r] \in Chats
    BY <1>4, Places DEF AcquireChat, Active
  <2>2. HoldsSlotLock'
    BY <1>4 DEF AcquireChat, HoldsSlotLock, Key, TypeOK, RequestTypes, Generating, HoldingSlot
  <2>3. CASE MayAcquire(chatLock[chat[r]])
    BY <1>4, <2>1, <2>2, <2>3, TakeChat DEF AcquireChat, MayAcquire
  <2>4. CASE ~MayAcquire(chatLock[chat[r]])
    BY <1>4, <2>4, QuietStep DEF AcquireChat, Generating, HoldingSlot
  <2> QED
    BY <2>3, <2>4
<1>5. ASSUME NEW r \in Requests, AcquireChatThrows(r) PROVE Held'
  <2>1. chat[r] \in Chats
    BY <1>5, Places DEF AcquireChatThrows, Active
  <2>2. HoldsSlotLock'
    BY <1>5 DEF AcquireChatThrows, HoldsSlotLock, Key, TypeOK, RequestTypes, Generating,
       HoldingSlot
  <2>3. CASE UNCHANGED chatLock
    BY <1>5, <2>3, QuietStep DEF AcquireChatThrows, Generating, HoldingSlot
  <2>4. CASE ~UNCHANGED chatLock
    BY <1>5, <2>1, <2>2, <2>4, TakeChat DEF AcquireChatThrows, MayAcquire
  <2> QED
    BY <2>3, <2>4
<1>6. ASSUME NEW r \in Requests, RejectBusyChat(r) PROVE Held'
  <2>1. Key(r) \in SlotKeys /\ slotLock[Key(r)] = r
    BY <1>6, Places DEF RejectBusyChat, Active, HoldsSlotLock, HoldingSlot
  <2>2. HoldsChatLock'
    BY <1>6 DEF RejectBusyChat, HoldsChatLock, TypeOK, RequestTypes, Generating
  <2>3. CASE UNCHANGED slotLock
    BY <1>6, <2>3, QuietStep DEF RejectBusyChat, Generating, HoldingSlot
  <2>4. CASE slotLock' = [slotLock EXCEPT ![Key(r)] = None]
    BY <1>6, <2>1, <2>2, <2>4, FreeSlot DEF RejectBusyChat, Generating, HoldingSlot
  <2> QED
    BY <1>6, <2>3, <2>4 DEF RejectBusyChat, Released
<1>7. ASSUME NEW r \in Requests, ReleaseChat(r) PROVE Held'
  <2>1. chat[r] \in Chats /\ chatLock[chat[r]] = r
    BY <1>7, Places DEF ReleaseChat, Active, HoldsChatLock, Generating
  <2>2. HoldsSlotLock'
    BY <1>7 DEF ReleaseChat, HoldsSlotLock, Key, TypeOK, RequestTypes, Generating, HoldingSlot
  <2>3. CASE UNCHANGED chatLock
    BY <1>7, <2>3, QuietStep DEF ReleaseChat, Generating, HoldingSlot
  <2>4. CASE chatLock' = [chatLock EXCEPT ![chat[r]] = None]
    BY <1>7, <2>1, <2>2, <2>4, FreeChat DEF ReleaseChat, Generating
  <2> QED
    BY <1>7, <2>3, <2>4 DEF ReleaseChat, Released
<1>8. ASSUME NEW r \in Requests, ReleaseSlot(r) PROVE Held'
  <2>1. Key(r) \in SlotKeys /\ slotLock[Key(r)] = r
    BY <1>8, Places DEF ReleaseSlot, Active, HoldsSlotLock, HoldingSlot
  <2>2. HoldsChatLock'
    BY <1>8 DEF ReleaseSlot, HoldsChatLock, TypeOK, RequestTypes, Generating
  <2>3. CASE UNCHANGED slotLock
    BY <1>8, <2>3, QuietStep DEF ReleaseSlot, Generating, HoldingSlot
  <2>4. CASE slotLock' = [slotLock EXCEPT ![Key(r)] = None]
    BY <1>8, <2>1, <2>2, <2>4, FreeSlot DEF ReleaseSlot, Generating, HoldingSlot
  <2> QED
    BY <1>8, <2>3, <2>4 DEF ReleaseSlot, Released
<1>9. ASSUME NEW r \in Requests, Refuse(r) PROVE Held'
  BY <1>9, QuietStep DEF Refuse, Generating, HoldingSlot
<1>10. ASSUME NEW r \in Requests, CacheGet(r) PROVE Held'
  BY <1>10, TargetTypes, QuietStep DEF CacheGet, Generating, HoldingSlot
<1>11. ASSUME NEW r \in Requests, DbLoad(r) PROVE Held'
  BY <1>11, QuietStep DEF DbLoad, Generating, HoldingSlot
<1>12. ASSUME NEW r \in Requests, DbLoadFails(r) PROVE Held'
  BY <1>12, TargetTypes, QuietStep DEF DbLoadFails, Generating, HoldingSlot
<1>13. ASSUME NEW r \in Requests, CachePut(r) PROVE Held'
  BY <1>13, TargetTypes, QuietStep DEF CachePut, Generating, HoldingSlot
<1>14. ASSUME NEW r \in Requests, AppendLock(r) PROVE Held'
  BY <1>14, QuietStep DEF AppendLock, Generating, HoldingSlot
<1>15. ASSUME NEW r \in Requests, AppendPut(r) PROVE Held'
  BY <1>15, QuietStep DEF AppendPut, Generating, HoldingSlot
<1>16. ASSUME NEW r \in Requests, AppendUnlock(r) PROVE Held'
  BY <1>16, QuietStep DEF AppendUnlock, Generating, HoldingSlot
<1>17. ASSUME NEW r \in Requests, Begin(r) PROVE Held'
  BY <1>17, QuietStep DEF Begin, Generating, HoldingSlot
<1>18. ASSUME NEW r \in Requests, BeginFails(r) PROVE Held'
  BY <1>18, QuietStep DEF BeginFails, Generating, HoldingSlot
<1>19. ASSUME NEW r \in Requests, BuildPrompt(r) PROVE Held'
  BY <1>19, QuietStep DEF BuildPrompt, Generating, HoldingSlot
<1>20. ASSUME NEW r \in Requests, StreamReply(r) PROVE Held'
  BY <1>20, QuietStep DEF StreamReply, Generating, HoldingSlot
<1>21. ASSUME NEW r \in Requests, Complete(r) PROVE Held'
  BY <1>21, QuietStep DEF Complete, Generating, HoldingSlot
<1>22. ASSUME NEW r \in Requests, CompleteFails(r) PROVE Held'
  BY <1>22, QuietStep DEF CompleteFails, Generating, HoldingSlot
<1>23. ASSUME NEW r \in Requests, RecordUsage(r) PROVE Held'
  BY <1>23, QuietStep DEF RecordUsage, Generating, HoldingSlot
<1>24. ASSUME NEW r \in Requests, EndTurn(r) PROVE Held'
  BY <1>24, QuietStep DEF EndTurn, Generating, HoldingSlot
<1>25. ASSUME NEW r \in Requests, EndTurnFails(r) PROVE Held'
  BY <1>25, QuietStep DEF EndTurnFails, Generating, HoldingSlot
<1>26. ASSUME NEW r \in Requests, InvalidateOwn(r) PROVE Held'
  BY <1>26, QuietStep DEF InvalidateOwn, Generating, HoldingSlot
<1>27. ASSUME NEW c \in Chats, ExpireChatLock(c) PROVE Held'
  BY <1>27 DEF ExpireChatLock, Renews, Fault, TypeOK, LockTypes, RequestTypes, HoldsChatLock, HoldsSlotLock, Key
<1>28. ASSUME NEW k \in SlotKeys, ExpireSlotLock(k) PROVE Held'
  BY <1>28 DEF ExpireSlotLock, Fault, TypeOK, LockTypes, RequestTypes, HoldsChatLock, HoldsSlotLock, Key
<1>29. CASE \/ \E r \in Requests : Abort(r)
            \/ \E c \in Chats : \/ ExpireHistoryLock(c) \/ ExpireCache(c)
                                \/ DeleteChat(c) \/ Invalidate(c)
            \/ \E p \in Anonymous, u \in Users : TransferChats(p, u)
            \/ UNCHANGED vars
  BY <1>29 DEF Abort, ExpireHistoryLock, ExpireCache, DeleteChat, Invalidate, TransferChats, vars,
     HoldsChatLock, HoldsSlotLock, Key
<1>30. CASE Crash
  BY <1>30 DEF Crash, Active, HoldsChatLock, HoldsSlotLock, Key, TypeOK, RequestTypes, Generating,
     HoldingSlot
<1> HIDE DEF Held, Goto, database, locks, place, turn
<1>31. CASE Environment
  BY <1>1, <1>9, <1>27, <1>28, <1>29, <1>30, <1>31 DEF Environment
<1>32. ASSUME NEW r \in Requests, Step(r) PROVE Held'
  BY <1>2, <1>3, <1>4, <1>5, <1>6, <1>7, <1>8, <1>10, <1>11, <1>12, <1>13, <1>14, <1>15,
     <1>16, <1>17, <1>18, <1>19, <1>20, <1>21, <1>22, <1>23, <1>24, <1>25, <1>26, <1>32
     DEF Step
<1> QED
  BY <1>29, <1>31, <1>32 DEF Next

\* As long as no lease lapses, a request holds the locks it works under.
THEOREM LocksHeld ==
  ASSUME "lapse" \notin Faults
  PROVE  Spec => [](TypeOK /\ Held)
<1>1. Init => Held
  BY DEF Init, InitAfter, Held, HoldsChatLock, HoldsSlotLock, Generating, HoldingSlot
<1>2. TypeOK /\ Held /\ [Next]_vars => Held'
  BY HeldInductive
<1> QED
  BY <1>1, <1>2, TypeCorrect, PTL DEF Spec

\* Two requests are never inside the generation of one chat at once, for any
\* number of requests and whatever fails, as long as no lease lapses.
THEOREM Exclusion ==
  ASSUME "lapse" \notin Faults
  PROVE  Spec => []OneGenerationPerChat
<1>1. ASSUME TypeOK, Held PROVE OneGenerationPerChat
  <2> SUFFICES ASSUME NEW c \in Chats PROVE Cardinality(InGeneration(c)) <= 1
    BY DEF OneGenerationPerChat
  <2>1. \A q, r \in InGeneration(c) : q = r
    BY <1>1 DEF InGeneration, Held, HoldsChatLock
  <2>2. CASE InGeneration(c) = {}
    BY <2>2, FS_EmptySet
  <2>3. CASE InGeneration(c) # {}
    <3>1. PICK r \in InGeneration(c) : InGeneration(c) = {r}
      BY <2>1, <2>3
    <3>2. Cardinality(InGeneration(c)) = 1
      BY <3>1, FS_Singleton
    <3> QED
      BY <3>2
  <2> QED
    BY <2>2, <2>3
<1> QED
  BY <1>1, LocksHeld, PTL

\* A principal's requests past the slot loop hold different slots, so there are
\* at most as many as slots.
THEOREM SlotLimit ==
  ASSUME "lapse" \notin Faults
  PROVE  Spec => []PrincipalLimit
<1>1. ASSUME TypeOK, Held PROVE PrincipalLimit
  <2> SUFFICES ASSUME NEW p \in Principals
               PROVE  Cardinality({r \in Requests : principal[r] = p /\ pc[r] \in HoldingSlot}) <= Slots
    BY DEF PrincipalLimit
  <2> DEFINE active == {r \in Requests : principal[r] = p /\ pc[r] \in HoldingSlot}
             place_of == [r \in active |-> slot[r]]
  <2>1. place_of \in [active -> 0 .. Slots - 1]
    BY <1>1 DEF TypeOK, RequestTypes
  <2>2. \A q, r \in active : place_of[q] = place_of[r] => q = r
    <3>1. \A q \in active : slotLock[<<p, slot[q]>>] = q
      BY <1>1 DEF Held, HoldsSlotLock, Key
    <3> QED
      BY <3>1
  <2>3. place_of \in Injection(active, 0 .. Slots - 1)
    BY <2>1, <2>2 DEF Injection, IsInjective
  <2>4. IsFiniteSet(0 .. Slots - 1) /\ Cardinality(0 .. Slots - 1) = Slots
    BY FS_Interval, SlotsAssumption
  <2>5. Cardinality(active) <= Cardinality(0 .. Slots - 1)
    BY <2>3, <2>4, FS_Injection
  <2> QED
    BY <2>4, <2>5
<1> QED
  BY <1>1, LocksHeld, PTL

\* Whatever lapses or fails, a held chat lock is freed by its holder or by its
\* TTL only, and is never overwritten.
THEOREM ReleaseOwnOnly == Spec => NoForeignRelease
<1>1. ASSUME TypeOK, [Next]_vars, NEW c \in Chats, chatLock[c] # None, chatLock'[c] # chatLock[c]
      PROVE  /\ chatLock'[c] = None
             /\ pc' = pc \/ pc[chatLock[c]] = "releaseChat"
  <2> USE DEF database, locks, place, turn
  <2>1. ASSUME NEW r \in Requests, AcquireChat(r) PROVE FALSE
    BY <1>1, <2>1 DEF AcquireChat, MayAcquire, TypeOK, LockTypes
  <2>2. ASSUME NEW r \in Requests, AcquireChatThrows(r) PROVE FALSE
    BY <1>1, <2>2 DEF AcquireChatThrows, MayAcquire, TypeOK, LockTypes
  <2>3. ASSUME NEW r \in Requests, ReleaseChat(r)
        PROVE  chatLock'[c] = None /\ pc[chatLock[c]] = "releaseChat"
    BY <1>1, <2>3 DEF ReleaseChat, Released, OwnsToken, TypeOK, LockTypes
  <2>4. ASSUME NEW d \in Chats, ExpireChatLock(d) PROVE chatLock'[c] = None /\ pc' = pc
    BY <1>1, <2>4 DEF ExpireChatLock, TypeOK, LockTypes
  <2>5. \/ \E r \in Requests : AcquireChat(r) \/ AcquireChatThrows(r) \/ ReleaseChat(r)
        \/ \E d \in Chats : ExpireChatLock(d)
    <3>1. ASSUME NEW r \in Requests, Step(r)
          PROVE  AcquireChat(r) \/ AcquireChatThrows(r) \/ ReleaseChat(r)
      BY <1>1, <3>1 DEF Step, AcquireSlot, AcquireSlotThrows, RejectBusyChat, CacheGet,
           DbLoad, DbLoadFails, CachePut, Begin, BeginFails, AppendLock, AppendPut,
           AppendUnlock, BuildPrompt, StreamReply, Complete, CompleteFails, RecordUsage,
           EndTurn, EndTurnFails, InvalidateOwn, ReleaseSlot
    <3>2. ASSUME Environment PROVE \E d \in Chats : ExpireChatLock(d)
      BY <1>1, <3>2 DEF Environment, Start, Refuse, Abort, ExpireHistoryLock, ExpireCache,
           DeleteChat, Invalidate, ExpireSlotLock, TransferChats, Crash
    <3>3. ~UNCHANGED vars
      BY <1>1 DEF vars
    <3> QED
      BY <1>1, <3>1, <3>2, <3>3 DEF Next
  <2> QED
    BY <2>1, <2>2, <2>3, <2>4, <2>5
<1>2. TypeOK /\ [Next]_vars
        => [\A c \in Chats : (chatLock[c] # None /\ chatLock'[c] # chatLock[c])
              => /\ chatLock'[c] = None
                 /\ pc' = pc \/ pc[chatLock[c]] = "releaseChat"]_vars
  BY <1>1
<1> QED
  BY <1>2, TypeCorrect, PTL DEF Spec, NoForeignRelease

-----------------------------------------------------------------------------
(* Nothing leaks: as long as Redis answers, a request that is over has     *)
(* given back every lock it took, whatever lapses, crashes or fails in     *)
(* PostgreSQL, since the finally blocks of stream() and of append lie on   *)
(* every way out.                                                          *)

\* The request stands between append's lock and the release of it.
InAppend(r) ==
  \/ pc[r] \in {"appendPut", "appendUnlock", "dead"}
  \/ pc[r] \in {"cacheGet", "dbLoad", "cachePut"} /\ task[r] = "append"

\* A lock that is held is held by a request that stands where it will give it
\* back, or that has died.
ChatTraced ==
  \A c \in Chats : chatLock[c] # None =>
    chat[chatLock[c]] = c /\ pc[chatLock[c]] \in Generating \cup {"dead"}
SlotTraced ==
  \A k \in SlotKeys : slotLock[k] # None =>
    Key(slotLock[k]) = k /\ pc[slotLock[k]] \in HoldingSlot \cup {"dead"}
HistoryTraced ==
  \A c \in Chats : historyLock[c] # None =>
    chat[historyLock[c]] = c /\ InAppend(historyLock[c])
Traced == ChatTraced /\ SlotTraced /\ HistoryTraced

\* A step of one request that touches no lock and leaves no protected region.
LEMMA MoveOn ==
  ASSUME TypeOK, Traced, UNCHANGED locks, UNCHANGED place,
         NEW r \in Requests, NEW l, pc' = [pc EXCEPT ![r] = l],
         pc[r] \in Generating \cup {"dead"} => l \in Generating \cup {"dead"},
         pc[r] \in HoldingSlot \cup {"dead"} => l \in HoldingSlot \cup {"dead"},
         InAppend(r) => InAppend(r)',
         \A q \in Requests \ {r} : task'[q] = task[q]
  PROVE  Traced'
<1> USE DEF TypeOK, LockTypes, RequestTypes, Holder, locks, place
<1>1. pc'[r] = l /\ \A q \in Requests \ {r} : pc'[q] = pc[q]
  OBVIOUS
<1>2. ChatTraced'
  BY <1>1 DEF Traced, ChatTraced
<1>3. SlotTraced'
  BY <1>1 DEF Traced, SlotTraced, Key
<1>4. \A q \in Requests : InAppend(q) => InAppend(q)'
  BY <1>1 DEF InAppend
<1>5. HistoryTraced'
  BY <1>4 DEF Traced, HistoryTraced
<1> QED
  BY <1>2, <1>3, <1>5 DEF Traced

\* Taking or giving back the slot of the request that takes the step.
LEMMA SlotStep ==
  ASSUME TypeOK, SlotTraced, UNCHANGED place, NEW r \in Requests, NEW l,
         pc' = [pc EXCEPT ![r] = l], Key(r) \in SlotKeys,
         \/ slotLock' = slotLock /\ l \in HoldingSlot
         \/ slotLock' = [slotLock EXCEPT ![Key(r)] = r] /\ l \in HoldingSlot
         \/ slotLock' = [slotLock EXCEPT ![Key(r)] = None]
         \/ slotLock' = Released(slotLock, Key(r), r)
  PROVE  SlotTraced'
<1> SUFFICES ASSUME NEW k \in SlotKeys, slotLock'[k] # None
             PROVE  Key(slotLock[k])' = k /\ pc[slotLock[k]]' \in HoldingSlot \cup {"dead"}
  BY DEF SlotTraced
<1>1. \A q \in Requests : Key(q)' = Key(q)
  BY DEF Key, place
<1>2. pc'[r] = l /\ \A q \in Requests \ {r} : pc'[q] = pc[q]
  BY DEF TypeOK, RequestTypes
<1>3. CASE slotLock'[k] = slotLock[k]
  <2>1. PICK q \in Requests : q = slotLock[k]
    BY <1>3 DEF TypeOK, LockTypes, Holder
  <2>2. Key(q) = k /\ pc[q] \in HoldingSlot \cup {"dead"}
    BY <1>3, <2>1 DEF SlotTraced
  <2>3. CASE q # r
    BY <1>1, <1>2, <1>3, <2>1, <2>2, <2>3
  <2>4. CASE q = r
    <3>1. l \in HoldingSlot
      BY <1>3, <2>1, <2>2, <2>4 DEF TypeOK, LockTypes, Released, OwnsToken
    <3> QED
      BY <1>1, <1>2, <1>3, <2>1, <2>2, <2>4, <3>1
  <2> QED
    BY <2>3, <2>4
<1>4. CASE slotLock'[k] # slotLock[k]
  <2>1. k = Key(r) /\ slotLock'[k] = r /\ l \in HoldingSlot
    BY <1>4 DEF TypeOK, LockTypes, Released
  <2> QED
    BY <1>1, <1>2, <2>1
<1> QED
  BY <1>3, <1>4

\* Taking or giving back the chat lock of the request that takes the step.
LEMMA ChatStep ==
  ASSUME TypeOK, ChatTraced, UNCHANGED place, NEW r \in Requests, NEW l,
         pc' = [pc EXCEPT ![r] = l], chat[r] \in Chats,
         \/ chatLock' = chatLock
            /\ (pc[r] \in Generating \cup {"dead"} => l \in Generating \cup {"dead"})
         \/ chatLock' = [chatLock EXCEPT ![chat[r]] = r] /\ l \in Generating
         \/ chatLock' = Released(chatLock, chat[r], r)
  PROVE  ChatTraced'
<1> SUFFICES ASSUME NEW c \in Chats, chatLock'[c] # None
             PROVE  chat[chatLock[c]]' = c /\ pc[chatLock[c]]' \in Generating \cup {"dead"}
  BY DEF ChatTraced
<1>1. chat' = chat
  BY DEF place
<1>2. pc'[r] = l /\ \A q \in Requests \ {r} : pc'[q] = pc[q]
  BY DEF TypeOK, RequestTypes
<1>3. CASE chatLock'[c] = chatLock[c]
  <2>1. PICK q \in Requests : q = chatLock[c]
    BY <1>3 DEF TypeOK, LockTypes, Holder
  <2>2. chat[q] = c /\ pc[q] \in Generating \cup {"dead"}
    BY <1>3, <2>1 DEF ChatTraced
  <2>3. CASE q # r
    BY <1>1, <1>2, <1>3, <2>1, <2>2, <2>3
  <2>4. CASE q = r
    <3>1. l \in Generating \cup {"dead"}
      BY <1>3, <2>1, <2>2, <2>4 DEF TypeOK, LockTypes, Released, OwnsToken
    <3> QED
      BY <1>1, <1>2, <1>3, <2>1, <2>2, <2>4, <3>1
  <2> QED
    BY <2>3, <2>4
<1>4. CASE chatLock'[c] # chatLock[c]
  <2>1. c = chat[r] /\ chatLock'[c] = r /\ l \in Generating
    BY <1>4 DEF TypeOK, LockTypes, Released
  <2> QED
    BY <1>1, <1>2, <2>1
<1> QED
  BY <1>3, <1>4

\* The history lock of a request that does not touch it, and is not in append
\* unless it stays there.
LEMMA HistoryStep ==
  ASSUME TypeOK, HistoryTraced, UNCHANGED <<historyLock, place>>, NEW r \in Requests, NEW l,
         pc' = [pc EXCEPT ![r] = l], InAppend(r) => InAppend(r)',
         \A q \in Requests \ {r} : task'[q] = task[q]
  PROVE  HistoryTraced'
<1>1. \A q \in Requests \ {r} : pc'[q] = pc[q]
  BY DEF TypeOK, RequestTypes
<1>2. \A q \in Requests : InAppend(q) => InAppend(q)'
  BY <1>1 DEF InAppend
<1> QED
  BY <1>2 DEF HistoryTraced, TypeOK, LockTypes, Holder, place

\* Every step of Next keeps the locks traced to requests that will free them.
LEMMA TracedInductive ==
  ASSUME "redis" \notin Faults, TypeOK, Traced, [Next]_vars
  PROVE  Traced'
<1> USE DEF Goto, Generating, HoldingSlot
<1>1. ASSUME NEW r \in Requests, AcquireSlot(r) PROVE Traced'
  <2>1. Key(r) \in SlotKeys
    BY <1>1, Places DEF AcquireSlot, Active
  <2>2. CASE UNCHANGED slot
    <3>1. PICK l : /\ pc' = [pc EXCEPT ![r] = l]
                   /\ \/ slotLock' = [slotLock EXCEPT ![Key(r)] = r] /\ l = "chatLock"
                      \/ slotLock' = slotLock /\ l = "done"
      BY <1>1, <2>1, <2>2 DEF AcquireSlot, TypeOK, RequestTypes
    <3>2. UNCHANGED place /\ UNCHANGED <<historyLock, chatLock, task>> /\ ~InAppend(r)
      BY <1>1, <2>2 DEF AcquireSlot, place, InAppend
    <3>3. SlotTraced'
      <4>1. CASE l = "chatLock"
        BY <2>1, <3>1, <3>2, <4>1, SlotStep DEF Traced
      <4>2. CASE l = "done"
        <5>1. \A k \in SlotKeys : slotLock[k] # r
          BY <1>1, NoneAssumption DEF AcquireSlot, Traced, SlotTraced, TypeOK, RequestTypes
        <5> QED
          BY <3>1, <3>2, <4>2, <5>1 DEF Traced, SlotTraced, TypeOK, RequestTypes, LockTypes, Holder,
             place, Key
      <4> QED
        BY <3>1, <4>1, <4>2
    <3>4. ChatTraced'
      BY <1>1, <3>1, <3>2, Places, ChatStep DEF AcquireSlot, Active, Traced
    <3>5. HistoryTraced'
      BY <3>1, <3>2, HistoryStep DEF Traced
    <3> QED
      BY <3>3, <3>4, <3>5 DEF Traced
  <2>3. CASE ~UNCHANGED slot
    BY <1>1, <2>3 DEF AcquireSlot, Traced, SlotTraced, ChatTraced, HistoryTraced, InAppend, Key,
       TypeOK, LockTypes, RequestTypes, Holder
  <2> QED
    BY <2>2, <2>3
<1>2. ASSUME NEW r \in Requests, AcquireChat(r) PROVE Traced'
  <2>1. chat[r] \in Chats /\ Key(r) \in SlotKeys
    BY <1>2, Places DEF AcquireChat, Active
  <2>2. UNCHANGED <<slotLock, historyLock, task>> /\ UNCHANGED place /\ ~InAppend(r)
    BY <1>2 DEF AcquireChat, InAppend, place
  <2>3. PICK l \in {"cacheGet", "reject"} :
          /\ pc' = [pc EXCEPT ![r] = l]
          /\ \/ chatLock' = [chatLock EXCEPT ![chat[r]] = r] /\ l = "cacheGet"
             \/ chatLock' = chatLock
    BY <1>2 DEF AcquireChat
  <2>4. SlotTraced'
    BY <2>1, <2>2, <2>3, SlotStep DEF Traced
  <2>5. ChatTraced'
    BY <1>2, <2>1, <2>2, <2>3, ChatStep DEF Traced, AcquireChat
  <2>6. HistoryTraced'
    BY <2>2, <2>3, HistoryStep DEF Traced
  <2> QED
    BY <2>4, <2>5, <2>6 DEF Traced
<1>3. ASSUME NEW r \in Requests, RejectBusyChat(r) PROVE Traced'
  <2>1. Key(r) \in SlotKeys /\ chat[r] \in Chats
    BY <1>3, Places DEF RejectBusyChat, Active
  <2>2. UNCHANGED <<chatLock, historyLock, task>> /\ UNCHANGED place /\ ~InAppend(r)
    BY <1>3 DEF RejectBusyChat, InAppend, place
  <2>3. pc' = [pc EXCEPT ![r] = "done"] /\ slotLock' = Released(slotLock, Key(r), r)
    BY <1>3 DEF RejectBusyChat, Fault
  <2>4. SlotTraced'
    BY <2>1, <2>2, <2>3, SlotStep DEF Traced
  <2>5. ChatTraced'
    BY <1>3, <2>1, <2>2, <2>3, ChatStep DEF Traced, RejectBusyChat
  <2>6. HistoryTraced'
    BY <2>2, <2>3, HistoryStep DEF Traced
  <2> QED
    BY <2>4, <2>5, <2>6 DEF Traced
<1>4. ASSUME NEW r \in Requests, ReleaseChat(r) PROVE Traced'
  <2>1. Key(r) \in SlotKeys /\ chat[r] \in Chats
    BY <1>4, Places DEF ReleaseChat, Active
  <2>2. UNCHANGED <<slotLock, historyLock, task>> /\ UNCHANGED place /\ ~InAppend(r)
    BY <1>4 DEF ReleaseChat, InAppend, place
  <2>3. pc' = [pc EXCEPT ![r] = "releaseSlot"] /\ chatLock' = Released(chatLock, chat[r], r)
    BY <1>4 DEF ReleaseChat, Fault
  <2>4. SlotTraced'
    BY <2>1, <2>2, <2>3, SlotStep DEF Traced
  <2>5. ChatTraced'
    BY <2>1, <2>2, <2>3, ChatStep DEF Traced
  <2>6. HistoryTraced'
    BY <2>2, <2>3, HistoryStep DEF Traced
  <2> QED
    BY <2>4, <2>5, <2>6 DEF Traced
<1>5. ASSUME NEW r \in Requests, ReleaseSlot(r) PROVE Traced'
  <2>1. Key(r) \in SlotKeys /\ chat[r] \in Chats
    BY <1>5, Places DEF ReleaseSlot, Active
  <2>2. /\ UNCHANGED <<chatLock, historyLock>> /\ UNCHANGED place /\ ~InAppend(r)
        /\ \A q \in Requests \ {r} : task'[q] = task[q]
    BY <1>5 DEF ReleaseSlot, InAppend, place, Forget
  <2>3. pc' = [pc EXCEPT ![r] = "done"] /\ slotLock' = Released(slotLock, Key(r), r)
    BY <1>5 DEF ReleaseSlot, Fault
  <2>4. SlotTraced'
    BY <2>1, <2>2, <2>3, SlotStep DEF Traced
  <2>5. ChatTraced'
    BY <1>5, <2>1, <2>2, <2>3, ChatStep DEF Traced, ReleaseSlot
  <2>6. HistoryTraced'
    BY <2>2, <2>3, HistoryStep DEF Traced
  <2> QED
    BY <2>4, <2>5, <2>6 DEF Traced
<1>6. ASSUME NEW r \in Requests, AppendLock(r) PROVE Traced'
  <2>1. chat[r] \in Chats /\ Key(r) \in SlotKeys
    BY <1>6, Places DEF AppendLock, Active
  <2>2. /\ UNCHANGED <<chatLock, slotLock>> /\ UNCHANGED place /\ ~InAppend(r)
        /\ \A q \in Requests \ {r} : task'[q] = task[q] /\ pc'[q] = pc[q]
    BY <1>6 DEF AppendLock, InAppend, place, TypeOK, RequestTypes
  <2>3. PICK l \in {"cacheGet", "prompt"} : pc' = [pc EXCEPT ![r] = l]
    BY <1>6 DEF AppendLock
  <2>4. SlotTraced'
    BY <2>1, <2>2, <2>3, SlotStep DEF Traced
  <2>5. ChatTraced'
    BY <2>1, <2>2, <2>3, ChatStep DEF Traced
  <2>6. HistoryTraced'
    <3>1. CASE UNCHANGED historyLock
      BY <2>2, <2>3, <3>1, HistoryStep DEF Traced
    <3>2. CASE ~UNCHANGED historyLock
      <4>1. /\ historyLock' = [historyLock EXCEPT ![chat[r]] = r]
            /\ task'[r] = "append" /\ pc'[r] = "cacheGet"
        BY <1>6, <3>2 DEF AppendLock, TypeOK, RequestTypes
      <4>2. InAppend(r)' /\ \A q \in Requests : InAppend(q) => InAppend(q)'
        BY <2>2, <4>1 DEF InAppend
      <4> QED
        BY <2>1, <2>2, <4>1, <4>2 DEF Traced, HistoryTraced, TypeOK, LockTypes, Holder, place
    <3> QED
      BY <3>1, <3>2
  <2> QED
    BY <2>4, <2>5, <2>6 DEF Traced
<1>7. ASSUME NEW r \in Requests, AppendUnlock(r) PROVE Traced'
  <2>1. chat[r] \in Chats /\ Key(r) \in SlotKeys
    BY <1>7, Places DEF AppendUnlock, Active
  <2>2. UNCHANGED <<chatLock, slotLock, task>> /\ UNCHANGED place
    BY <1>7 DEF AppendUnlock, place
  <2>3. historyLock' = Released(historyLock, chat[r], r)
    BY <1>7 DEF AppendUnlock, Fault
  <2>4. PICK l \in {"end", "prompt"} : pc' = [pc EXCEPT ![r] = l]
    BY <1>7 DEF AppendUnlock
  <2>5. SlotTraced'
    BY <2>1, <2>2, <2>4, SlotStep DEF Traced
  <2>6. ChatTraced'
    BY <2>1, <2>2, <2>4, ChatStep DEF Traced
  <2>7. HistoryTraced'
    <3>1. \A c \in Chats : historyLock'[c] # None
            => historyLock'[c] = historyLock[c] /\ historyLock[c] # r
      BY <2>1, <2>3 DEF Released, OwnsToken, Traced, HistoryTraced, TypeOK, LockTypes
    <3>2. \A q \in Requests \ {r} : InAppend(q) => InAppend(q)'
      BY <2>2, <2>4 DEF InAppend
    <3> QED
      BY <2>2, <3>1, <3>2 DEF Traced, HistoryTraced, TypeOK, LockTypes, Holder, place
  <2> QED
    BY <2>5, <2>6, <2>7 DEF Traced
<1>8. ASSUME NEW r \in Requests, CacheGet(r) PROVE Traced'
  BY <1>8, MoveOn DEF CacheGet, InAppend, locks, TypeOK, RequestTypes, AfterHistory
<1>9. ASSUME NEW r \in Requests, DbLoad(r) PROVE Traced'
  BY <1>9, MoveOn DEF DbLoad, InAppend, locks, TypeOK, RequestTypes
<1>10. ASSUME NEW r \in Requests, DbLoadFails(r) PROVE Traced'
  BY <1>10, MoveOn DEF DbLoadFails, InAppend, locks, TypeOK, RequestTypes, AfterFailedLoad
<1>11. ASSUME NEW r \in Requests, CachePut(r) PROVE Traced'
  BY <1>11, MoveOn DEF CachePut, InAppend, locks, TypeOK, RequestTypes, AfterHistory
<1>12. ASSUME NEW r \in Requests, AppendPut(r) PROVE Traced'
  BY <1>12, MoveOn DEF AppendPut, InAppend, locks, TypeOK, RequestTypes
<1>13. ASSUME NEW r \in Requests, Begin(r) PROVE Traced'
  BY <1>13, MoveOn DEF Begin, InAppend, locks, TypeOK, RequestTypes
<1>14. ASSUME NEW r \in Requests, BeginFails(r) PROVE Traced'
  BY <1>14, MoveOn DEF BeginFails, InAppend, locks, TypeOK, RequestTypes
<1>15. ASSUME NEW r \in Requests, BuildPrompt(r) PROVE Traced'
  BY <1>15, MoveOn DEF BuildPrompt, InAppend, locks, TypeOK, RequestTypes
<1>16. ASSUME NEW r \in Requests, StreamReply(r) PROVE Traced'
  BY <1>16, MoveOn DEF StreamReply, InAppend, locks, TypeOK, RequestTypes
<1>17. ASSUME NEW r \in Requests, Complete(r) PROVE Traced'
  BY <1>17, MoveOn DEF Complete, InAppend, locks, TypeOK, RequestTypes
<1>18. ASSUME NEW r \in Requests, CompleteFails(r) PROVE Traced'
  BY <1>18, MoveOn DEF CompleteFails, InAppend, locks, TypeOK, RequestTypes
<1>19. ASSUME NEW r \in Requests, RecordUsage(r) PROVE Traced'
  BY <1>19, MoveOn DEF RecordUsage, InAppend, locks, TypeOK, RequestTypes
<1>20. ASSUME NEW r \in Requests, EndTurn(r) PROVE Traced'
  BY <1>20, MoveOn DEF EndTurn, InAppend, locks, TypeOK, RequestTypes
<1>21. ASSUME NEW r \in Requests, EndTurnFails(r) PROVE Traced'
  BY <1>21, MoveOn DEF EndTurnFails, InAppend, locks, TypeOK, RequestTypes
<1>22. ASSUME NEW r \in Requests, InvalidateOwn(r) PROVE Traced'
  BY <1>22, MoveOn DEF InvalidateOwn, InAppend, locks, TypeOK, RequestTypes
<1>23. ASSUME NEW r \in Requests, NEW c \in Chats, NEW p \in Principals, Start(r, c, p)
      PROVE  Traced'
  BY <1>23 DEF Start, Traced, ChatTraced, SlotTraced, HistoryTraced, InAppend, Key, locks, TypeOK,
     LockTypes, RequestTypes, Holder
<1>24. ASSUME NEW r \in Requests, Refuse(r) PROVE Traced'
  BY <1>24, MoveOn DEF Refuse, InAppend, locks
<1>25. CASE \/ \E r \in Requests : Abort(r)
            \/ \E c \in Chats : ExpireCache(c) \/ DeleteChat(c) \/ Invalidate(c)
            \/ \E p \in Anonymous, u \in Users : TransferChats(p, u)
            \/ UNCHANGED vars
  BY <1>25 DEF Abort, ExpireCache, DeleteChat, Invalidate, TransferChats, vars, locks, place,
     Traced, ChatTraced, SlotTraced, HistoryTraced, InAppend, Key
<1>26. CASE \/ \E c \in Chats : ExpireChatLock(c) \/ ExpireHistoryLock(c)
            \/ \E k \in SlotKeys : ExpireSlotLock(k)
  BY <1>26 DEF ExpireChatLock, ExpireHistoryLock, ExpireSlotLock, place, Traced, ChatTraced,
     SlotTraced, HistoryTraced, InAppend, Key, TypeOK, LockTypes
<1>27. CASE Crash
  <2>1. /\ \A r \in Requests : (pc'[r] = pc[r] /\ task'[r] = task[r]) \/ pc'[r] = "dead"
        /\ UNCHANGED locks /\ UNCHANGED place
    BY <1>27 DEF Crash, Forget, TypeOK, RequestTypes
  <2>2. \A r \in Requests : InAppend(r) => InAppend(r)'
    BY <2>1 DEF InAppend
  <2> QED
    BY <2>1, <2>2 DEF Traced, ChatTraced, SlotTraced, HistoryTraced, Key, locks, place, TypeOK,
       LockTypes, Holder
<1>28. \A r \in Requests : ~AcquireSlotThrows(r) /\ ~AcquireChatThrows(r)
  BY DEF AcquireSlotThrows, AcquireChatThrows, Fault
<1> HIDE DEF Goto, Generating, HoldingSlot
<1>29. CASE Environment
  BY <1>23, <1>24, <1>25, <1>26, <1>27, <1>29 DEF Environment
<1>30. ASSUME NEW r \in Requests, Step(r) PROVE Traced'
  BY <1>1, <1>2, <1>3, <1>4, <1>5, <1>6, <1>7, <1>8, <1>9, <1>10, <1>11, <1>12, <1>13, <1>14, <1>15, <1>16, <1>17, <1>18, <1>19, <1>20, <1>21, <1>22, <1>28, <1>30
     DEF Step
<1> QED
  BY <1>25, <1>29, <1>30 DEF Next

\* As long as Redis answers, a request that is over keeps no lock: each way out of
\* stream() and of append passes the release of what was taken on the way in.
THEOREM NothingLeaks ==
  ASSUME "redis" \notin Faults
  PROVE  Spec => []NoLeakedLock
<1>1. Init => Traced
  BY DEF Init, InitAfter, Traced, ChatTraced, SlotTraced, HistoryTraced
<1>2. TypeOK /\ Traced /\ [Next]_vars => Traced'
  BY TracedInductive
<1>3. TypeOK /\ Traced => NoLeakedLock
  BY NoneAssumption DEF NoLeakedLock, Holds, Traced, ChatTraced, SlotTraced, HistoryTraced, InAppend,
     Generating, HoldingSlot
<1> QED
  BY <1>1, <1>2, <1>3, TypeCorrect, PTL DEF Spec

-----------------------------------------------------------------------------
(***************************************************************************)
(* Turns: rows, closing events, history and cache.                         *)
(***************************************************************************)
(* Every reply has a row of its own.                                       *)

Status(q) == ReplyRow(q).status

\* The row of a reply is among its chat's rows for as long as the chat exists.
Placed ==
  \A q \in Requests : Begun(q) =>
    /\ chat[q] \in Chats
    /\ Exists(chat[q]) => ReplyId(q) \in 1 .. Len(messages[chat[q]])

\* No two requests have the same row.
Apart ==
  \A q, r \in Requests :
    (q # r /\ Begun(q) /\ Begun(r) /\ chat[q] = chat[r] /\ Exists(chat[q]))
      => question[q] # question[r]

OwnRows == Placed /\ Apart

\* A step that leaves the row of q as it was, or deletes it with its chat.
Kept(q) ==
  /\ question'[q] = question[q]
  /\ chat'[q] = chat[q]
  /\ Begun(q) /\ Exists(chat[q])' => Exists(chat[q]) /\ Status(q)' = Status(q)

\* A step that touches no row, no owner and no chat of a request keeps every row.
LEMMA KeptByQuietStep ==
  ASSUME UNCHANGED <<owner, messages, question, chat>>
  PROVE  (\A q \in Requests : Kept(q)) /\ (OwnRows => OwnRows')
BY DEF Kept, Begun, Exists, Status, ReplyRow, ReplyId, OwnRows, Placed, Apart

\* The two rows of a new turn follow the rows of the chat.
LEMMA KeptByBegin ==
  ASSUME TypeOK, OwnRows, NEW r \in Requests, Begin(r)
  PROVE  /\ \A q \in Requests \ {r} : Kept(q)
         /\ Begun(r)' /\ Status(r)' = "STREAMING"
         /\ OwnRows'
<1> USE DEF TypeOK, DataTypes, RequestTypes
<1> DEFINE c == chat[r]
           n == Len(messages[c])
<1>1. /\ c \in Chats /\ Exists(c) /\ UNCHANGED <<owner, place>>
      /\ messages' = [messages EXCEPT ![c] = @ \o <<Prompt, Placeholder>>]
      /\ question' = [question EXCEPT ![r] = n + 1]
  BY Places DEF Begin, database, Active
<1>2. messages[c] \in Seq(Message) /\ n \in Nat
  BY <1>1
<1>3. /\ Len(messages'[c]) = n + 2
      /\ \A i \in 1 .. n : messages'[c][i] = messages[c][i]
      /\ messages'[c][n + 2] = Placeholder
      /\ \A d \in Chats \ {c} : messages'[d] = messages[d]
  BY <1>1, <1>2
<1>4. question'[r] = n + 1 /\ \A q \in Requests \ {r} : question'[q] = question[q]
  BY <1>1
<1>5. ASSUME NEW q \in Requests \ {r} PROVE Kept(q)
  <2>1. CASE ~Begun(q)
    BY <1>1, <1>4, <2>1 DEF Kept, place
  <2>2. CASE Begun(q) /\ ~Exists(chat[q])
    BY <1>1, <1>4, <2>2 DEF Kept, Exists, place
  <2>3. CASE Begun(q) /\ Exists(chat[q])
    <3>1. chat[q] \in Chats /\ ReplyId(q) \in 1 .. Len(messages[chat[q]])
      BY <2>3 DEF OwnRows, Placed
    <3>2. messages'[chat[q]][ReplyId(q)] = messages[chat[q]][ReplyId(q)]
      BY <1>3, <3>1
    <3> QED
      BY <1>1, <1>4, <2>3, <3>2 DEF Kept, Exists, place, Status, ReplyRow, ReplyId
  <2> QED
    BY <2>1, <2>2, <2>3
<1>6. Begun(r)' /\ ReplyId(r)' = n + 2 /\ chat'[r] = c
  BY <1>1, <1>2, <1>4 DEF Begun, ReplyId, place
<1>7. Status(r)' = "STREAMING"
  BY <1>3, <1>6 DEF Status, ReplyRow, Placeholder
<1>8. Placed'
  <2> SUFFICES ASSUME NEW q \in Requests, Begun(q)'
               PROVE  /\ chat'[q] \in Chats
                      /\ Exists(chat[q])' => ReplyId(q)' \in 1 .. Len(messages'[chat'[q]])
    BY DEF Placed
  <2>1. CASE q = r
    BY <1>1, <1>2, <1>3, <1>6, <2>1
  <2>2. CASE q # r
    <3>1. Begun(q) /\ chat'[q] = chat[q] /\ ReplyId(q)' = ReplyId(q)
      BY <1>1, <1>4, <2>2 DEF Begun, ReplyId, place
    <3>2. chat[q] \in Chats /\ (Exists(chat[q])' => ReplyId(q) \in 1 .. Len(messages[chat[q]]))
      BY <1>1, <3>1 DEF OwnRows, Placed, Exists, place
    <3>3. 1 .. Len(messages[chat[q]]) \subseteq 1 .. Len(messages'[chat[q]])
      <4>1. messages[chat[q]] \in Seq(Message) /\ Len(messages[chat[q]]) \in Nat
        BY <3>2
      <4>2. CASE chat[q] = c
        BY <1>2, <1>3, <4>2
      <4>3. CASE chat[q] # c
        BY <1>3, <3>2, <4>3
      <4> QED
        BY <4>2, <4>3
    <3> QED
      BY <3>1, <3>2, <3>3
  <2> QED
    BY <2>1, <2>2
<1>9. Apart'
  <2>1. ASSUME NEW q \in Requests \ {r}, Begun(q)', chat'[q] = c
        PROVE  question'[q] < n + 1
    <3>1. Begun(q) /\ chat[q] = c
      BY <1>1, <1>4, <2>1 DEF Begun, place
    <3>2. ReplyId(q) \in 1 .. n
      BY <1>1, <3>1 DEF OwnRows, Placed
    <3> QED
      BY <1>2, <1>4, <3>2 DEF ReplyId
  <2>2. \A q \in Requests \ {r} : (Begun(q)' /\ chat'[q] = c) => question'[q] # question'[r]
    BY <1>2, <1>4, <2>1
  <2>3. \A p, q \in Requests \ {r} :
          (p # q /\ Begun(p)' /\ Begun(q)' /\ chat'[p] = chat'[q] /\ Exists(chat[p])')
            => question'[p] # question'[q]
    BY <1>1, <1>4 DEF OwnRows, Apart, Begun, Exists, place
  <2> QED
    BY <1>6, <2>2, <2>3 DEF Apart
<1> QED
  BY <1>5, <1>6, <1>7, <1>8, <1>9 DEF OwnRows

\* The final write of a turn changes the status of the turn's own row.
LEMMA KeptByReply ==
  ASSUME TypeOK, OwnRows, NEW r \in Requests, Begun(r), Exists(chat[r]),
         NEW s, SetReply(r, s), UNCHANGED <<owner, question, place>>
  PROVE  /\ \A q \in Requests \ {r} : Kept(q)
         /\ Begun(r)' /\ Status(r)' = s
         /\ OwnRows'
<1> USE DEF TypeOK, DataTypes, RequestTypes
<1> DEFINE c == chat[r]
           rows == messages[c]
           i == ReplyId(r)
           updated == [rows EXCEPT ![i] = [@ EXCEPT !.status = s]]
<1>1. c \in Chats /\ i \in 1 .. Len(rows)
  BY DEF OwnRows, Placed
<1>2. rows \in Seq(Message) /\ rows \in [1 .. Len(rows) -> Message] /\ rows[i] \in Message
  BY <1>1
<1>3. messages' = [messages EXCEPT ![c] = updated]
  BY DEF SetReply
<1>4. messages'[c] = updated /\ \A d \in Chats \ {c} : messages'[d] = messages[d]
  BY <1>1, <1>3
<1>5. DOMAIN updated = 1 .. Len(rows)
  BY <1>2
<1>6. Len(updated) = Len(rows)
  BY <1>2, <1>5
<1>7. updated[i].status = s /\ \A j \in 1 .. Len(rows) : j # i => updated[j] = rows[j]
  <2>1. updated[i] = [rows[i] EXCEPT !.status = s]
    BY <1>1, <1>2
  <2> QED
    BY <1>2, <2>1 DEF Message
<1> HIDE DEF updated
<1>8. /\ chat' = chat /\ owner' = owner /\ question' = question
      /\ \A q \in Requests : ReplyId(q)' = ReplyId(q) /\ Begun(q)' = Begun(q)
  BY DEF place, ReplyId, Begun
<1>9. ASSUME NEW q \in Requests \ {r} PROVE Kept(q)
  <2>1. SUFFICES ASSUME Begun(q), Exists(chat[q])
                 PROVE  messages'[chat[q]][ReplyId(q)] = messages[chat[q]][ReplyId(q)]
    BY <1>8 DEF Kept, Exists, Status, ReplyRow
  <2>2. chat[q] \in Chats /\ ReplyId(q) \in 1 .. Len(messages[chat[q]])
    BY <2>1 DEF OwnRows, Placed
  <2>3. CASE chat[q] = c
    <3>1. ReplyId(q) # i
      BY <2>1, <2>3 DEF OwnRows, Apart, ReplyId
    <3> QED
      BY <1>4, <1>7, <2>2, <2>3, <3>1
  <2>4. CASE chat[q] # c
    BY <1>4, <2>2, <2>4
  <2> QED
    BY <2>3, <2>4
<1>10. Begun(r)' /\ Status(r)' = s
  BY <1>4, <1>7, <1>8 DEF Status, ReplyRow
<1>11. Placed'
  <2> SUFFICES ASSUME NEW q \in Requests, Begun(q)
               PROVE  /\ chat[q] \in Chats
                      /\ Exists(chat[q]) => ReplyId(q) \in 1 .. Len(messages'[chat[q]])
    BY <1>8 DEF Placed, Exists
  <2>1. /\ chat[q] \in Chats
        /\ Exists(chat[q]) => ReplyId(q) \in 1 .. Len(messages[chat[q]])
    BY DEF OwnRows, Placed
  <2>2. Len(messages'[chat[q]]) = Len(messages[chat[q]])
    BY <1>4, <1>6, <2>1
  <2> QED
    BY <2>1, <2>2
<1>12. Apart'
  BY <1>8 DEF OwnRows, Apart, Exists
<1> QED
  BY <1>9, <1>10, <1>11, <1>12 DEF OwnRows

\* A chat that is deleted is not seen again, and one that changes hands keeps its rows.
LEMMA KeptByOwnerStep ==
  ASSUME TypeOK, OwnRows,
         \/ \E c \in Chats : DeleteChat(c)
         \/ \E p \in Anonymous, u \in Users : TransferChats(p, u)
  PROVE  (\A q \in Requests : Kept(q)) /\ OwnRows'
<1> USE DEF TypeOK, DataTypes
<1>1. /\ chat' = chat /\ question' = question
      /\ \A q \in Requests : ReplyId(q)' = ReplyId(q) /\ Begun(q)' = Begun(q)
  BY DEF DeleteChat, TransferChats, place, turn, ReplyId, Begun
<1>2. \A c \in Chats : Exists(c)' => Exists(c) /\ messages'[c] = messages[c]
  <2>1. ASSUME NEW c \in Chats, DeleteChat(c)
        PROVE  \A d \in Chats : Exists(d)' => Exists(d) /\ messages'[d] = messages[d]
    BY <2>1 DEF DeleteChat, Exists
  <2>2. ASSUME NEW p \in Anonymous, NEW u \in Users, TransferChats(p, u)
        PROVE  \A d \in Chats : Exists(d)' => Exists(d) /\ messages'[d] = messages[d]
    BY <2>2, NoneAssumption DEF TransferChats, Exists, ChatsOf
  <2> QED
    BY <2>1, <2>2
<1>3. \A q \in Requests : Begun(q) => chat[q] \in Chats
  BY DEF OwnRows, Placed
<1>4. \A q \in Requests : (Begun(q) /\ Exists(chat[q])')
        => Exists(chat[q]) /\ messages'[chat[q]] = messages[chat[q]]
  <2> SUFFICES ASSUME NEW q \in Requests, Begun(q), Exists(chat[q])'
               PROVE  Exists(chat[q]) /\ messages'[chat[q]] = messages[chat[q]]
    OBVIOUS
  <2>1. PICK c \in Chats : c = chat[q]
    BY <1>3
  <2>2. Exists(c)'
    BY <1>1, <2>1 DEF Exists
  <2> QED
    BY <1>2, <2>1, <2>2
<1>5. \A q \in Requests : Kept(q)
  BY <1>1, <1>4 DEF Kept, Status, ReplyRow
<1>6. Placed'
  BY <1>1, <1>4 DEF Placed, OwnRows
<1>7. Apart'
  BY <1>1, <1>4 DEF Apart, OwnRows
<1> QED
  BY <1>5, <1>6, <1>7 DEF OwnRows

\* A request that starts has no row yet.
LEMMA KeptByStart ==
  ASSUME TypeOK, OwnRows, NEW r \in Requests, NEW c \in Chats, NEW p \in Principals,
         Start(r, c, p), ~Begun(r)
  PROVE  (\A q \in Requests \ {r} : Kept(q)) /\ ~Begun(r)' /\ OwnRows'
<1>1. /\ \A q \in Requests : ReplyId(q)' = ReplyId(q) /\ Begun(q)' = Begun(q)
      /\ UNCHANGED <<owner, messages, question>>
      /\ \A q \in Requests \ {r} : chat'[q] = chat[q]
  BY DEF Start, database, turn, ReplyId, Begun, TypeOK, RequestTypes
<1>2. Placed'
  BY <1>1 DEF OwnRows, Placed, Exists
<1>3. Apart'
  BY <1>1 DEF OwnRows, Apart, Exists
<1>4. \A q \in Requests \ {r} : Kept(q)
  BY <1>1 DEF Kept, Exists, Status, ReplyRow
<1> QED
  BY <1>1, <1>2, <1>3, <1>4 DEF OwnRows
-----------------------------------------------------------------------------
(* What a client is told.                                                  *)

Subroutine == {"cacheGet", "dbLoad", "cachePut"}

\* The reply of q is being written, or its end is being made known.
Writing(q) ==
  \/ pc[q] \in {"appendLock", "appendPut", "appendUnlock", "prompt", "generate", "complete", "end"}
  \/ pc[q] \in Subroutine /\ task[q] = "append"
Ending(q) ==
  \/ pc[q] \in {"usage", "invalidate"}
  \/ pc[q] \in Subroutine /\ task[q] \in Closing

\* The rows exist from beginGeneration on, and the closing event is the last thing
\* that happens before the locks are released.
Sequenced(q) ==
  /\ pc[q] \in {"idle", "slots", "chatLock", "reject", "begin"} => ~Begun(q)
  /\ pc[q] \in Subroutine /\ task[q] = "history" => ~Begun(q)
  /\ Writing(q) \/ Ending(q) => Begun(q)
  /\ event[q] # "none" => Over(q)

\* What q was told, or is about to be told, is what its row says.
Truthful(q) ==
  (Begun(q) /\ Exists(chat[q])) =>
    /\ event[q] \in {"completed", "cancelled"} => Status(q) = StatusOf[event[q]]
    /\ pc[q] = "usage" => Status(q) = "COMPLETED"
    /\ Ending(q) /\ pc[q] # "usage" => Status(q) = StatusOf[task[q]]

Turns == OwnRows /\ \A q \in Requests : Sequenced(q) /\ Truthful(q)

\* A step of r changes nothing for a request whose row is kept.
LEMMA Bystander ==
  ASSUME NEW q \in Requests, Sequenced(q), Truthful(q), Kept(q),
         pc'[q] = pc[q], task'[q] = task[q], event'[q] = event[q]
  PROVE  (Sequenced(q) /\ Truthful(q))'
BY DEF Sequenced, Truthful, Kept, Writing, Ending, Over, Begun

\* The steps of a request that write no row.
LEMMA QuietTurn ==
  ASSUME Turns, NEW r \in Requests, UNCHANGED <<owner, messages, question, chat>>,
         \A q \in Requests \ {r} : pc'[q] = pc[q] /\ task'[q] = task[q] /\ event'[q] = event[q],
         Sequenced(r)', Kept(r) => Truthful(r)'
  PROVE  Turns'
<1>1. (\A q \in Requests : Kept(q)) /\ OwnRows'
  BY KeptByQuietStep DEF Turns
<1>2. \A q \in Requests \ {r} : (Sequenced(q) /\ Truthful(q))'
  BY <1>1, Bystander DEF Turns
<1> QED
  BY <1>1, <1>2 DEF Turns

\* The steps that write the row of r.
LEMMA LoudTurn ==
  ASSUME Turns, NEW r \in Requests, \A q \in Requests \ {r} : Kept(q), OwnRows',
         \A q \in Requests \ {r} : pc'[q] = pc[q] /\ task'[q] = task[q] /\ event'[q] = event[q],
         Sequenced(r)', Truthful(r)'
  PROVE  Turns'
<1>1. \A q \in Requests \ {r} : (Sequenced(q) /\ Truthful(q))'
  BY Bystander DEF Turns
<1> QED
  BY <1>1 DEF Turns

\* Every step of Next keeps rows, places and events in agreement.
LEMMA TurnsInductive ==
  ASSUME TypeOK, Turns, [Next]_vars
  PROVE  Turns'
<1> USE DEF Goto, database, place, turn
<1>0. \A r \in Requests : Sequenced(r) /\ Truthful(r) /\ TaskFits(r)
  BY DEF Turns, TypeOK
<1>1. ASSUME NEW r \in Requests, AcquireSlot(r) PROVE Turns'
  <2>1. /\ UNCHANGED <<owner, messages, question, chat>>
        /\ \A q \in Requests \ {r} : pc'[q] = pc[q] /\ task'[q] = task[q] /\ event'[q] = event[q]
    BY <1>1 DEF AcquireSlot, TypeOK, RequestTypes
  <2>2. Sequenced(r)' /\ (Kept(r) => Truthful(r)')
    BY <1>0, <1>1, <2>1 DEF AcquireSlot, Sequenced, Truthful, Kept, Writing, Ending, Over, Begun, Subroutine,
       Closing, StatusOf, TaskFits, TypeOK, RequestTypes
  <2> QED
    BY <2>1, <2>2, QuietTurn
<1>2. ASSUME NEW r \in Requests, AcquireSlotThrows(r) PROVE Turns'
  <2>1. /\ UNCHANGED <<owner, messages, question, chat>>
        /\ \A q \in Requests \ {r} : pc'[q] = pc[q] /\ task'[q] = task[q] /\ event'[q] = event[q]
    BY <1>2 DEF AcquireSlotThrows, TypeOK, RequestTypes
  <2>2. Sequenced(r)' /\ (Kept(r) => Truthful(r)')
    BY <1>0, <1>2, <2>1 DEF AcquireSlotThrows, Sequenced, Truthful, Kept, Writing, Ending, Over, Begun, Subroutine,
       Closing, StatusOf, TaskFits, TypeOK, RequestTypes
  <2> QED
    BY <2>1, <2>2, QuietTurn
<1>3. ASSUME NEW r \in Requests, AcquireChat(r) PROVE Turns'
  <2>1. /\ UNCHANGED <<owner, messages, question, chat>>
        /\ \A q \in Requests \ {r} : pc'[q] = pc[q] /\ task'[q] = task[q] /\ event'[q] = event[q]
    BY <1>3 DEF AcquireChat, TypeOK, RequestTypes
  <2>2. Sequenced(r)' /\ (Kept(r) => Truthful(r)')
    BY <1>0, <1>3, <2>1 DEF AcquireChat, Sequenced, Truthful, Kept, Writing, Ending, Over, Begun, Subroutine,
       Closing, StatusOf, TaskFits, TypeOK, RequestTypes
  <2> QED
    BY <2>1, <2>2, QuietTurn
<1>4. ASSUME NEW r \in Requests, AcquireChatThrows(r) PROVE Turns'
  <2>1. /\ UNCHANGED <<owner, messages, question, chat>>
        /\ \A q \in Requests \ {r} : pc'[q] = pc[q] /\ task'[q] = task[q] /\ event'[q] = event[q]
    BY <1>4 DEF AcquireChatThrows, TypeOK, RequestTypes
  <2>2. Sequenced(r)' /\ (Kept(r) => Truthful(r)')
    BY <1>0, <1>4, <2>1 DEF AcquireChatThrows, Sequenced, Truthful, Kept, Writing, Ending, Over, Begun, Subroutine,
       Closing, StatusOf, TaskFits, TypeOK, RequestTypes
  <2> QED
    BY <2>1, <2>2, QuietTurn
<1>5. ASSUME NEW r \in Requests, RejectBusyChat(r) PROVE Turns'
  <2>1. /\ UNCHANGED <<owner, messages, question, chat>>
        /\ \A q \in Requests \ {r} : pc'[q] = pc[q] /\ task'[q] = task[q] /\ event'[q] = event[q]
    BY <1>5 DEF RejectBusyChat, TypeOK, RequestTypes
  <2>2. Sequenced(r)' /\ (Kept(r) => Truthful(r)')
    BY <1>0, <1>5, <2>1 DEF RejectBusyChat, Sequenced, Truthful, Kept, Writing, Ending, Over, Begun, Subroutine,
       Closing, StatusOf, TaskFits, TypeOK, RequestTypes
  <2> QED
    BY <2>1, <2>2, QuietTurn
<1>6. ASSUME NEW r \in Requests, CacheGet(r) PROVE Turns'
  <2>1. /\ UNCHANGED <<owner, messages, question, chat>>
        /\ \A q \in Requests \ {r} : pc'[q] = pc[q] /\ task'[q] = task[q] /\ event'[q] = event[q]
    BY <1>6 DEF CacheGet, TypeOK, RequestTypes
  <2>2. Sequenced(r)' /\ (Kept(r) => Truthful(r)')
    BY <1>0, <1>6, <2>1 DEF CacheGet, Sequenced, Truthful, Kept, Writing, Ending, Over, Begun, Subroutine,
       Closing, StatusOf, TaskFits, TypeOK, RequestTypes, AfterHistory
  <2> QED
    BY <2>1, <2>2, QuietTurn
<1>7. ASSUME NEW r \in Requests, DbLoad(r) PROVE Turns'
  <2>1. /\ UNCHANGED <<owner, messages, question, chat>>
        /\ \A q \in Requests \ {r} : pc'[q] = pc[q] /\ task'[q] = task[q] /\ event'[q] = event[q]
    BY <1>7 DEF DbLoad, TypeOK, RequestTypes
  <2>2. Sequenced(r)' /\ (Kept(r) => Truthful(r)')
    BY <1>0, <1>7, <2>1 DEF DbLoad, Sequenced, Truthful, Kept, Writing, Ending, Over, Begun, Subroutine,
       Closing, StatusOf, TaskFits, TypeOK, RequestTypes
  <2> QED
    BY <2>1, <2>2, QuietTurn
<1>8. ASSUME NEW r \in Requests, DbLoadFails(r) PROVE Turns'
  <2>1. /\ UNCHANGED <<owner, messages, question, chat>>
        /\ \A q \in Requests \ {r} : pc'[q] = pc[q] /\ task'[q] = task[q] /\ event'[q] = event[q]
    BY <1>8 DEF DbLoadFails, TypeOK, RequestTypes
  <2>2. Sequenced(r)' /\ (Kept(r) => Truthful(r)')
    <3> USE DEF Sequenced, Truthful, Kept, Writing, Ending, Over, Begun, Subroutine, Closing
    <3>1. pc[r] = "dbLoad" /\ event[r] = "none" /\ pc'[r] = AfterFailedLoad(r)
      BY <1>0, <1>8 DEF DbLoadFails, TypeOK, RequestTypes
    <3>2. CASE task[r] = "history"
      <4>1. pc'[r] = "releaseChat" /\ event'[r] = "error" /\ question'[r] = 0
        BY <1>0, <1>8, <2>1, <3>1, <3>2 DEF DbLoadFails, AfterFailedLoad, TypeOK, RequestTypes
      <4> QED
        BY <4>1
    <3>3. CASE task[r] = "append"
      <4>1. /\ pc'[r] = "appendUnlock" /\ event'[r] = "none"
            /\ question'[r] = question[r] /\ Begun(r)
        BY <1>0, <1>8, <2>1, <3>1, <3>3 DEF DbLoadFails, AfterFailedLoad
      <4> QED
        BY <4>1
    <3>4. CASE task[r] = "completed"
      <4>1. pc'[r] = "end" /\ event'[r] = "none" /\ question'[r] = question[r] /\ Begun(r)
        BY <1>0, <1>8, <2>1, <3>1, <3>4 DEF DbLoadFails, AfterFailedLoad
      <4> QED
        BY <4>1
    <3>5. CASE task[r] \in {"cancelled", "error"}
      <4>1. /\ pc'[r] = "invalidate" /\ event'[r] = "none" /\ task'[r] = task[r]
            /\ question'[r] = question[r] /\ Begun(r)
        BY <1>0, <1>8, <2>1, <3>1, <3>5 DEF DbLoadFails, AfterFailedLoad
      <4> QED
        BY <1>0, <3>1, <3>5, <4>1
    <3> QED
      BY <1>0, <3>1, <3>2, <3>3, <3>4, <3>5 DEF TaskFits, TypeOK, RequestTypes, Tasks
  <2> QED
    BY <2>1, <2>2, QuietTurn
<1>9. ASSUME NEW r \in Requests, CachePut(r) PROVE Turns'
  <2>1. /\ UNCHANGED <<owner, messages, question, chat>>
        /\ \A q \in Requests \ {r} : pc'[q] = pc[q] /\ task'[q] = task[q] /\ event'[q] = event[q]
    BY <1>9 DEF CachePut, TypeOK, RequestTypes
  <2>2. Sequenced(r)' /\ (Kept(r) => Truthful(r)')
    BY <1>0, <1>9, <2>1 DEF CachePut, Sequenced, Truthful, Kept, Writing, Ending, Over, Begun, Subroutine,
       Closing, StatusOf, TaskFits, TypeOK, RequestTypes, AfterHistory
  <2> QED
    BY <2>1, <2>2, QuietTurn
<1>10. ASSUME NEW r \in Requests, BeginFails(r) PROVE Turns'
  <2>1. /\ UNCHANGED <<owner, messages, question, chat>>
        /\ \A q \in Requests \ {r} : pc'[q] = pc[q] /\ task'[q] = task[q] /\ event'[q] = event[q]
    BY <1>10 DEF BeginFails, TypeOK, RequestTypes
  <2>2. Sequenced(r)' /\ (Kept(r) => Truthful(r)')
    BY <1>0, <1>10, <2>1 DEF BeginFails, Sequenced, Truthful, Kept, Writing, Ending, Over, Begun, Subroutine,
       Closing, StatusOf, TaskFits, TypeOK, RequestTypes
  <2> QED
    BY <2>1, <2>2, QuietTurn
<1>11. ASSUME NEW r \in Requests, AppendLock(r) PROVE Turns'
  <2>1. /\ UNCHANGED <<owner, messages, question, chat>>
        /\ \A q \in Requests \ {r} : pc'[q] = pc[q] /\ task'[q] = task[q] /\ event'[q] = event[q]
    BY <1>11 DEF AppendLock, TypeOK, RequestTypes
  <2>2. Sequenced(r)' /\ (Kept(r) => Truthful(r)')
    BY <1>0, <1>11, <2>1 DEF AppendLock, Sequenced, Truthful, Kept, Writing, Ending, Over, Begun, Subroutine,
       Closing, StatusOf, TaskFits, TypeOK, RequestTypes
  <2> QED
    BY <2>1, <2>2, QuietTurn
<1>12. ASSUME NEW r \in Requests, AppendPut(r) PROVE Turns'
  <2>1. /\ UNCHANGED <<owner, messages, question, chat>>
        /\ \A q \in Requests \ {r} : pc'[q] = pc[q] /\ task'[q] = task[q] /\ event'[q] = event[q]
    BY <1>12 DEF AppendPut, TypeOK, RequestTypes
  <2>2. Sequenced(r)' /\ (Kept(r) => Truthful(r)')
    BY <1>0, <1>12, <2>1 DEF AppendPut, Sequenced, Truthful, Kept, Writing, Ending, Over, Begun, Subroutine,
       Closing, StatusOf, TaskFits, TypeOK, RequestTypes
  <2> QED
    BY <2>1, <2>2, QuietTurn
<1>13. ASSUME NEW r \in Requests, AppendUnlock(r) PROVE Turns'
  <2>1. /\ UNCHANGED <<owner, messages, question, chat>>
        /\ \A q \in Requests \ {r} : pc'[q] = pc[q] /\ task'[q] = task[q] /\ event'[q] = event[q]
    BY <1>13 DEF AppendUnlock, TypeOK, RequestTypes
  <2>2. Sequenced(r)' /\ (Kept(r) => Truthful(r)')
    BY <1>0, <1>13, <2>1 DEF AppendUnlock, Sequenced, Truthful, Kept, Writing, Ending, Over, Begun, Subroutine,
       Closing, StatusOf, TaskFits, TypeOK, RequestTypes
  <2> QED
    BY <2>1, <2>2, QuietTurn
<1>14. ASSUME NEW r \in Requests, BuildPrompt(r) PROVE Turns'
  <2>1. /\ UNCHANGED <<owner, messages, question, chat>>
        /\ \A q \in Requests \ {r} : pc'[q] = pc[q] /\ task'[q] = task[q] /\ event'[q] = event[q]
    BY <1>14 DEF BuildPrompt, TypeOK, RequestTypes
  <2>2. Sequenced(r)' /\ (Kept(r) => Truthful(r)')
    BY <1>0, <1>14, <2>1 DEF BuildPrompt, Sequenced, Truthful, Kept, Writing, Ending, Over, Begun, Subroutine,
       Closing, StatusOf, TaskFits, TypeOK, RequestTypes
  <2> QED
    BY <2>1, <2>2, QuietTurn
<1>15. ASSUME NEW r \in Requests, StreamReply(r) PROVE Turns'
  <2>1. /\ UNCHANGED <<owner, messages, question, chat>>
        /\ \A q \in Requests \ {r} : pc'[q] = pc[q] /\ task'[q] = task[q] /\ event'[q] = event[q]
    BY <1>15 DEF StreamReply, TypeOK, RequestTypes
  <2>2. Sequenced(r)' /\ (Kept(r) => Truthful(r)')
    BY <1>0, <1>15, <2>1 DEF StreamReply, Sequenced, Truthful, Kept, Writing, Ending, Over, Begun, Subroutine,
       Closing, StatusOf, TaskFits, TypeOK, RequestTypes
  <2> QED
    BY <2>1, <2>2, QuietTurn
<1>16. ASSUME NEW r \in Requests, CompleteFails(r) PROVE Turns'
  <2>1. /\ UNCHANGED <<owner, messages, question, chat>>
        /\ \A q \in Requests \ {r} : pc'[q] = pc[q] /\ task'[q] = task[q] /\ event'[q] = event[q]
    BY <1>16 DEF CompleteFails, TypeOK, RequestTypes
  <2>2. Sequenced(r)' /\ (Kept(r) => Truthful(r)')
    BY <1>0, <1>16, <2>1 DEF CompleteFails, Sequenced, Truthful, Kept, Writing, Ending, Over, Begun, Subroutine,
       Closing, StatusOf, TaskFits, TypeOK, RequestTypes
  <2> QED
    BY <2>1, <2>2, QuietTurn
<1>17. ASSUME NEW r \in Requests, RecordUsage(r) PROVE Turns'
  <2>1. /\ UNCHANGED <<owner, messages, question, chat>>
        /\ \A q \in Requests \ {r} : pc'[q] = pc[q] /\ task'[q] = task[q] /\ event'[q] = event[q]
    BY <1>17 DEF RecordUsage, TypeOK, RequestTypes
  <2>2. Sequenced(r)' /\ (Kept(r) => Truthful(r)')
    BY <1>0, <1>17, <2>1 DEF RecordUsage, Sequenced, Truthful, Kept, Writing, Ending, Over, Begun, Subroutine,
       Closing, StatusOf, TaskFits, TypeOK, RequestTypes
  <2> QED
    BY <2>1, <2>2, QuietTurn
<1>18. ASSUME NEW r \in Requests, EndTurnFails(r) PROVE Turns'
  <2>1. /\ UNCHANGED <<owner, messages, question, chat>>
        /\ \A q \in Requests \ {r} : pc'[q] = pc[q] /\ task'[q] = task[q] /\ event'[q] = event[q]
    BY <1>18 DEF EndTurnFails, TypeOK, RequestTypes
  <2>2. Sequenced(r)' /\ (Kept(r) => Truthful(r)')
    BY <1>0, <1>18, <2>1 DEF EndTurnFails, Sequenced, Truthful, Kept, Writing, Ending, Over, Begun, Subroutine,
       Closing, StatusOf, TaskFits, TypeOK, RequestTypes
  <2> QED
    BY <2>1, <2>2, QuietTurn
<1>19. ASSUME NEW r \in Requests, InvalidateOwn(r) PROVE Turns'
  <2>1. /\ UNCHANGED <<owner, messages, question, chat>>
        /\ \A q \in Requests \ {r} : pc'[q] = pc[q] /\ task'[q] = task[q] /\ event'[q] = event[q]
    BY <1>19 DEF InvalidateOwn, TypeOK, RequestTypes
  <2>2. Sequenced(r)' /\ (Kept(r) => Truthful(r)')
    BY <1>0, <1>19, <2>1 DEF InvalidateOwn, Sequenced, Truthful, Kept, Writing, Ending, Over, Begun, Subroutine,
       Closing, StatusOf, TaskFits, TypeOK, RequestTypes
  <2> QED
    BY <2>1, <2>2, QuietTurn
<1>20. ASSUME NEW r \in Requests, ReleaseChat(r) PROVE Turns'
  <2>1. /\ UNCHANGED <<owner, messages, question, chat>>
        /\ \A q \in Requests \ {r} : pc'[q] = pc[q] /\ task'[q] = task[q] /\ event'[q] = event[q]
    BY <1>20 DEF ReleaseChat, TypeOK, RequestTypes
  <2>2. Sequenced(r)' /\ (Kept(r) => Truthful(r)')
    BY <1>0, <1>20, <2>1 DEF ReleaseChat, Sequenced, Truthful, Kept, Writing, Ending, Over, Begun, Subroutine,
       Closing, StatusOf, TaskFits, TypeOK, RequestTypes
  <2> QED
    BY <2>1, <2>2, QuietTurn
<1>21. ASSUME NEW r \in Requests, ReleaseSlot(r) PROVE Turns'
  <2>1. /\ UNCHANGED <<owner, messages, question, chat>>
        /\ \A q \in Requests \ {r} : pc'[q] = pc[q] /\ task'[q] = task[q] /\ event'[q] = event[q]
    BY <1>21 DEF ReleaseSlot, TypeOK, RequestTypes, Forget
  <2>2. Sequenced(r)' /\ (Kept(r) => Truthful(r)')
    BY <1>0, <1>21, <2>1 DEF ReleaseSlot, Sequenced, Truthful, Kept, Writing, Ending, Over, Begun, Subroutine,
       Closing, StatusOf, TaskFits, TypeOK, RequestTypes, Forget
  <2> QED
    BY <2>1, <2>2, QuietTurn
<1>22. ASSUME NEW r \in Requests, Refuse(r) PROVE Turns'
  <2>1. /\ UNCHANGED <<owner, messages, question, chat>>
        /\ \A q \in Requests \ {r} : pc'[q] = pc[q] /\ task'[q] = task[q] /\ event'[q] = event[q]
    BY <1>22 DEF Refuse, TypeOK, RequestTypes
  <2>2. Sequenced(r)' /\ (Kept(r) => Truthful(r)')
    BY <1>0, <1>22, <2>1 DEF Refuse, Sequenced, Truthful, Kept, Writing, Ending, Over, Begun, Subroutine,
       Closing, StatusOf, TaskFits, TypeOK, RequestTypes
  <2> QED
    BY <2>1, <2>2, QuietTurn
<1>23. ASSUME NEW r \in Requests, Begin(r) PROVE Turns'
  <2>1. /\ \A q \in Requests \ {r} : Kept(q)
        /\ Begun(r)' /\ Status(r)' = "STREAMING" /\ OwnRows'
    BY <1>23, KeptByBegin DEF Turns
  <2>2. /\ \A q \in Requests \ {r} : pc'[q] = pc[q] /\ task'[q] = task[q] /\ event'[q] = event[q]
        /\ pc'[r] = "appendLock" /\ event'[r] = "none"
    BY <1>0, <1>23 DEF Begin, TypeOK, RequestTypes, Sequenced, Over
  <2>3. Sequenced(r)' /\ Truthful(r)'
    BY <2>1, <2>2 DEF Sequenced, Truthful, Writing, Ending, Over, Subroutine
  <2> QED
    BY <2>1, <2>2, <2>3, LoudTurn
<1>24. ASSUME NEW r \in Requests, Complete(r) PROVE Turns'
  <2>1. Begun(r)
    BY <1>0, <1>24 DEF Complete, Sequenced, Writing
  <2>2. /\ \A q \in Requests \ {r} : Kept(q)
        /\ Begun(r)' /\ Status(r)' = "COMPLETED" /\ OwnRows'
    BY <1>24, <2>1, KeptByReply DEF Complete, Turns
  <2>3. /\ \A q \in Requests \ {r} : pc'[q] = pc[q] /\ task'[q] = task[q] /\ event'[q] = event[q]
        /\ pc'[r] = "usage" /\ event'[r] = "none"
    BY <1>0, <1>24 DEF Complete, TypeOK, RequestTypes, Sequenced, Over
  <2>4. Sequenced(r)' /\ Truthful(r)'
    BY <2>2, <2>3 DEF Sequenced, Truthful, Writing, Ending, Over, Subroutine
  <2> QED
    BY <2>2, <2>3, <2>4, LoudTurn
<1>25. ASSUME NEW r \in Requests, EndTurn(r) PROVE Turns'
  <2>1. Begun(r)
    BY <1>0, <1>25 DEF EndTurn, Sequenced, Writing
  <2>2. /\ \A q \in Requests \ {r} : Kept(q)
        /\ Begun(r)' /\ Status(r)' = StatusOf[Verdict(r)] /\ OwnRows'
    BY <1>25, <2>1, KeptByReply DEF EndTurn, Turns, StatusOf, Verdict
  <2>3. /\ \A q \in Requests \ {r} : pc'[q] = pc[q] /\ task'[q] = task[q] /\ event'[q] = event[q]
        /\ pc'[r] = "dbLoad" /\ event'[r] = "none" /\ task'[r] = Verdict(r)
    BY <1>0, <1>25 DEF EndTurn, TypeOK, RequestTypes, Sequenced, Over
  <2>4. Verdict(r) \in {"cancelled", "error"}
    BY DEF Verdict
  <2>5. Sequenced(r)' /\ Truthful(r)'
    BY <2>2, <2>3, <2>4 DEF Sequenced, Truthful, Writing, Ending, Over, Subroutine, Closing
  <2> QED
    BY <2>2, <2>3, <2>5, LoudTurn
<1>26. ASSUME NEW r \in Requests, NEW c \in Chats, NEW p \in Principals, Start(r, c, p)
       PROVE  Turns'
  <2>1. ~Begun(r) /\ event[r] = "none"
    BY <1>0, <1>26 DEF Start, Sequenced, Over
  <2>2. (\A q \in Requests \ {r} : Kept(q)) /\ ~Begun(r)' /\ OwnRows'
    BY <1>26, <2>1, KeptByStart DEF Turns
  <2>3. /\ \A q \in Requests \ {r} : pc'[q] = pc[q] /\ task'[q] = task[q] /\ event'[q] = event[q]
        /\ pc'[r] = "slots" /\ event'[r] = "none"
    BY <1>26, <2>1 DEF Start, TypeOK, RequestTypes
  <2>4. Sequenced(r)' /\ Truthful(r)'
    BY <2>2, <2>3 DEF Sequenced, Truthful, Writing, Ending, Over, Subroutine
  <2> QED
    BY <2>2, <2>3, <2>4, LoudTurn
<1>27. CASE \/ \E r \in Requests : Abort(r)
            \/ \E c \in Chats : \/ ExpireChatLock(c) \/ ExpireHistoryLock(c) \/ ExpireCache(c)
                                \/ Invalidate(c)
            \/ \E k \in SlotKeys : ExpireSlotLock(k)
            \/ UNCHANGED vars
  <2>1. UNCHANGED <<owner, messages, question, chat, pc, task, event>>
    BY <1>27 DEF Abort, ExpireChatLock, ExpireHistoryLock, ExpireCache, Invalidate, ExpireSlotLock,
       vars
  <2>2. (\A q \in Requests : Kept(q)) /\ OwnRows'
    BY <2>1, KeptByQuietStep DEF Turns
  <2>3. \A q \in Requests : (Sequenced(q) /\ Truthful(q))'
    BY <1>0, <2>1, <2>2, Bystander
  <2> QED
    BY <2>2, <2>3 DEF Turns
<1>28. CASE \/ \E c \in Chats : DeleteChat(c)
            \/ \E p \in Anonymous, u \in Users : TransferChats(p, u)
  <2>1. UNCHANGED <<pc, task, event>>
    BY <1>28 DEF DeleteChat, TransferChats
  <2>2. (\A q \in Requests : Kept(q)) /\ OwnRows'
    BY <1>28, KeptByOwnerStep DEF Turns
  <2>3. \A q \in Requests : (Sequenced(q) /\ Truthful(q))'
    BY <1>0, <2>1, <2>2, Bystander
  <2> QED
    BY <2>2, <2>3 DEF Turns
<1>29. CASE Crash
  <2>1. /\ UNCHANGED <<owner, messages, question, chat, event>>
        /\ \A q \in Requests : \/ pc'[q] = pc[q] /\ task'[q] = task[q]
                               \/ pc'[q] = "dead" /\ task'[q] = "history"
    BY <1>29 DEF Crash, Forget, TypeOK, RequestTypes
  <2>2. (\A q \in Requests : Kept(q)) /\ OwnRows'
    BY <2>1, KeptByQuietStep DEF Turns
  <2>3. ASSUME NEW q \in Requests PROVE (Sequenced(q) /\ Truthful(q))'
    <3>1. CASE pc'[q] = pc[q] /\ task'[q] = task[q]
      BY <1>0, <2>1, <2>2, <3>1, Bystander
    <3>2. CASE pc'[q] = "dead" /\ task'[q] = "history"
      BY <1>0, <2>1, <2>2, <3>2 DEF Sequenced, Truthful, Kept, Writing, Ending, Over, Begun, Subroutine
    <3> QED
      BY <2>1, <3>1, <3>2
  <2> QED
    BY <2>2, <2>3 DEF Turns
<1> HIDE DEF Goto, database, place, turn
<1>30. CASE Environment
  BY <1>22, <1>26, <1>27, <1>28, <1>29, <1>30 DEF Environment
<1>31. ASSUME NEW r \in Requests, Step(r) PROVE Turns'
  BY <1>1, <1>2, <1>3, <1>4, <1>5, <1>6, <1>7, <1>8, <1>9, <1>10, <1>11, <1>12, <1>13, <1>14, <1>15,
     <1>16, <1>17, <1>18, <1>19, <1>20, <1>21, <1>23, <1>24, <1>25, <1>31 DEF Step
<1> QED
  BY <1>27, <1>30, <1>31 DEF Next

\* Rows, places and events of every request agree, whatever fails.
THEOREM TurnsHold == Spec => []Turns
<1>1. Init => Turns
  BY DEF Init, InitAfter, Turns, OwnRows, Placed, Apart, Sequenced, Truthful, Begun, Writing, Ending,
     Over, Subroutine
<1> QED
  BY <1>1, TurnsInductive, TypeCorrect, PTL DEF Spec

\* Whatever fails, crashes or lapses, a client that was told "completed" or
\* "cancelled" was told what PostgreSQL holds.
THEOREM ClosingWasWritten == Spec => []ClosingIsDurable
<1>1. Turns => ClosingIsDurable
  BY DEF Turns, Truthful, ClosingIsDurable, Status
<1> QED
  BY <1>1, TurnsHold, PTL

-----------------------------------------------------------------------------
(* While PostgreSQL answers, every closing event is true, and so is the    *)
(* bill.                                                                   *)

\* A row is STREAMING until it is ended, and a client told of an error has a FAILED one.
Faithful(q) ==
  (Begun(q) /\ Exists(chat[q])) =>
    /\ Writing(q) => Status(q) = "STREAMING"
    /\ event[q] = "error" => Status(q) = "FAILED"

\* The request has completed its reply, and its bill is written or refused.
Settled(q) ==
  event[q] = "completed" \/ (pc[q] \in {"dbLoad", "cachePut"} /\ task[q] = "completed")

Billed(q) ==
  /\ q \in usage => Settled(q) \/ (event[q] = "none" /\ pc[q] = "dead")
  /\ (Begun(q) /\ Settled(q) /\ owner[chat[q]] = principal[q]) => q \in usage

\* A chat that its requester has lost, to an account or by deletion, stays lost.
Lost(q) == owner[chat[q]] = None \/ (principal[q] \in Anonymous /\ owner[chat[q]] \in Users)
Owned(q) ==
  chat[q] \in Chats => principal[q] \in Principals /\ (owner[chat[q]] = principal[q] \/ Lost(q))

Told == \A q \in Requests : Faithful(q) /\ Billed(q) /\ Owned(q)

\* A step that does not give the chat of q back to its requester.
NotRegained(q) ==
  /\ Owned(q)'
  /\ principal'[q] = principal[q]
  /\ chat[q] \in Chats /\ owner'[chat[q]] = principal[q] => owner[chat[q]] = principal[q]

\* As long as no chat changes hands, nobody regains one.
LEMMA OwnersAlone ==
  ASSUME UNCHANGED <<owner, chat, principal>>, NEW q \in Requests, Owned(q)
  PROVE  NotRegained(q)
BY DEF NotRegained, Owned, Lost

\* A step of another request changes neither what q is told nor its bill.
LEMMA BystanderIsTold ==
  ASSUME Turns, NEW q \in Requests, Faithful(q), Billed(q), Kept(q), NotRegained(q),
         q \in usage' <=> q \in usage,
         pc'[q] = pc[q], task'[q] = task[q], event'[q] = event[q]
  PROVE  (Faithful(q) /\ Billed(q) /\ Owned(q))'
<1>1. Begun(q) => chat[q] \in Chats
  BY DEF Turns, OwnRows, Placed
<1> QED
  BY <1>1 DEF Faithful, Billed, Kept, Writing, Settled, Begun, NotRegained

\* The steps of r that change no owner.
LEMMA TurnIsTold ==
  ASSUME Turns, Told, NEW r \in Requests, UNCHANGED <<owner, chat, principal>>,
         \A q \in Requests \ {r} : Kept(q),
         \A q \in Requests \ {r} : pc'[q] = pc[q] /\ task'[q] = task[q] /\ event'[q] = event[q],
         usage' \in {usage, usage \cup {r}},
         Faithful(r)', Billed(r)'
  PROVE  Told'
<1>1. \A q \in Requests : NotRegained(q)
  BY OwnersAlone DEF Told
<1>2. \A q \in Requests \ {r} : (Faithful(q) /\ Billed(q) /\ Owned(q))'
  BY <1>1, BystanderIsTold DEF Told
<1> QED
  BY <1>1, <1>2 DEF Told, NotRegained

\* Every step of Next keeps the events and the bills true.
LEMMA ToldInductive ==
  ASSUME "db" \notin Faults, TypeOK, Turns, Told, [Next]_vars
  PROVE  Told'
<1> USE DEF Goto, database, place, turn
<1>0. \A r \in Requests : /\ Sequenced(r) /\ Truthful(r) /\ TaskFits(r)
                          /\ Faithful(r) /\ Billed(r) /\ Owned(r)
  BY DEF Turns, Told, TypeOK
<1>1. ASSUME NEW r \in Requests, AcquireSlot(r) PROVE Told'
  <2>1. /\ UNCHANGED <<owner, messages, question, chat, principal>>
        /\ usage' \in {usage, usage \cup {r}}
        /\ \A q \in Requests \ {r} : pc'[q] = pc[q] /\ task'[q] = task[q] /\ event'[q] = event[q]
    BY <1>1 DEF AcquireSlot, TypeOK, RequestTypes
  <2>2. \A q \in Requests : Kept(q)
    BY <2>1, KeptByQuietStep
  <2>3. Faithful(r)' /\ Billed(r)'
    BY <1>0, <1>1, <2>1, <2>2 DEF AcquireSlot, Sequenced, Truthful, Kept, Writing, Ending, Over, Begun, Subroutine,
       Closing, StatusOf, TaskFits, TypeOK, RequestTypes, Faithful, Billed, Settled, Fault, Exists
  <2> QED
    BY <2>1, <2>2, <2>3, TurnIsTold
<1>2. ASSUME NEW r \in Requests, AcquireSlotThrows(r) PROVE Told'
  <2>1. /\ UNCHANGED <<owner, messages, question, chat, principal>>
        /\ usage' \in {usage, usage \cup {r}}
        /\ \A q \in Requests \ {r} : pc'[q] = pc[q] /\ task'[q] = task[q] /\ event'[q] = event[q]
    BY <1>2 DEF AcquireSlotThrows, TypeOK, RequestTypes
  <2>2. \A q \in Requests : Kept(q)
    BY <2>1, KeptByQuietStep
  <2>3. Faithful(r)' /\ Billed(r)'
    BY <1>0, <1>2, <2>1, <2>2 DEF AcquireSlotThrows, Sequenced, Truthful, Kept, Writing, Ending, Over, Begun, Subroutine,
       Closing, StatusOf, TaskFits, TypeOK, RequestTypes, Faithful, Billed, Settled, Fault, Exists
  <2> QED
    BY <2>1, <2>2, <2>3, TurnIsTold
<1>3. ASSUME NEW r \in Requests, AcquireChat(r) PROVE Told'
  <2>1. /\ UNCHANGED <<owner, messages, question, chat, principal>>
        /\ usage' \in {usage, usage \cup {r}}
        /\ \A q \in Requests \ {r} : pc'[q] = pc[q] /\ task'[q] = task[q] /\ event'[q] = event[q]
    BY <1>3 DEF AcquireChat, TypeOK, RequestTypes
  <2>2. \A q \in Requests : Kept(q)
    BY <2>1, KeptByQuietStep
  <2>3. Faithful(r)' /\ Billed(r)'
    BY <1>0, <1>3, <2>1, <2>2 DEF AcquireChat, Sequenced, Truthful, Kept, Writing, Ending, Over, Begun, Subroutine,
       Closing, StatusOf, TaskFits, TypeOK, RequestTypes, Faithful, Billed, Settled, Fault, Exists
  <2> QED
    BY <2>1, <2>2, <2>3, TurnIsTold
<1>4. ASSUME NEW r \in Requests, AcquireChatThrows(r) PROVE Told'
  <2>1. /\ UNCHANGED <<owner, messages, question, chat, principal>>
        /\ usage' \in {usage, usage \cup {r}}
        /\ \A q \in Requests \ {r} : pc'[q] = pc[q] /\ task'[q] = task[q] /\ event'[q] = event[q]
    BY <1>4 DEF AcquireChatThrows, TypeOK, RequestTypes
  <2>2. \A q \in Requests : Kept(q)
    BY <2>1, KeptByQuietStep
  <2>3. Faithful(r)' /\ Billed(r)'
    BY <1>0, <1>4, <2>1, <2>2 DEF AcquireChatThrows, Sequenced, Truthful, Kept, Writing, Ending, Over, Begun, Subroutine,
       Closing, StatusOf, TaskFits, TypeOK, RequestTypes, Faithful, Billed, Settled, Fault, Exists
  <2> QED
    BY <2>1, <2>2, <2>3, TurnIsTold
<1>5. ASSUME NEW r \in Requests, RejectBusyChat(r) PROVE Told'
  <2>1. /\ UNCHANGED <<owner, messages, question, chat, principal>>
        /\ usage' \in {usage, usage \cup {r}}
        /\ \A q \in Requests \ {r} : pc'[q] = pc[q] /\ task'[q] = task[q] /\ event'[q] = event[q]
    BY <1>5 DEF RejectBusyChat, TypeOK, RequestTypes
  <2>2. \A q \in Requests : Kept(q)
    BY <2>1, KeptByQuietStep
  <2>3. Faithful(r)' /\ Billed(r)'
    BY <1>0, <1>5, <2>1, <2>2 DEF RejectBusyChat, Sequenced, Truthful, Kept, Writing, Ending, Over, Begun, Subroutine,
       Closing, StatusOf, TaskFits, TypeOK, RequestTypes, Faithful, Billed, Settled, Fault, Exists
  <2> QED
    BY <2>1, <2>2, <2>3, TurnIsTold
<1>6. ASSUME NEW r \in Requests, CacheGet(r) PROVE Told'
  <2>1. /\ UNCHANGED <<owner, messages, question, chat, principal>>
        /\ usage' \in {usage, usage \cup {r}}
        /\ \A q \in Requests \ {r} : pc'[q] = pc[q] /\ task'[q] = task[q] /\ event'[q] = event[q]
    BY <1>6 DEF CacheGet, TypeOK, RequestTypes
  <2>2. \A q \in Requests : Kept(q)
    BY <2>1, KeptByQuietStep
  <2>3. Faithful(r)' /\ Billed(r)'
    BY <1>0, <1>6, <2>1, <2>2 DEF CacheGet, Sequenced, Truthful, Kept, Writing, Ending, Over, Begun, Subroutine,
       Closing, StatusOf, TaskFits, TypeOK, RequestTypes, Faithful, Billed, Settled, Fault, Exists, AfterHistory
  <2> QED
    BY <2>1, <2>2, <2>3, TurnIsTold
<1>7. ASSUME NEW r \in Requests, DbLoad(r) PROVE Told'
  <2>1. /\ UNCHANGED <<owner, messages, question, chat, principal>>
        /\ usage' \in {usage, usage \cup {r}}
        /\ \A q \in Requests \ {r} : pc'[q] = pc[q] /\ task'[q] = task[q] /\ event'[q] = event[q]
    BY <1>7 DEF DbLoad, TypeOK, RequestTypes
  <2>2. \A q \in Requests : Kept(q)
    BY <2>1, KeptByQuietStep
  <2>3. Faithful(r)' /\ Billed(r)'
    BY <1>0, <1>7, <2>1, <2>2 DEF DbLoad, Sequenced, Truthful, Kept, Writing, Ending, Over, Begun, Subroutine,
       Closing, StatusOf, TaskFits, TypeOK, RequestTypes, Faithful, Billed, Settled, Fault, Exists
  <2> QED
    BY <2>1, <2>2, <2>3, TurnIsTold
<1>8. ASSUME NEW r \in Requests, CachePut(r) PROVE Told'
  <2>1. /\ UNCHANGED <<owner, messages, question, chat, principal>>
        /\ usage' \in {usage, usage \cup {r}}
        /\ \A q \in Requests \ {r} : pc'[q] = pc[q] /\ task'[q] = task[q] /\ event'[q] = event[q]
    BY <1>8 DEF CachePut, TypeOK, RequestTypes
  <2>2. \A q \in Requests : Kept(q)
    BY <2>1, KeptByQuietStep
  <2>3. Faithful(r)' /\ Billed(r)'
    BY <1>0, <1>8, <2>1, <2>2 DEF CachePut, Sequenced, Truthful, Kept, Writing, Ending, Over, Begun, Subroutine,
       Closing, StatusOf, TaskFits, TypeOK, RequestTypes, Faithful, Billed, Settled, Fault, Exists, AfterHistory
  <2> QED
    BY <2>1, <2>2, <2>3, TurnIsTold
<1>9. ASSUME NEW r \in Requests, BeginFails(r) PROVE Told'
  <2>1. /\ UNCHANGED <<owner, messages, question, chat, principal>>
        /\ usage' \in {usage, usage \cup {r}}
        /\ \A q \in Requests \ {r} : pc'[q] = pc[q] /\ task'[q] = task[q] /\ event'[q] = event[q]
    BY <1>9 DEF BeginFails, TypeOK, RequestTypes
  <2>2. \A q \in Requests : Kept(q)
    BY <2>1, KeptByQuietStep
  <2>3. Faithful(r)' /\ Billed(r)'
    BY <1>0, <1>9, <2>1, <2>2 DEF BeginFails, Sequenced, Truthful, Kept, Writing, Ending, Over, Begun, Subroutine,
       Closing, StatusOf, TaskFits, TypeOK, RequestTypes, Faithful, Billed, Settled, Fault, Exists
  <2> QED
    BY <2>1, <2>2, <2>3, TurnIsTold
<1>10. ASSUME NEW r \in Requests, AppendLock(r) PROVE Told'
  <2>1. /\ UNCHANGED <<owner, messages, question, chat, principal>>
        /\ usage' \in {usage, usage \cup {r}}
        /\ \A q \in Requests \ {r} : pc'[q] = pc[q] /\ task'[q] = task[q] /\ event'[q] = event[q]
    BY <1>10 DEF AppendLock, TypeOK, RequestTypes
  <2>2. \A q \in Requests : Kept(q)
    BY <2>1, KeptByQuietStep
  <2>3. Faithful(r)' /\ Billed(r)'
    BY <1>0, <1>10, <2>1, <2>2 DEF AppendLock, Sequenced, Truthful, Kept, Writing, Ending, Over, Begun, Subroutine,
       Closing, StatusOf, TaskFits, TypeOK, RequestTypes, Faithful, Billed, Settled, Fault, Exists
  <2> QED
    BY <2>1, <2>2, <2>3, TurnIsTold
<1>11. ASSUME NEW r \in Requests, AppendPut(r) PROVE Told'
  <2>1. /\ UNCHANGED <<owner, messages, question, chat, principal>>
        /\ usage' \in {usage, usage \cup {r}}
        /\ \A q \in Requests \ {r} : pc'[q] = pc[q] /\ task'[q] = task[q] /\ event'[q] = event[q]
    BY <1>11 DEF AppendPut, TypeOK, RequestTypes
  <2>2. \A q \in Requests : Kept(q)
    BY <2>1, KeptByQuietStep
  <2>3. Faithful(r)' /\ Billed(r)'
    BY <1>0, <1>11, <2>1, <2>2 DEF AppendPut, Sequenced, Truthful, Kept, Writing, Ending, Over, Begun, Subroutine,
       Closing, StatusOf, TaskFits, TypeOK, RequestTypes, Faithful, Billed, Settled, Fault, Exists
  <2> QED
    BY <2>1, <2>2, <2>3, TurnIsTold
<1>12. ASSUME NEW r \in Requests, AppendUnlock(r) PROVE Told'
  <2>1. /\ UNCHANGED <<owner, messages, question, chat, principal>>
        /\ usage' \in {usage, usage \cup {r}}
        /\ \A q \in Requests \ {r} : pc'[q] = pc[q] /\ task'[q] = task[q] /\ event'[q] = event[q]
    BY <1>12 DEF AppendUnlock, TypeOK, RequestTypes
  <2>2. \A q \in Requests : Kept(q)
    BY <2>1, KeptByQuietStep
  <2>3. Faithful(r)' /\ Billed(r)'
    BY <1>0, <1>12, <2>1, <2>2 DEF AppendUnlock, Sequenced, Truthful, Kept, Writing, Ending, Over, Begun, Subroutine,
       Closing, StatusOf, TaskFits, TypeOK, RequestTypes, Faithful, Billed, Settled, Fault, Exists
  <2> QED
    BY <2>1, <2>2, <2>3, TurnIsTold
<1>13. ASSUME NEW r \in Requests, BuildPrompt(r) PROVE Told'
  <2>1. /\ UNCHANGED <<owner, messages, question, chat, principal>>
        /\ usage' \in {usage, usage \cup {r}}
        /\ \A q \in Requests \ {r} : pc'[q] = pc[q] /\ task'[q] = task[q] /\ event'[q] = event[q]
    BY <1>13 DEF BuildPrompt, TypeOK, RequestTypes
  <2>2. \A q \in Requests : Kept(q)
    BY <2>1, KeptByQuietStep
  <2>3. Faithful(r)' /\ Billed(r)'
    BY <1>0, <1>13, <2>1, <2>2 DEF BuildPrompt, Sequenced, Truthful, Kept, Writing, Ending, Over, Begun, Subroutine,
       Closing, StatusOf, TaskFits, TypeOK, RequestTypes, Faithful, Billed, Settled, Fault, Exists
  <2> QED
    BY <2>1, <2>2, <2>3, TurnIsTold
<1>14. ASSUME NEW r \in Requests, StreamReply(r) PROVE Told'
  <2>1. /\ UNCHANGED <<owner, messages, question, chat, principal>>
        /\ usage' \in {usage, usage \cup {r}}
        /\ \A q \in Requests \ {r} : pc'[q] = pc[q] /\ task'[q] = task[q] /\ event'[q] = event[q]
    BY <1>14 DEF StreamReply, TypeOK, RequestTypes
  <2>2. \A q \in Requests : Kept(q)
    BY <2>1, KeptByQuietStep
  <2>3. Faithful(r)' /\ Billed(r)'
    BY <1>0, <1>14, <2>1, <2>2 DEF StreamReply, Sequenced, Truthful, Kept, Writing, Ending, Over, Begun, Subroutine,
       Closing, StatusOf, TaskFits, TypeOK, RequestTypes, Faithful, Billed, Settled, Fault, Exists
  <2> QED
    BY <2>1, <2>2, <2>3, TurnIsTold
<1>15. ASSUME NEW r \in Requests, CompleteFails(r) PROVE Told'
  <2>1. /\ UNCHANGED <<owner, messages, question, chat, principal>>
        /\ usage' \in {usage, usage \cup {r}}
        /\ \A q \in Requests \ {r} : pc'[q] = pc[q] /\ task'[q] = task[q] /\ event'[q] = event[q]
    BY <1>15 DEF CompleteFails, TypeOK, RequestTypes
  <2>2. \A q \in Requests : Kept(q)
    BY <2>1, KeptByQuietStep
  <2>3. Faithful(r)' /\ Billed(r)'
    BY <1>0, <1>15, <2>1, <2>2 DEF CompleteFails, Sequenced, Truthful, Kept, Writing, Ending, Over, Begun, Subroutine,
       Closing, StatusOf, TaskFits, TypeOK, RequestTypes, Faithful, Billed, Settled, Fault, Exists
  <2> QED
    BY <2>1, <2>2, <2>3, TurnIsTold
<1>16. ASSUME NEW r \in Requests, RecordUsage(r) PROVE Told'
  <2>1. /\ UNCHANGED <<owner, messages, question, chat, principal>>
        /\ usage' \in {usage, usage \cup {r}}
        /\ \A q \in Requests \ {r} : pc'[q] = pc[q] /\ task'[q] = task[q] /\ event'[q] = event[q]
    BY <1>16 DEF RecordUsage, TypeOK, RequestTypes
  <2>2. \A q \in Requests : Kept(q)
    BY <2>1, KeptByQuietStep
  <2>3. Faithful(r)' /\ Billed(r)'
    BY <1>0, <1>16, <2>1, <2>2 DEF RecordUsage, Sequenced, Truthful, Kept, Writing, Ending, Over, Begun, Subroutine,
       Closing, StatusOf, TaskFits, TypeOK, RequestTypes, Faithful, Billed, Settled, Fault, Exists
  <2> QED
    BY <2>1, <2>2, <2>3, TurnIsTold
<1>17. ASSUME NEW r \in Requests, EndTurnFails(r) PROVE Told'
  <2>1. /\ UNCHANGED <<owner, messages, question, chat, principal>>
        /\ usage' \in {usage, usage \cup {r}}
        /\ \A q \in Requests \ {r} : pc'[q] = pc[q] /\ task'[q] = task[q] /\ event'[q] = event[q]
    BY <1>17 DEF EndTurnFails, TypeOK, RequestTypes
  <2>2. \A q \in Requests : Kept(q)
    BY <2>1, KeptByQuietStep
  <2>3. Faithful(r)' /\ Billed(r)'
    BY <1>0, <1>17, <2>1, <2>2 DEF EndTurnFails, Sequenced, Truthful, Kept, Writing, Ending, Over, Begun, Subroutine,
       Closing, StatusOf, TaskFits, TypeOK, RequestTypes, Faithful, Billed, Settled, Fault, Exists
  <2> QED
    BY <2>1, <2>2, <2>3, TurnIsTold
<1>18. ASSUME NEW r \in Requests, InvalidateOwn(r) PROVE Told'
  <2>1. /\ UNCHANGED <<owner, messages, question, chat, principal>>
        /\ usage' \in {usage, usage \cup {r}}
        /\ \A q \in Requests \ {r} : pc'[q] = pc[q] /\ task'[q] = task[q] /\ event'[q] = event[q]
    BY <1>18 DEF InvalidateOwn, TypeOK, RequestTypes
  <2>2. \A q \in Requests : Kept(q)
    BY <2>1, KeptByQuietStep
  <2>3. Faithful(r)' /\ Billed(r)'
    BY <1>0, <1>18, <2>1, <2>2 DEF InvalidateOwn, Sequenced, Truthful, Kept, Writing, Ending, Over, Begun, Subroutine,
       Closing, StatusOf, TaskFits, TypeOK, RequestTypes, Faithful, Billed, Settled, Fault, Exists
  <2> QED
    BY <2>1, <2>2, <2>3, TurnIsTold
<1>19. ASSUME NEW r \in Requests, ReleaseChat(r) PROVE Told'
  <2>1. /\ UNCHANGED <<owner, messages, question, chat, principal>>
        /\ usage' \in {usage, usage \cup {r}}
        /\ \A q \in Requests \ {r} : pc'[q] = pc[q] /\ task'[q] = task[q] /\ event'[q] = event[q]
    BY <1>19 DEF ReleaseChat, TypeOK, RequestTypes
  <2>2. \A q \in Requests : Kept(q)
    BY <2>1, KeptByQuietStep
  <2>3. Faithful(r)' /\ Billed(r)'
    BY <1>0, <1>19, <2>1, <2>2 DEF ReleaseChat, Sequenced, Truthful, Kept, Writing, Ending, Over, Begun, Subroutine,
       Closing, StatusOf, TaskFits, TypeOK, RequestTypes, Faithful, Billed, Settled, Fault, Exists
  <2> QED
    BY <2>1, <2>2, <2>3, TurnIsTold
<1>20. ASSUME NEW r \in Requests, ReleaseSlot(r) PROVE Told'
  <2>1. /\ UNCHANGED <<owner, messages, question, chat, principal>>
        /\ usage' \in {usage, usage \cup {r}}
        /\ \A q \in Requests \ {r} : pc'[q] = pc[q] /\ task'[q] = task[q] /\ event'[q] = event[q]
    BY <1>20 DEF ReleaseSlot, TypeOK, RequestTypes, Forget
  <2>2. \A q \in Requests : Kept(q)
    BY <2>1, KeptByQuietStep
  <2>3. Faithful(r)' /\ Billed(r)'
    BY <1>0, <1>20, <2>1, <2>2 DEF ReleaseSlot, Sequenced, Truthful, Kept, Writing, Ending, Over, Begun, Subroutine,
       Closing, StatusOf, TaskFits, TypeOK, RequestTypes, Faithful, Billed, Settled, Fault, Exists, Forget
  <2> QED
    BY <2>1, <2>2, <2>3, TurnIsTold
<1>21. ASSUME NEW r \in Requests, Refuse(r) PROVE Told'
  <2>1. /\ UNCHANGED <<owner, messages, question, chat, principal>>
        /\ usage' \in {usage, usage \cup {r}}
        /\ \A q \in Requests \ {r} : pc'[q] = pc[q] /\ task'[q] = task[q] /\ event'[q] = event[q]
    BY <1>21 DEF Refuse, TypeOK, RequestTypes
  <2>2. \A q \in Requests : Kept(q)
    BY <2>1, KeptByQuietStep
  <2>3. Faithful(r)' /\ Billed(r)'
    BY <1>0, <1>21, <2>1, <2>2 DEF Refuse, Sequenced, Truthful, Kept, Writing, Ending, Over, Begun, Subroutine,
       Closing, StatusOf, TaskFits, TypeOK, RequestTypes, Faithful, Billed, Settled, Fault, Exists
  <2> QED
    BY <2>1, <2>2, <2>3, TurnIsTold
<1>22. ASSUME NEW r \in Requests, Begin(r) PROVE Told'
  <2>1. /\ UNCHANGED <<owner, chat, principal, usage>>
        /\ \A q \in Requests \ {r} : pc'[q] = pc[q] /\ task'[q] = task[q] /\ event'[q] = event[q]
        /\ pc[r] = "begin" /\ pc'[r] = "appendLock" /\ event[r] = "none" /\ event'[r] = "none"
    BY <1>0, <1>22 DEF Begin, TypeOK, RequestTypes, Sequenced, Over
  <2>2. (\A q \in Requests \ {r} : Kept(q)) /\ Status(r)' = "STREAMING"
    BY <1>22, KeptByBegin DEF Turns
  <2>3. Faithful(r)' /\ Billed(r)'
    BY <1>0, <2>1, <2>2 DEF Faithful, Billed, Settled
  <2> QED
    BY <2>1, <2>2, <2>3, TurnIsTold
<1>23. ASSUME NEW r \in Requests, Complete(r) PROVE Told'
  <2>1. /\ UNCHANGED <<owner, chat, principal, usage>>
        /\ \A q \in Requests \ {r} : pc'[q] = pc[q] /\ task'[q] = task[q] /\ event'[q] = event[q]
        /\ pc[r] = "complete" /\ pc'[r] = "usage" /\ event[r] = "none" /\ event'[r] = "none"
    BY <1>0, <1>23 DEF Complete, TypeOK, RequestTypes, Sequenced, Over
  <2>2. \A q \in Requests \ {r} : Kept(q)
    BY <1>0, <1>23, <2>1, KeptByReply DEF Complete, Turns, Sequenced, Writing
  <2>3. Faithful(r)' /\ Billed(r)'
    BY <1>0, <2>1 DEF Faithful, Billed, Settled, Writing, Subroutine
  <2> QED
    BY <2>1, <2>2, <2>3, TurnIsTold
<1>24. ASSUME NEW r \in Requests, EndTurn(r) PROVE Told'
  <2>1. /\ UNCHANGED <<owner, chat, principal, usage>>
        /\ \A q \in Requests \ {r} : pc'[q] = pc[q] /\ task'[q] = task[q] /\ event'[q] = event[q]
        /\ pc[r] = "end" /\ pc'[r] = "dbLoad" /\ event[r] = "none" /\ event'[r] = "none"
        /\ task'[r] \in {"cancelled", "error"}
    BY <1>0, <1>24 DEF EndTurn, TypeOK, RequestTypes, Sequenced, Over, Verdict
  <2>2. \A q \in Requests \ {r} : Kept(q)
    BY <1>0, <1>24, <2>1, KeptByReply DEF EndTurn, Turns, Sequenced, Writing
  <2>3. Faithful(r)' /\ Billed(r)'
    BY <1>0, <2>1 DEF Faithful, Billed, Settled, Writing, Subroutine
  <2> QED
    BY <2>1, <2>2, <2>3, TurnIsTold
<1>25. ASSUME NEW r \in Requests, NEW c \in Chats, NEW p \in Principals, Start(r, c, p)
       PROVE  Told'
  <2>1. ~Begun(r) /\ event[r] = "none" /\ r \notin usage
    BY <1>0, <1>25 DEF Start, Sequenced, Over, Billed, Settled
  <2>2. (\A q \in Requests \ {r} : Kept(q)) /\ ~Begun(r)'
    BY <1>25, <2>1, KeptByStart DEF Turns
  <2>3. /\ \A q \in Requests \ {r} : /\ pc'[q] = pc[q] /\ task'[q] = task[q] /\ event'[q] = event[q]
                                     /\ chat'[q] = chat[q] /\ principal'[q] = principal[q]
        /\ UNCHANGED <<owner, usage>>
        /\ owner[c] = p /\ chat'[r] = c /\ principal'[r] = p
    BY <1>25 DEF Start, TypeOK, RequestTypes
  <2>4. \A q \in Requests \ {r} : NotRegained(q)
    BY <1>0, <2>3 DEF NotRegained, Owned, Lost
  <2>5. \A q \in Requests \ {r} : (Faithful(q) /\ Billed(q) /\ Owned(q))'
    BY <1>0, <2>2, <2>3, <2>4, BystanderIsTold
  <2>6. (Faithful(r) /\ Billed(r) /\ Owned(r))'
    BY <2>1, <2>2, <2>3 DEF Faithful, Billed, Owned
  <2> QED
    BY <2>5, <2>6 DEF Told
<1>26. CASE \/ \E r \in Requests : Abort(r)
            \/ \E c \in Chats : \/ ExpireChatLock(c) \/ ExpireHistoryLock(c) \/ ExpireCache(c)
                                \/ Invalidate(c)
            \/ \E k \in SlotKeys : ExpireSlotLock(k)
            \/ UNCHANGED vars
  <2>1. UNCHANGED <<owner, messages, question, chat, principal, pc, task, event, usage>>
    BY <1>26 DEF Abort, ExpireChatLock, ExpireHistoryLock, ExpireCache, Invalidate, ExpireSlotLock,
       vars
  <2>2. \A q \in Requests : Kept(q) /\ NotRegained(q)
    BY <1>0, <2>1, KeptByQuietStep, OwnersAlone
  <2> QED
    BY <1>0, <2>1, <2>2, BystanderIsTold DEF Told
<1>27. CASE \/ \E c \in Chats : DeleteChat(c)
            \/ \E p \in Anonymous, u \in Users : TransferChats(p, u)
  <2>1. UNCHANGED <<pc, task, event, chat, principal, usage>>
    BY <1>27 DEF DeleteChat, TransferChats
  <2>2. \A q \in Requests : Kept(q)
    BY <1>27, KeptByOwnerStep DEF Turns
  <2>3. \A c \in Chats : \/ owner'[c] = owner[c]
                         \/ owner'[c] = None
                         \/ owner[c] \in Anonymous /\ owner'[c] \in Users
    BY <1>27 DEF DeleteChat, TransferChats, ChatsOf, TypeOK, DataTypes
  <2>4. ASSUME NEW q \in Requests PROVE NotRegained(q)
    <3> SUFFICES ASSUME chat[q] \in Chats
                 PROVE  /\ owner'[chat[q]] = principal[q] \/ Lost(q)'
                        /\ owner'[chat[q]] = principal[q] => owner[chat[q]] = principal[q]
      BY <1>0, <2>1 DEF NotRegained, Owned
    <3>1. principal[q] \in Principals /\ (owner[chat[q]] = principal[q] \/ Lost(q))
      BY <1>0 DEF Owned
    <3> QED
      BY <2>1, <2>3, <3>1, NoneAssumption, PrincipalsAssumption DEF Lost, Principals
  <2> QED
    BY <1>0, <2>1, <2>2, <2>4, BystanderIsTold DEF Told
<1>28. CASE Crash
  <2>1. /\ UNCHANGED <<owner, messages, question, chat, principal, event, usage>>
        /\ \A q \in Requests : \/ pc'[q] = pc[q] /\ task'[q] = task[q]
                               \/ pc'[q] = "dead" /\ task'[q] = "history"
    BY <1>28 DEF Crash, Forget, TypeOK, RequestTypes
  <2>2. \A q \in Requests : Kept(q) /\ NotRegained(q)
    BY <1>0, <2>1, KeptByQuietStep, OwnersAlone
  <2>3. ASSUME NEW q \in Requests PROVE (Faithful(q) /\ Billed(q) /\ Owned(q))'
    <3>1. CASE pc'[q] = pc[q] /\ task'[q] = task[q]
      BY <1>0, <2>1, <2>2, <3>1, BystanderIsTold
    <3>2. CASE pc'[q] = "dead" /\ task'[q] = "history"
      <4>1. Faithful(q)'
        BY <1>0, <2>1, <2>2, <3>2 DEF Faithful, Kept, Writing, Begun, Subroutine
      <4>2. Billed(q)'
        BY <1>0, <2>1, <3>2 DEF Billed, Settled, Begun, Sequenced, Over
      <4> QED
        BY <2>2, <4>1, <4>2 DEF NotRegained
    <3> QED
      BY <2>1, <3>1, <3>2
  <2> QED
    BY <2>3 DEF Told
<1>29. \A r \in Requests : ~DbLoadFails(r)
  BY DEF DbLoadFails, Fault
<1> HIDE DEF Goto, database, place, turn
<1>30. CASE Environment
  BY <1>21, <1>25, <1>26, <1>27, <1>28, <1>30 DEF Environment
<1>31. ASSUME NEW r \in Requests, Step(r) PROVE Told'
  BY <1>1, <1>2, <1>3, <1>4, <1>5, <1>6, <1>7, <1>8, <1>9, <1>10, <1>11, <1>12, <1>13, <1>14, <1>15,
     <1>16, <1>17, <1>18, <1>19, <1>20, <1>22, <1>23, <1>24, <1>29, <1>31 DEF Step
<1> QED
  BY <1>26, <1>30, <1>31 DEF Next

\* While PostgreSQL answers, events and bills agree with the rows.
THEOREM TruthHolds ==
  ASSUME "db" \notin Faults
  PROVE  Spec => []Told
<1>1. Init => Told
  BY NoneAssumption DEF Init, InitAfter, Told, Faithful, Billed, Owned, Begun, Settled
<1>2. TypeOK /\ Turns /\ Told /\ [Next]_vars => Told'
  BY ToldInductive
<1> QED
  BY <1>1, <1>2, TypeCorrect, TurnsHold, PTL DEF Spec

\* While PostgreSQL answers, what the client was told is what the row says, and a
\* turn is billed exactly when its reply was completed, unless the chat changed
\* hands under it - whatever else fails, crashes or lapses.
THEOREM TruthIsTold ==
  ASSUME "db" \notin Faults
  PROVE  Spec => []ClientToldTheTruth
<1>1. Turns /\ Told => ClientToldTheTruth
  <2> SUFFICES ASSUME Turns, Told, NEW r \in Requests, event[r] \in Closing, Begun(r),
                      Exists(chat[r])
               PROVE  /\ Status(r) = StatusOf[event[r]]
                      /\ r \in usage => event[r] = "completed"
                      /\ event[r] = "completed" /\ owner[chat[r]] = principal[r] => r \in usage
    BY DEF ClientToldTheTruth, Status
  <2>1. Status(r) = StatusOf[event[r]]
    BY DEF Turns, Truthful, Told, Faithful, Closing, StatusOf
  <2>2. pc[r] \notin {"dbLoad", "cachePut"}
    BY DEF Turns, Sequenced, Over, Closing
  <2>3. /\ r \in usage => event[r] = "completed"
        /\ event[r] = "completed" /\ owner[chat[r]] = principal[r] => r \in usage
    BY <2>2 DEF Told, Billed, Settled, Closing
  <2> QED
    BY <2>1, <2>3
<1> QED
  BY <1>1, TurnsHold, TruthHolds, PTL

-----------------------------------------------------------------------------
(* Without faults, the cache is PostgreSQL's history, and so is the prompt. *)

\* An unanswered turn adds nothing to the history.
LEMMA HistoryOfOpenTurn ==
  ASSUME NEW m \in Seq(Message), NEW n, n = m \o <<Prompt, Placeholder>>
  PROVE  HistoryOf(n) = HistoryOf(m) /\ SubSeq(n, 1, Len(m)) = m
<1>1. /\ n \in Seq(Message) /\ Len(n) = Len(m) + 2 /\ Len(m) \in Nat
      /\ \A i \in 1 .. Len(m) : n[i] = m[i]
      /\ n[Len(m) + 1] = Prompt /\ n[Len(m) + 2] = Placeholder
  BY DEF Prompt, Placeholder, Message, Statuses
<1>2. ASSUME NEW i \in 1 .. Len(m) PROVE IsPartOfCompletedTurn(n, i) <=> IsPartOfCompletedTurn(m, i)
  <2>1. CASE i < Len(m)
    <3>1. i + 1 \in 1 .. Len(m) /\ n[i] = m[i]
      BY <1>1, <2>1
    <3>2. n[i + 1] = m[i + 1]
      BY <1>1, <3>1
    <3> QED
      BY <1>1, <2>1, <3>1, <3>2 DEF IsPartOfCompletedTurn
  <2>2. CASE i = Len(m)
    BY <1>1, <2>2 DEF IsPartOfCompletedTurn, Prompt
  <2> QED
    BY <1>1, <2>1, <2>2
<1>3. ~IsPartOfCompletedTurn(n, Len(m) + 1) /\ ~IsPartOfCompletedTurn(n, Len(m) + 2)
  BY <1>1 DEF IsPartOfCompletedTurn, Prompt, Placeholder
<1>4. DOMAIN n = 1 .. Len(m) + 2 /\ DOMAIN m = 1 .. Len(m)
  BY <1>1
<1>5. HistoryOf(n) = HistoryOf(m)
  <2>1. ASSUME NEW i \in DOMAIN n, i \notin 1 .. Len(m) PROVE i = Len(m) + 1 \/ i = Len(m) + 2
    BY <1>1, <1>4, <2>1
  <2> QED
    <3>1. ASSUME NEW i \in DOMAIN n
          PROVE  IsPartOfCompletedTurn(n, i) <=> i \in DOMAIN m /\ IsPartOfCompletedTurn(m, i)
      <4>1. CASE i \in 1 .. Len(m)
        BY <1>2, <1>4, <4>1
      <4>2. CASE i \notin 1 .. Len(m)
        BY <1>3, <1>4, <2>1, <4>2
      <4> QED
        BY <4>1, <4>2
    <3>2. DOMAIN m \subseteq DOMAIN n
      BY <1>1, <1>4
    <3> QED
      BY <3>1, <3>2 DEF HistoryOf
<1>6. SubSeq(n, 1, Len(m)) = m
  <2>1. /\ SubSeq(n, 1, Len(m)) \in Seq(Message) /\ Len(SubSeq(n, 1, Len(m))) = Len(m)
        /\ \A i \in 1 .. Len(m) : SubSeq(n, 1, Len(m))[i] = n[i]
    BY <1>1, SubSeqProperties
  <2> QED
    BY <1>1, <2>1, SeqEqual
<1> QED
  BY <1>5, <1>6

\* What PostgreSQL would give, and what it would have given before the turn of q.
Current(c) == HistoryOf(messages[c])
Base(q) == HistoryOf(SubSeq(messages[chat[q]], 1, question[q] - 1))

Cached(c) == cache[c] \in {None, Current(c)}

\* The turn of q has not begun to change its chat, or it has ended.
AtPeace(q) ==
  \/ pc[q] \in Subroutine /\ task[q] = "history"
  \/ pc[q] \in {"begin", "releaseChat"}

\* What a request knows of its chat's history, and what it may leave in the cache.
Fresh(q) ==
  (pc[q] \in Generating /\ Exists(chat[q])) =>
    /\ AtPeace(q) => Cached(chat[q])
    /\ pc[q] \in {"begin", "cachePut"} => buffer[q] = Current(chat[q])
    /\ Writing(q) => /\ history[q] = Current(chat[q]) /\ history[q] = Base(q)
                     /\ cache[chat[q]] \in {None, history[q], history[q] \cup {question[q]}}
    /\ pc[q] = "appendPut" => buffer[q] \in {history[q], history[q] \cup {question[q]}}

Rested(c) == (Exists(c) /\ InGeneration(c) = {}) => Cached(c)

Histories == (\A q \in Requests : Fresh(q)) /\ (\A c \in Chats : Rested(c))

\* A step of the request that generates in c leaves all other chats as they were.
LEMMA OnlyItsChat ==
  ASSUME TypeOK, Held, Histories, NEW r \in Requests, pc[r] \in Generating, pc'[r] \in Generating,
         UNCHANGED <<owner, place>>,
         \A c \in Chats \ {chat[r]} : messages'[c] = messages[c] /\ cache'[c] = cache[c],
         \A q \in Requests \ {r} : /\ pc'[q] = pc[q] /\ task'[q] = task[q] /\ buffer'[q] = buffer[q]
                                   /\ history'[q] = history[q] /\ question'[q] = question[q],
         Fresh(r)'
  PROVE  Histories'
<1>1. chat' = chat /\ owner' = owner
  BY DEF place
<1>2. ASSUME NEW q \in Requests \ {r} PROVE Fresh(q)'
  <2>1. SUFFICES ASSUME pc[q] \in Generating PROVE Fresh(q)'
    BY DEF Fresh
  <2>2. chat[q] \in Chats \ {chat[r]}
    BY <2>1, Places DEF Held, HoldsChatLock, Active, Generating
  <2>3. messages'[chat[q]] = messages[chat[q]] /\ cache'[chat[q]] = cache[chat[q]]
    BY <2>2
  <2> QED
    BY <1>1, <2>3 DEF Histories, Fresh, Exists, Cached, Current, Base, Writing, AtPeace
<1>3. ASSUME NEW c \in Chats PROVE Rested(c)'
  <2>1. CASE c = chat[r]
    BY <1>1, <2>1 DEF Rested, InGeneration
  <2>2. CASE c # chat[r]
    <3>1. InGeneration(c)' = InGeneration(c)
      BY <1>1, <2>2 DEF InGeneration
    <3> QED
      BY <1>1, <2>2, <3>1 DEF Histories, Rested, Exists, Cached, Current
  <2> QED
    BY <2>1, <2>2
<1> QED
  BY <1>2, <1>3 DEF Histories

\* The steps of a request that is outside its generation, before and after.
LEMMA Outside ==
  ASSUME TypeOK, Histories, NEW r \in Requests, pc[r] \notin Generating, pc'[r] \notin Generating,
         UNCHANGED <<owner, messages, cache>>,
         \A q \in Requests \ {r} : /\ pc'[q] = pc[q] /\ task'[q] = task[q] /\ buffer'[q] = buffer[q]
                                   /\ history'[q] = history[q] /\ question'[q] = question[q]
                                   /\ chat'[q] = chat[q]
  PROVE  Histories'
<1>1. \A q \in Requests : Fresh(q)'
  BY DEF Histories, Fresh, Exists, Cached, Current, Base, Writing, AtPeace
<1>2. \A c \in Chats : InGeneration(c)' = InGeneration(c)
  BY DEF InGeneration
<1>3. \A c \in Chats : Rested(c)'
  BY <1>2 DEF Histories, Rested, Exists, Cached, Current
<1> QED
  BY <1>1, <1>3 DEF Histories

\* Every step of Next keeps cache and prompts what PostgreSQL would give.
LEMMA HistoriesInductive ==
  ASSUME Faults = {}, TypeOK, Held, Turns, Histories, [Next]_vars
  PROVE  Histories'
<1> USE DEF Goto, database, place, turn
<1>0. \A r \in Requests : Sequenced(r) /\ TaskFits(r) /\ Fresh(r)
  BY DEF Turns, Histories, TypeOK
<1>0a. \A kind : ~Fault(kind)
  BY DEF Fault
<1>1. ASSUME NEW r \in Requests, AcquireSlot(r) PROVE Histories'
  <2>1. /\ pc[r] \notin Generating /\ pc'[r] \notin Generating /\ UNCHANGED <<owner, messages, cache>>
        /\ \A q \in Requests \ {r} : /\ pc'[q] = pc[q] /\ task'[q] = task[q] /\ buffer'[q] = buffer[q]
                                     /\ history'[q] = history[q] /\ question'[q] = question[q]
                                     /\ chat'[q] = chat[q]
    BY <1>1 DEF AcquireSlot, TypeOK, RequestTypes, Generating
  <2> QED
    BY <2>1, Outside
<1>2. ASSUME NEW r \in Requests, RejectBusyChat(r) PROVE Histories'
  <2>1. /\ pc[r] \notin Generating /\ pc'[r] \notin Generating /\ UNCHANGED <<owner, messages, cache>>
        /\ \A q \in Requests \ {r} : /\ pc'[q] = pc[q] /\ task'[q] = task[q] /\ buffer'[q] = buffer[q]
                                     /\ history'[q] = history[q] /\ question'[q] = question[q]
                                     /\ chat'[q] = chat[q]
    BY <1>2 DEF RejectBusyChat, TypeOK, RequestTypes, Generating
  <2> QED
    BY <2>1, Outside
<1>3. ASSUME NEW r \in Requests, ReleaseSlot(r) PROVE Histories'
  <2>1. /\ pc[r] \notin Generating /\ pc'[r] \notin Generating /\ UNCHANGED <<owner, messages, cache>>
        /\ \A q \in Requests \ {r} : /\ pc'[q] = pc[q] /\ task'[q] = task[q] /\ buffer'[q] = buffer[q]
                                     /\ history'[q] = history[q] /\ question'[q] = question[q]
                                     /\ chat'[q] = chat[q]
    BY <1>3 DEF ReleaseSlot, TypeOK, RequestTypes, Generating, Forget
  <2> QED
    BY <2>1, Outside
<1>4. ASSUME NEW r \in Requests, Refuse(r) PROVE Histories'
  <2>1. /\ pc[r] \notin Generating /\ pc'[r] \notin Generating /\ UNCHANGED <<owner, messages, cache>>
        /\ \A q \in Requests \ {r} : /\ pc'[q] = pc[q] /\ task'[q] = task[q] /\ buffer'[q] = buffer[q]
                                     /\ history'[q] = history[q] /\ question'[q] = question[q]
                                     /\ chat'[q] = chat[q]
    BY <1>4 DEF Refuse, TypeOK, RequestTypes, Generating
  <2> QED
    BY <2>1, Outside
<1>5. ASSUME NEW r \in Requests, NEW c \in Chats, NEW p \in Principals, Start(r, c, p)
      PROVE  Histories'
  <2>1. /\ pc[r] \notin Generating /\ pc'[r] \notin Generating /\ UNCHANGED <<owner, messages, cache>>
        /\ \A q \in Requests \ {r} : /\ pc'[q] = pc[q] /\ task'[q] = task[q] /\ buffer'[q] = buffer[q]
                                     /\ history'[q] = history[q] /\ question'[q] = question[q]
                                     /\ chat'[q] = chat[q]
    BY <1>5 DEF Start, TypeOK, RequestTypes, Generating
  <2> QED
    BY <2>1, Outside
<1>6. ASSUME NEW r \in Requests, CacheGet(r) PROVE Histories'
  <2>1. /\ pc[r] \in Generating /\ pc'[r] \in Generating /\ UNCHANGED <<owner, place>>
        /\ \A c \in Chats \ {chat[r]} : messages'[c] = messages[c] /\ cache'[c] = cache[c]
        /\ \A q \in Requests \ {r} : /\ pc'[q] = pc[q] /\ task'[q] = task[q] /\ buffer'[q] = buffer[q]
                                     /\ history'[q] = history[q] /\ question'[q] = question[q]
    BY <1>6, <1>0, <1>0a, TargetTypes, Places DEF CacheGet, TypeOK, RequestTypes, DataTypes, Generating, Active, AfterHistory
  <2>2. Fresh(r)'
    BY <1>6, <1>0, <1>0a, Places DEF CacheGet, Fresh, AtPeace, Writing, Cached, Current, Base, Exists, Subroutine, Closing,
       Generating, Active, TaskFits, TypeOK, RequestTypes, DataTypes, Tasks, AfterHistory
  <2> QED
    BY <2>1, <2>2, OnlyItsChat
<1>7. ASSUME NEW r \in Requests, DbLoad(r) PROVE Histories'
  <2>1. /\ pc[r] \in Generating /\ pc'[r] \in Generating /\ UNCHANGED <<owner, place>>
        /\ \A c \in Chats \ {chat[r]} : messages'[c] = messages[c] /\ cache'[c] = cache[c]
        /\ \A q \in Requests \ {r} : /\ pc'[q] = pc[q] /\ task'[q] = task[q] /\ buffer'[q] = buffer[q]
                                     /\ history'[q] = history[q] /\ question'[q] = question[q]
    BY <1>7, <1>0, <1>0a, TargetTypes, Places DEF DbLoad, TypeOK, RequestTypes, DataTypes, Generating, Active
  <2>2. Fresh(r)'
    BY <1>7, <1>0, <1>0a, Places DEF DbLoad, Fresh, AtPeace, Writing, Cached, Current, Base, Exists, Subroutine, Closing,
       Generating, Active, TaskFits, TypeOK, RequestTypes, DataTypes, Tasks
  <2> QED
    BY <2>1, <2>2, OnlyItsChat
<1>8. ASSUME NEW r \in Requests, CachePut(r) PROVE Histories'
  <2>1. /\ pc[r] \in Generating /\ pc'[r] \in Generating /\ UNCHANGED <<owner, place>>
        /\ \A c \in Chats \ {chat[r]} : messages'[c] = messages[c] /\ cache'[c] = cache[c]
        /\ \A q \in Requests \ {r} : /\ pc'[q] = pc[q] /\ task'[q] = task[q] /\ buffer'[q] = buffer[q]
                                     /\ history'[q] = history[q] /\ question'[q] = question[q]
    BY <1>8, <1>0, <1>0a, TargetTypes, Places DEF CachePut, TypeOK, RequestTypes, DataTypes, Generating, Active, AfterHistory, PutCache
  <2>2. Fresh(r)'
    BY <1>8, <1>0, <1>0a, Places DEF CachePut, Fresh, AtPeace, Writing, Cached, Current, Base, Exists, Subroutine, Closing,
       Generating, Active, TaskFits, TypeOK, RequestTypes, DataTypes, Tasks, AfterHistory, PutCache
  <2> QED
    BY <2>1, <2>2, OnlyItsChat
<1>9. ASSUME NEW r \in Requests, BeginFails(r) PROVE Histories'
  <2>1. /\ pc[r] \in Generating /\ pc'[r] \in Generating /\ UNCHANGED <<owner, place>>
        /\ \A c \in Chats \ {chat[r]} : messages'[c] = messages[c] /\ cache'[c] = cache[c]
        /\ \A q \in Requests \ {r} : /\ pc'[q] = pc[q] /\ task'[q] = task[q] /\ buffer'[q] = buffer[q]
                                     /\ history'[q] = history[q] /\ question'[q] = question[q]
    BY <1>9, <1>0, <1>0a, TargetTypes, Places DEF BeginFails, TypeOK, RequestTypes, DataTypes, Generating, Active
  <2>2. Fresh(r)'
    BY <1>9, <1>0, <1>0a, Places DEF BeginFails, Fresh, AtPeace, Writing, Cached, Current, Base, Exists, Subroutine, Closing,
       Generating, Active, TaskFits, TypeOK, RequestTypes, DataTypes, Tasks
  <2> QED
    BY <2>1, <2>2, OnlyItsChat
<1>10. ASSUME NEW r \in Requests, AppendLock(r) PROVE Histories'
  <2>1. /\ pc[r] \in Generating /\ pc'[r] \in Generating /\ UNCHANGED <<owner, place>>
        /\ \A c \in Chats \ {chat[r]} : messages'[c] = messages[c] /\ cache'[c] = cache[c]
        /\ \A q \in Requests \ {r} : /\ pc'[q] = pc[q] /\ task'[q] = task[q] /\ buffer'[q] = buffer[q]
                                     /\ history'[q] = history[q] /\ question'[q] = question[q]
    BY <1>10, <1>0, <1>0a, TargetTypes, Places DEF AppendLock, TypeOK, RequestTypes, DataTypes, Generating, Active
  <2>2. Fresh(r)'
    BY <1>10, <1>0, <1>0a, Places DEF AppendLock, Fresh, AtPeace, Writing, Cached, Current, Base, Exists, Subroutine, Closing,
       Generating, Active, TaskFits, TypeOK, RequestTypes, DataTypes, Tasks
  <2> QED
    BY <2>1, <2>2, OnlyItsChat
<1>11. ASSUME NEW r \in Requests, AppendPut(r) PROVE Histories'
  <2>1. /\ pc[r] \in Generating /\ pc'[r] \in Generating /\ UNCHANGED <<owner, place>>
        /\ \A c \in Chats \ {chat[r]} : messages'[c] = messages[c] /\ cache'[c] = cache[c]
        /\ \A q \in Requests \ {r} : /\ pc'[q] = pc[q] /\ task'[q] = task[q] /\ buffer'[q] = buffer[q]
                                     /\ history'[q] = history[q] /\ question'[q] = question[q]
    BY <1>11, <1>0, <1>0a, TargetTypes, Places DEF AppendPut, TypeOK, RequestTypes, DataTypes, Generating, Active, PutCache
  <2>2. Fresh(r)'
    BY <1>11, <1>0, <1>0a, Places DEF AppendPut, Fresh, AtPeace, Writing, Cached, Current, Base, Exists, Subroutine, Closing,
       Generating, Active, TaskFits, TypeOK, RequestTypes, DataTypes, Tasks, PutCache
  <2> QED
    BY <2>1, <2>2, OnlyItsChat
<1>12. ASSUME NEW r \in Requests, AppendUnlock(r) PROVE Histories'
  <2>1. /\ pc[r] \in Generating /\ pc'[r] \in Generating /\ UNCHANGED <<owner, place>>
        /\ \A c \in Chats \ {chat[r]} : messages'[c] = messages[c] /\ cache'[c] = cache[c]
        /\ \A q \in Requests \ {r} : /\ pc'[q] = pc[q] /\ task'[q] = task[q] /\ buffer'[q] = buffer[q]
                                     /\ history'[q] = history[q] /\ question'[q] = question[q]
    BY <1>12, <1>0, <1>0a, TargetTypes, Places DEF AppendUnlock, TypeOK, RequestTypes, DataTypes, Generating, Active
  <2>2. Fresh(r)'
    BY <1>12, <1>0, <1>0a, Places DEF AppendUnlock, Fresh, AtPeace, Writing, Cached, Current, Base, Exists, Subroutine, Closing,
       Generating, Active, TaskFits, TypeOK, RequestTypes, DataTypes, Tasks
  <2> QED
    BY <2>1, <2>2, OnlyItsChat
<1>13. ASSUME NEW r \in Requests, BuildPrompt(r) PROVE Histories'
  <2>1. /\ pc[r] \in Generating /\ pc'[r] \in Generating /\ UNCHANGED <<owner, place>>
        /\ \A c \in Chats \ {chat[r]} : messages'[c] = messages[c] /\ cache'[c] = cache[c]
        /\ \A q \in Requests \ {r} : /\ pc'[q] = pc[q] /\ task'[q] = task[q] /\ buffer'[q] = buffer[q]
                                     /\ history'[q] = history[q] /\ question'[q] = question[q]
    BY <1>13, <1>0, <1>0a, TargetTypes, Places DEF BuildPrompt, TypeOK, RequestTypes, DataTypes, Generating, Active
  <2>2. Fresh(r)'
    BY <1>13, <1>0, <1>0a, Places DEF BuildPrompt, Fresh, AtPeace, Writing, Cached, Current, Base, Exists, Subroutine, Closing,
       Generating, Active, TaskFits, TypeOK, RequestTypes, DataTypes, Tasks
  <2> QED
    BY <2>1, <2>2, OnlyItsChat
<1>14. ASSUME NEW r \in Requests, StreamReply(r) PROVE Histories'
  <2>1. /\ pc[r] \in Generating /\ pc'[r] \in Generating /\ UNCHANGED <<owner, place>>
        /\ \A c \in Chats \ {chat[r]} : messages'[c] = messages[c] /\ cache'[c] = cache[c]
        /\ \A q \in Requests \ {r} : /\ pc'[q] = pc[q] /\ task'[q] = task[q] /\ buffer'[q] = buffer[q]
                                     /\ history'[q] = history[q] /\ question'[q] = question[q]
    BY <1>14, <1>0, <1>0a, TargetTypes, Places DEF StreamReply, TypeOK, RequestTypes, DataTypes, Generating, Active
  <2>2. Fresh(r)'
    BY <1>14, <1>0, <1>0a, Places DEF StreamReply, Fresh, AtPeace, Writing, Cached, Current, Base, Exists, Subroutine, Closing,
       Generating, Active, TaskFits, TypeOK, RequestTypes, DataTypes, Tasks
  <2> QED
    BY <2>1, <2>2, OnlyItsChat
<1>15. ASSUME NEW r \in Requests, Complete(r) PROVE Histories'
  <2>1. /\ pc[r] \in Generating /\ pc'[r] \in Generating /\ UNCHANGED <<owner, place>>
        /\ \A c \in Chats \ {chat[r]} : messages'[c] = messages[c] /\ cache'[c] = cache[c]
        /\ \A q \in Requests \ {r} : /\ pc'[q] = pc[q] /\ task'[q] = task[q] /\ buffer'[q] = buffer[q]
                                     /\ history'[q] = history[q] /\ question'[q] = question[q]
    BY <1>15, <1>0, <1>0a, TargetTypes, Places DEF Complete, TypeOK, RequestTypes, DataTypes, Generating, Active, SetReply
  <2>2. Fresh(r)'
    BY <1>15, <1>0, <1>0a, Places DEF Complete, Fresh, AtPeace, Writing, Cached, Current, Base, Exists, Subroutine, Closing,
       Generating, Active, TaskFits, TypeOK, RequestTypes, DataTypes, Tasks, SetReply
  <2> QED
    BY <2>1, <2>2, OnlyItsChat
<1>16. ASSUME NEW r \in Requests, CompleteFails(r) PROVE Histories'
  <2>1. /\ pc[r] \in Generating /\ pc'[r] \in Generating /\ UNCHANGED <<owner, place>>
        /\ \A c \in Chats \ {chat[r]} : messages'[c] = messages[c] /\ cache'[c] = cache[c]
        /\ \A q \in Requests \ {r} : /\ pc'[q] = pc[q] /\ task'[q] = task[q] /\ buffer'[q] = buffer[q]
                                     /\ history'[q] = history[q] /\ question'[q] = question[q]
    BY <1>16, <1>0, <1>0a, TargetTypes, Places DEF CompleteFails, TypeOK, RequestTypes, DataTypes, Generating, Active
  <2>2. Fresh(r)'
    BY <1>16, <1>0, <1>0a, Places DEF CompleteFails, Fresh, AtPeace, Writing, Cached, Current, Base, Exists, Subroutine, Closing,
       Generating, Active, TaskFits, TypeOK, RequestTypes, DataTypes, Tasks
  <2> QED
    BY <2>1, <2>2, OnlyItsChat
<1>17. ASSUME NEW r \in Requests, RecordUsage(r) PROVE Histories'
  <2>1. /\ pc[r] \in Generating /\ pc'[r] \in Generating /\ UNCHANGED <<owner, place>>
        /\ \A c \in Chats \ {chat[r]} : messages'[c] = messages[c] /\ cache'[c] = cache[c]
        /\ \A q \in Requests \ {r} : /\ pc'[q] = pc[q] /\ task'[q] = task[q] /\ buffer'[q] = buffer[q]
                                     /\ history'[q] = history[q] /\ question'[q] = question[q]
    BY <1>17, <1>0, <1>0a, TargetTypes, Places DEF RecordUsage, TypeOK, RequestTypes, DataTypes, Generating, Active
  <2>2. Fresh(r)'
    BY <1>17, <1>0, <1>0a, Places DEF RecordUsage, Fresh, AtPeace, Writing, Cached, Current, Base, Exists, Subroutine, Closing,
       Generating, Active, TaskFits, TypeOK, RequestTypes, DataTypes, Tasks
  <2> QED
    BY <2>1, <2>2, OnlyItsChat
<1>18. ASSUME NEW r \in Requests, EndTurn(r) PROVE Histories'
  <2>1. /\ pc[r] \in Generating /\ pc'[r] \in Generating /\ UNCHANGED <<owner, place>>
        /\ \A c \in Chats \ {chat[r]} : messages'[c] = messages[c] /\ cache'[c] = cache[c]
        /\ \A q \in Requests \ {r} : /\ pc'[q] = pc[q] /\ task'[q] = task[q] /\ buffer'[q] = buffer[q]
                                     /\ history'[q] = history[q] /\ question'[q] = question[q]
    BY <1>18, <1>0, <1>0a, TargetTypes, Places DEF EndTurn, TypeOK, RequestTypes, DataTypes, Generating, Active, SetReply, Verdict
  <2>2. Fresh(r)'
    BY <1>18, <1>0, <1>0a, Places DEF EndTurn, Fresh, AtPeace, Writing, Cached, Current, Base, Exists, Subroutine, Closing,
       Generating, Active, TaskFits, TypeOK, RequestTypes, DataTypes, Tasks, SetReply, Verdict
  <2> QED
    BY <2>1, <2>2, OnlyItsChat
<1>19. ASSUME NEW r \in Requests, EndTurnFails(r) PROVE Histories'
  <2>1. /\ pc[r] \in Generating /\ pc'[r] \in Generating /\ UNCHANGED <<owner, place>>
        /\ \A c \in Chats \ {chat[r]} : messages'[c] = messages[c] /\ cache'[c] = cache[c]
        /\ \A q \in Requests \ {r} : /\ pc'[q] = pc[q] /\ task'[q] = task[q] /\ buffer'[q] = buffer[q]
                                     /\ history'[q] = history[q] /\ question'[q] = question[q]
    BY <1>19, <1>0, <1>0a, TargetTypes, Places DEF EndTurnFails, TypeOK, RequestTypes, DataTypes, Generating, Active
  <2>2. Fresh(r)'
    BY <1>19, <1>0, <1>0a, Places DEF EndTurnFails, Fresh, AtPeace, Writing, Cached, Current, Base, Exists, Subroutine, Closing,
       Generating, Active, TaskFits, TypeOK, RequestTypes, DataTypes, Tasks
  <2> QED
    BY <2>1, <2>2, OnlyItsChat
<1>20. ASSUME NEW r \in Requests, InvalidateOwn(r) PROVE Histories'
  <2>1. /\ pc[r] \in Generating /\ pc'[r] \in Generating /\ UNCHANGED <<owner, place>>
        /\ \A c \in Chats \ {chat[r]} : messages'[c] = messages[c] /\ cache'[c] = cache[c]
        /\ \A q \in Requests \ {r} : /\ pc'[q] = pc[q] /\ task'[q] = task[q] /\ buffer'[q] = buffer[q]
                                     /\ history'[q] = history[q] /\ question'[q] = question[q]
    BY <1>20, <1>0, <1>0a, TargetTypes, Places DEF InvalidateOwn, TypeOK, RequestTypes, DataTypes, Generating, Active, PutCache
  <2>2. Fresh(r)'
    BY <1>20, <1>0, <1>0a, Places DEF InvalidateOwn, Fresh, AtPeace, Writing, Cached, Current, Base, Exists, Subroutine, Closing,
       Generating, Active, TaskFits, TypeOK, RequestTypes, DataTypes, Tasks, PutCache
  <2> QED
    BY <2>1, <2>2, OnlyItsChat
<1>21. ASSUME NEW r \in Requests, Begin(r) PROVE Histories'
  <2> DEFINE c == chat[r]
             m == messages[c]
  <2>1. /\ c \in Chats /\ Exists(c) /\ m \in Seq(Message) /\ Len(m) \in Nat
        /\ UNCHANGED <<owner, chat, cache, task, buffer>>
        /\ messages'[c] = m \o <<Prompt, Placeholder>>
        /\ question'[r] = Len(m) + 1 /\ history'[r] = buffer[r] /\ pc'[r] = "appendLock"
    <3>1. c \in Chats
      BY <1>21, Places DEF Begin, Active
    <3>2. m \in Seq(Message) /\ Len(m) \in Nat
      BY <3>1 DEF TypeOK, DataTypes
    <3>3. messages'[c] = m \o <<Prompt, Placeholder>>
      BY <1>21, <3>1 DEF Begin, TypeOK, DataTypes
    <3> QED
      BY <1>21, <3>1, <3>2, <3>3 DEF Begin, TypeOK, RequestTypes
  <2>2. /\ pc[r] \in Generating /\ pc'[r] \in Generating /\ UNCHANGED <<owner, place>>
        /\ \A d \in Chats \ {chat[r]} : messages'[d] = messages[d] /\ cache'[d] = cache[d]
        /\ \A q \in Requests \ {r} : /\ pc'[q] = pc[q] /\ task'[q] = task[q] /\ buffer'[q] = buffer[q]
                                     /\ history'[q] = history[q] /\ question'[q] = question[q]
    BY <1>21, Places DEF Begin, TypeOK, RequestTypes, DataTypes, Generating, Active
  <2>3. buffer[r] = HistoryOf(m) /\ cache[c] \in {None, HistoryOf(m)}
    BY <1>0, <1>21, <2>1 DEF Begin, Fresh, AtPeace, Generating, Cached, Current
  <2>4. HistoryOf(messages'[c]) = HistoryOf(m) /\ SubSeq(messages'[c], 1, Len(m)) = m
    BY <2>1, HistoryOfOpenTurn
  <2>5. Current(c)' = buffer[r] /\ Base(r)' = buffer[r]
    <3>1. question'[r] - 1 = Len(m) /\ chat'[r] = chat[r]
      BY <2>1
    <3>2. Base(r)' = HistoryOf(SubSeq(messages'[c], 1, Len(m)))
      BY <3>1 DEF Base, HistoryOf, IsPartOfCompletedTurn
    <3>3. Current(c)' = HistoryOf(messages'[c])
      BY <3>1 DEF Current, HistoryOf, IsPartOfCompletedTurn
    <3> QED
      BY <2>3, <2>4, <3>2, <3>3
  <2>6. Fresh(r)'
    BY <2>1, <2>3, <2>5 DEF Fresh, AtPeace, Subroutine
  <2> QED
    BY <2>2, <2>6, OnlyItsChat
<1>22. ASSUME NEW r \in Requests, AcquireChat(r) PROVE Histories'
  <2>1. CASE ~MayAcquire(chatLock[chat[r]])
    <3>1. /\ pc[r] \notin Generating /\ pc'[r] \notin Generating /\ UNCHANGED <<owner, messages, cache>>
          /\ \A q \in Requests \ {r} : /\ pc'[q] = pc[q] /\ task'[q] = task[q] /\ buffer'[q] = buffer[q]
                                       /\ history'[q] = history[q] /\ question'[q] = question[q]
                                       /\ chat'[q] = chat[q]
      BY <1>22, <2>1 DEF AcquireChat, TypeOK, RequestTypes, Generating
    <3> QED
      BY <3>1, Outside
  <2>2. CASE MayAcquire(chatLock[chat[r]])
    <3>1. /\ UNCHANGED <<owner, messages, cache, task, chat, buffer, history, question>>
          /\ pc'[r] = "cacheGet" /\ \A q \in Requests \ {r} : pc'[q] = pc[q]
          /\ task[r] = "history" /\ chat[r] \in Chats
      BY <1>0, <1>22, <2>2, Places DEF AcquireChat, TypeOK, RequestTypes, TaskFits, Active
    <3>2. InGeneration(chat[r]) = {}
      BY <1>22, <2>2, <3>1, NoneAssumption DEF MayAcquire, InGeneration, Held, HoldsChatLock
    <3>3. Exists(chat[r]) => Cached(chat[r])
      BY <3>1, <3>2 DEF Histories, Rested
    <3>4. Fresh(r)'
      BY <3>1, <3>3 DEF Fresh, AtPeace, Writing, Subroutine, Exists, Cached, Current
    <3>5. \A q \in Requests \ {r} : Fresh(q)'
      BY <1>0, <3>1 DEF Fresh, AtPeace, Writing, Exists, Cached, Current, Base
    <3>6. ASSUME NEW c \in Chats PROVE Rested(c)'
      <4>1. InGeneration(c) \ {r} = InGeneration(c)' \ {r}
        BY <3>1 DEF InGeneration
      <4>2. r \notin InGeneration(c)
        BY <1>22 DEF AcquireChat, InGeneration, Generating
      <4> QED
        BY <3>1, <4>1, <4>2 DEF Histories, Rested, Exists, Cached, Current
    <3> QED
      BY <3>4, <3>5, <3>6 DEF Histories
  <2> QED
    BY <2>1, <2>2
<1>23. ASSUME NEW r \in Requests, ReleaseChat(r) PROVE Histories'
  <2>1. /\ UNCHANGED <<owner, messages, cache, task, chat, buffer, history, question>>
        /\ pc'[r] = "releaseSlot" /\ \A q \in Requests \ {r} : pc'[q] = pc[q]
    BY <1>23 DEF ReleaseChat, TypeOK, RequestTypes
  <2>2. \A q \in Requests : Fresh(q)'
    BY <1>0, <2>1 DEF Fresh, AtPeace, Writing, Exists, Cached, Current, Base, Generating
  <2>3. Exists(chat[r]) => Cached(chat[r])
    BY <1>0, <1>23 DEF ReleaseChat, Fresh, AtPeace, Generating
  <2>4. ASSUME NEW c \in Chats PROVE Rested(c)'
    <3>1. CASE c = chat[r]
      BY <2>1, <2>3, <3>1 DEF Rested, Exists, Cached, Current
    <3>2. CASE c # chat[r]
      <4>1. InGeneration(c)' = InGeneration(c)
        BY <2>1, <3>2 DEF InGeneration
      <4> QED
        BY <2>1, <4>1 DEF Histories, Rested, Exists, Cached, Current
    <3> QED
      BY <3>1, <3>2
  <2> QED
    BY <2>2, <2>4 DEF Histories
<1>24. CASE \/ \E r \in Requests : Abort(r)
            \/ \E c \in Chats : \/ ExpireChatLock(c) \/ ExpireHistoryLock(c) \/ ExpireCache(c)
                                \/ DeleteChat(c) \/ Invalidate(c)
            \/ \E k \in SlotKeys : ExpireSlotLock(k)
            \/ \E p \in Anonymous, u \in Users : TransferChats(p, u)
            \/ UNCHANGED vars
  <2>1. /\ UNCHANGED <<pc, task, chat, buffer, history, question>>
        /\ \A c \in Chats : cache'[c] \in {None, cache[c]}
        /\ \A c \in Chats : Exists(c)' => Exists(c) /\ messages'[c] = messages[c]
    BY <1>24, <1>0a, NoneAssumption DEF Abort, ExpireChatLock, ExpireHistoryLock, ExpireCache, DeleteChat,
       Invalidate, PutCache, ExpireSlotLock, TransferChats, ChatsOf, Exists, vars, TypeOK, DataTypes
  <2>2. ASSUME NEW q \in Requests PROVE Fresh(q)'
    <3>1. SUFFICES ASSUME pc[q] \in Generating, Exists(chat[q])' PROVE Fresh(q)'
      BY <2>1 DEF Fresh
    <3>2. chat[q] \in Chats
      BY <3>1, Places DEF Active, Generating
    <3>3. Exists(chat[q]) /\ messages'[chat[q]] = messages[chat[q]] /\ cache'[chat[q]] \in {None, cache[chat[q]]}
      BY <2>1, <3>1, <3>2 DEF Exists
    <3> QED
      BY <1>0, <2>1, <3>1, <3>3 DEF Fresh, AtPeace, Writing, Cached, Current, Base
  <2>3. \A c \in Chats : Rested(c)'
    BY <2>1 DEF Histories, Rested, InGeneration, Cached, Current
  <2> QED
    BY <2>2, <2>3 DEF Histories
<1>25. ~Crash /\ \A r \in Requests : ~AcquireSlotThrows(r) /\ ~AcquireChatThrows(r) /\ ~DbLoadFails(r)
  BY <1>0a DEF Crash, AcquireSlotThrows, AcquireChatThrows, DbLoadFails
<1> HIDE DEF Goto, database, place, turn
<1>26. CASE Environment
  BY <1>4, <1>5, <1>24, <1>25, <1>26 DEF Environment
<1>27. ASSUME NEW r \in Requests, Step(r) PROVE Histories'
  BY <1>1, <1>2, <1>3, <1>6, <1>7, <1>8, <1>9, <1>10, <1>11, <1>12, <1>13, <1>14, <1>15,
     <1>16, <1>17, <1>18, <1>19, <1>20, <1>21, <1>22, <1>23, <1>25, <1>27 DEF Step
<1> QED
  BY <1>24, <1>26, <1>27 DEF Next

\* Without faults, what requests have in hand of a history, and what they leave in
\* the cache, is what PostgreSQL would give.
THEOREM HistoriesHold ==
  ASSUME Faults = {}
  PROVE  Spec => []Histories
<1>1. Init => Histories
  BY DEF Init, InitAfter, Histories, Fresh, Rested, Generating, Cached
<1>2. TypeOK /\ Held /\ Turns /\ Histories /\ [Next]_vars => Histories'
  BY HistoriesInductive
<1>3. Spec => [](TypeOK /\ Held)
  BY LocksHeld
<1> QED
  BY <1>1, <1>2, <1>3, TurnsHold, PTL DEF Spec

\* Without faults, the prompt sent to Ollama carries exactly the answered turns that
\* precede the request's own message, from whichever store the history was read,
\* however requests, expiries and deletions interleave.
THEOREM PromptCarriesHistory ==
  ASSUME Faults = {}
  PROVE  Spec => []PromptIsHistory
<1>1. Histories => PromptIsHistory
  BY DEF Histories, Fresh, Writing, PromptIsHistory, Base, Generating
<1> QED
  BY <1>1, HistoriesHold, PTL

\* Without faults, what a chat at rest leaves in Redis is what PostgreSQL would give.
THEOREM CacheConverges ==
  ASSUME Faults = {}
  PROVE  Spec => []CacheCoherent
<1>1. Histories => CacheCoherent
  BY DEF Histories, Rested, CacheCoherent, AtRest, Cached, Current
<1> QED
  BY <1>1, HistoriesHold, PTL

-----------------------------------------------------------------------------
(***************************************************************************)
(* Every step of ChatStream is a step of TurnLog or leaves it as it was,   *)
(* as long as PostgreSQL answers and no lease lapses.                      *)
(***************************************************************************)
\* A request that has a reply in the log which is still being written.
Open(q) == Begun(q) /\ Exists(chat[q]) /\ Status(q) = "STREAMING" /\ ~Over(q)

\* The open replies of the log are the rows that somebody is still to end.
LEMMA OpenIsStreaming ==
  ASSUME NEW q
  PROVE  RowOf(q) = "STREAMING" <=> Open(q)
BY DEF RowOf, Open, Status

\* What the log shows of a request that was kept, with its chat, and that is not
\* the first to find its reply abandoned.
LEMMA RowKept ==
  ASSUME NEW q, Kept(q), Begun(q) => Exists(chat[q])' = Exists(chat[q]),
         Begun(q) /\ Exists(chat[q]) /\ Status(q) = "STREAMING" => Over(q)' = Over(q)
  PROVE  RowOf(q)' = RowOf(q)
<1>1. CASE ~Begun(q)
  BY <1>1 DEF RowOf, Kept, Begun
<1>2. CASE Begun(q) /\ ~Exists(chat[q])
  BY <1>2 DEF RowOf, Kept, Begun
<1>3. CASE Begun(q) /\ Exists(chat[q])
  <2>1. Begun(q)' /\ Exists(chat[q])' /\ Status(q)' = Status(q)
    BY <1>3 DEF Kept, Begun
  <2> QED
    BY <1>3, <2>1 DEF RowOf, Status
<1> QED
  BY <1>1, <1>2, <1>3

\* Where every row is kept and shown as it was, the log is as it was.
LEMMA LogKept ==
  ASSUME \A q \in Requests : Kept(q), \A q \in Requests : RowOf(q)' = RowOf(q)
  PROVE  UNCHANGED Log!log
BY DEF Log!log, Kept, Begun

\* The steps of r that write no row and delete none.
LEMMA QuietInLog ==
  ASSUME NEW r \in Requests, UNCHANGED <<owner, messages, question, chat>>,
         \A q \in Requests \ {r} : pc'[q] = pc[q],
         Begun(r) /\ Exists(chat[r]) /\ Status(r) = "STREAMING" => Over(r)' = Over(r)
  PROVE  UNCHANGED Log!log
<1>1. \A q \in Requests : Kept(q) /\ Exists(chat[q])' = Exists(chat[q])
  BY KeptByQuietStep DEF Exists
<1>2. \A q \in Requests \ {r} : Over(q)' = Over(q)
  BY DEF Over
<1>3. \A q \in Requests : RowOf(q)' = RowOf(q)
  BY <1>1, <1>2, RowKept
<1> QED
  BY <1>1, <1>3, LogKept

\* The final write of r closes its reply in the log.
LEMMA CloseInLog ==
  ASSUME TypeOK, OwnRows, NEW r \in Requests, Open(r), NEW s \in Log!Ended, SetReply(r, s),
         UNCHANGED <<owner, question, place>>,
         \A q \in Requests \ {r} : pc'[q] = pc[q]
  PROVE  Log!Close(r)
<1>1. (\A q \in Requests \ {r} : Kept(q)) /\ Begun(r)' /\ Status(r)' = s
  BY KeptByReply DEF Open
<1>2. \A q \in Requests : Exists(chat[q])' = Exists(chat[q]) /\ Begun(q)' = Begun(q) /\ chat'[q] = chat[q]
  BY DEF Exists, Begun, place
<1>3. ASSUME NEW q \in Requests \ {r} PROVE RowOf(q)' = RowOf(q)
  <2>1. Over(q)' = Over(q)
    BY DEF Over
  <2> QED
    BY <1>1, <1>2, <2>1, RowKept
<1>4. RowOf(r) = "STREAMING" /\ RowOf(r)' = s
  <2>1. s # "STREAMING" /\ Exists(chat[r])'
    BY <1>2 DEF Log!Ended, Open
  <2> QED
    BY <1>1, <2>1, OpenIsStreaming DEF RowOf, Status
<1> DEFINE rows == [q \in Requests |-> RowOf(q)]
<1>5. rows' = [rows EXCEPT ![r] = s] /\ rows[r] = "STREAMING"
  BY <1>3, <1>4
<1>6. UNCHANGED [q \in Requests |-> IF Begun(q) THEN chat[q] ELSE None]
  BY <1>2
<1> QED
  BY <1>5, <1>6 DEF Log!Close

\* beginGeneration opens a reply in a chat that has no open one.
LEMMA OpenInLog ==
  ASSUME TypeOK, Held, Turns, NEW r \in Requests, Begin(r)
  PROVE  \E c \in Chats : Log!Open(r, c)
<1> DEFINE c == chat[r]
           rows == [q \in Requests |-> RowOf(q)]
           places == [q \in Requests |-> IF Begun(q) THEN chat[q] ELSE None]
<1>1. (\A q \in Requests \ {r} : Kept(q)) /\ Begun(r)' /\ Status(r)' = "STREAMING"
  BY KeptByBegin DEF Turns
<1>2. /\ UNCHANGED <<owner, chat>> /\ c \in Chats /\ Exists(c)
      /\ pc[r] = "begin" /\ pc'[r] = "appendLock" /\ ~Begun(r)
      /\ \A q \in Requests \ {r} : pc'[q] = pc[q]
  BY Places DEF Begin, place, Goto, TypeOK, RequestTypes, Turns, Sequenced, Active
<1>3. \A q \in Requests : Exists(chat[q])' = Exists(chat[q])
  BY <1>2 DEF Exists
<1>4. ASSUME NEW q \in Requests \ {r} PROVE RowOf(q)' = RowOf(q)
  <2>1. Over(q)' = Over(q)
    BY <1>2 DEF Over
  <2> QED
    BY <1>1, <1>3, <2>1, RowKept
<1>5. RowOf(r) = "none" /\ RowOf(r)' = "STREAMING"
  BY <1>1, <1>2, <1>3 DEF RowOf, Status, Over
<1>6. ASSUME NEW q \in Requests, places[q] = c PROVE rows[q] # "STREAMING"
  <2>1. SUFFICES ASSUME Open(q) PROVE FALSE
    BY OpenIsStreaming
  <2>2. chat[q] = c /\ q # r
    BY <1>2, <1>6, <2>1 DEF Open
  <2>3. pc[q] \in Generating
    BY <2>1 DEF Open, Turns, Sequenced, Over, TypeOK, RequestTypes, Labels, HoldingSlot, Generating
  <2>4. chatLock[c] = q /\ chatLock[c] = r
    BY <1>2, <2>2, <2>3 DEF Held, HoldsChatLock, Generating
  <2> QED
    BY <2>2, <2>4
<1>7. rows' = [rows EXCEPT ![r] = "STREAMING"] /\ rows[r] = "none"
  BY <1>4, <1>5
<1>8. places' = [places EXCEPT ![r] = c]
  <2>1. \A q \in Requests \ {r} : Begun(q)' = Begun(q) /\ chat'[q] = chat[q]
    BY <1>1 DEF Kept, Begun
  <2> QED
    BY <1>1, <1>2, <2>1
<1> QED
  BY <1>2, <1>6, <1>7, <1>8 DEF Log!Open

\* The deletion of a chat drops its replies.
LEMMA DropInLog ==
  ASSUME TypeOK, Turns, NEW c \in Chats, DeleteChat(c)
  PROVE  Log!Drop(c)
<1> DEFINE rows == [q \in Requests |-> RowOf(q)]
           places == [q \in Requests |-> IF Begun(q) THEN chat[q] ELSE None]
<1>1. /\ UNCHANGED <<chat, question, pc>>
      /\ ~Exists(c)' /\ \A d \in Chats \ {c} : Exists(d)' = Exists(d)
  BY DEF DeleteChat, place, turn, Exists, TypeOK, DataTypes
<1>2. \A q \in Requests : Kept(q) /\ Begun(q)' = Begun(q) /\ Over(q)' = Over(q)
  BY <1>1, KeptByOwnerStep DEF Turns, Begun, Over
<1>3. \A q \in Requests : Begun(q) => chat[q] \in Chats
  BY DEF Turns, OwnRows, Placed
<1>4. ASSUME NEW q \in Requests PROVE RowOf(q)' = IF places[q] = c THEN "gone" ELSE RowOf(q)
  <2>1. CASE Begun(q) /\ chat[q] = c
    BY <1>1, <1>2, <2>1 DEF RowOf, Exists
  <2>2. CASE Begun(q) /\ chat[q] # c
    <3>1. Exists(chat[q])' = Exists(chat[q])
      BY <1>1, <1>3, <2>2 DEF Exists
    <3> QED
      BY <1>2, <2>2, <3>1, RowKept
  <2>3. CASE ~Begun(q)
    BY <1>2, <2>3, NoneAssumption, RowKept
  <2> QED
    BY <2>1, <2>2, <2>3
<1>5. rows' = [q \in Requests |-> IF places[q] = c THEN "gone" ELSE rows[q]]
  BY <1>4
<1>6. UNCHANGED places
  BY <1>1, <1>2
<1> QED
  BY <1>5, <1>6 DEF Log!Drop

\* A dying process abandons the replies it was writing.
LEMMA AbandonInLog ==
  ASSUME TypeOK, Turns, Crash
  PROVE  \E lost \in SUBSET Requests : Log!Abandon(lost)
<1> DEFINE rows == [q \in Requests |-> RowOf(q)]
           places == [q \in Requests |-> IF Begun(q) THEN chat[q] ELSE None]
           lost == {q \in Requests : Open(q)}
<1>1. /\ UNCHANGED <<owner, messages, chat, question>>
      /\ \A q \in Requests : pc'[q] = IF Active(q) THEN "dead" ELSE pc[q]
  BY DEF Crash, database, place
<1>2. \A q \in Requests : /\ Kept(q) /\ Begun(q)' = Begun(q)
                          /\ Exists(chat[q])' = Exists(chat[q]) /\ Status(q)' = Status(q)
  BY <1>1, KeptByQuietStep DEF Begun, Exists, Status, ReplyRow, ReplyId
<1>3. ASSUME NEW q \in Requests, Open(q) PROVE RowOf(q)' = "abandoned"
  <2>1. Active(q)
    BY <1>3 DEF Open, Over, Active, Turns, Sequenced
  <2> QED
    BY <1>1, <1>2, <1>3, <2>1 DEF Open, Over, RowOf, Status
<1>4. ASSUME NEW q \in Requests, ~Open(q) PROVE RowOf(q)' = RowOf(q)
  <2>1. Begun(q) /\ Exists(chat[q]) /\ Status(q) = "STREAMING" => Over(q)' = Over(q)
    BY <1>1, <1>4 DEF Open, Over, Active
  <2> QED
    BY <1>2, <2>1, RowKept
<1>5. rows' = [q \in Requests |-> IF q \in lost THEN "abandoned" ELSE rows[q]]
  BY <1>3, <1>4
<1>6. \A q \in lost : rows[q] = "STREAMING"
  BY OpenIsStreaming
<1>7. UNCHANGED places
  BY <1>1, <1>2
<1> QED
  BY <1>5, <1>6, <1>7 DEF Log!Abandon

\* Every step of Next is a step of the log, or leaves it as it was.
LEMMA StepInLog ==
  ASSUME {"db", "lapse"} \cap Faults = {}, TypeOK, Held, Turns, Told, [Next]_vars
  PROVE  [Log!Next]_Log!log
<1> USE DEF Goto, database, place, turn
<1>0. \A r \in Requests : /\ Sequenced(r) /\ Truthful(r) /\ TaskFits(r) /\ Faithful(r)
  BY DEF Turns, Told, TypeOK
<1>1. ASSUME NEW r \in Requests, AcquireSlot(r) PROVE UNCHANGED Log!log
  <2>1. /\ UNCHANGED <<owner, messages, question, chat>>
        /\ \A q \in Requests \ {r} : pc'[q] = pc[q]
    BY <1>1 DEF AcquireSlot, TypeOK, RequestTypes
  <2>2. Begun(r) /\ Exists(chat[r]) /\ Status(r) = "STREAMING" => Over(r)' = Over(r)
    BY <1>0, <1>1 DEF AcquireSlot, Sequenced, Truthful, Writing, Ending, Over, Subroutine,
       Closing, StatusOf, TaskFits, TypeOK, RequestTypes, Fault
  <2> QED
    BY <2>1, <2>2, QuietInLog
<1>2. ASSUME NEW r \in Requests, AcquireSlotThrows(r) PROVE UNCHANGED Log!log
  <2>1. /\ UNCHANGED <<owner, messages, question, chat>>
        /\ \A q \in Requests \ {r} : pc'[q] = pc[q]
    BY <1>2 DEF AcquireSlotThrows, TypeOK, RequestTypes
  <2>2. Begun(r) /\ Exists(chat[r]) /\ Status(r) = "STREAMING" => Over(r)' = Over(r)
    BY <1>0, <1>2 DEF AcquireSlotThrows, Sequenced, Truthful, Writing, Ending, Over, Subroutine,
       Closing, StatusOf, TaskFits, TypeOK, RequestTypes, Fault
  <2> QED
    BY <2>1, <2>2, QuietInLog
<1>3. ASSUME NEW r \in Requests, AcquireChat(r) PROVE UNCHANGED Log!log
  <2>1. /\ UNCHANGED <<owner, messages, question, chat>>
        /\ \A q \in Requests \ {r} : pc'[q] = pc[q]
    BY <1>3 DEF AcquireChat, TypeOK, RequestTypes
  <2>2. Begun(r) /\ Exists(chat[r]) /\ Status(r) = "STREAMING" => Over(r)' = Over(r)
    BY <1>0, <1>3 DEF AcquireChat, Sequenced, Truthful, Writing, Ending, Over, Subroutine,
       Closing, StatusOf, TaskFits, TypeOK, RequestTypes, Fault
  <2> QED
    BY <2>1, <2>2, QuietInLog
<1>4. ASSUME NEW r \in Requests, AcquireChatThrows(r) PROVE UNCHANGED Log!log
  <2>1. /\ UNCHANGED <<owner, messages, question, chat>>
        /\ \A q \in Requests \ {r} : pc'[q] = pc[q]
    BY <1>4 DEF AcquireChatThrows, TypeOK, RequestTypes
  <2>2. Begun(r) /\ Exists(chat[r]) /\ Status(r) = "STREAMING" => Over(r)' = Over(r)
    BY <1>0, <1>4 DEF AcquireChatThrows, Sequenced, Truthful, Writing, Ending, Over, Subroutine,
       Closing, StatusOf, TaskFits, TypeOK, RequestTypes, Fault
  <2> QED
    BY <2>1, <2>2, QuietInLog
<1>5. ASSUME NEW r \in Requests, RejectBusyChat(r) PROVE UNCHANGED Log!log
  <2>1. /\ UNCHANGED <<owner, messages, question, chat>>
        /\ \A q \in Requests \ {r} : pc'[q] = pc[q]
    BY <1>5 DEF RejectBusyChat, TypeOK, RequestTypes
  <2>2. Begun(r) /\ Exists(chat[r]) /\ Status(r) = "STREAMING" => Over(r)' = Over(r)
    BY <1>0, <1>5 DEF RejectBusyChat, Sequenced, Truthful, Writing, Ending, Over, Subroutine,
       Closing, StatusOf, TaskFits, TypeOK, RequestTypes, Fault
  <2> QED
    BY <2>1, <2>2, QuietInLog
<1>6. ASSUME NEW r \in Requests, CacheGet(r) PROVE UNCHANGED Log!log
  <2>1. /\ UNCHANGED <<owner, messages, question, chat>>
        /\ \A q \in Requests \ {r} : pc'[q] = pc[q]
    BY <1>6 DEF CacheGet, TypeOK, RequestTypes
  <2>2. Begun(r) /\ Exists(chat[r]) /\ Status(r) = "STREAMING" => Over(r)' = Over(r)
    BY <1>0, <1>6 DEF CacheGet, Sequenced, Truthful, Writing, Ending, Over, Subroutine,
       Closing, StatusOf, TaskFits, TypeOK, RequestTypes, Fault, AfterHistory
  <2> QED
    BY <2>1, <2>2, QuietInLog
<1>7. ASSUME NEW r \in Requests, DbLoad(r) PROVE UNCHANGED Log!log
  <2>1. /\ UNCHANGED <<owner, messages, question, chat>>
        /\ \A q \in Requests \ {r} : pc'[q] = pc[q]
    BY <1>7 DEF DbLoad, TypeOK, RequestTypes
  <2>2. Begun(r) /\ Exists(chat[r]) /\ Status(r) = "STREAMING" => Over(r)' = Over(r)
    BY <1>0, <1>7 DEF DbLoad, Sequenced, Truthful, Writing, Ending, Over, Subroutine,
       Closing, StatusOf, TaskFits, TypeOK, RequestTypes, Fault
  <2> QED
    BY <2>1, <2>2, QuietInLog
<1>8. ASSUME NEW r \in Requests, CachePut(r) PROVE UNCHANGED Log!log
  <2>1. /\ UNCHANGED <<owner, messages, question, chat>>
        /\ \A q \in Requests \ {r} : pc'[q] = pc[q]
        /\ pc[r] = "cachePut" /\ pc'[r] = AfterHistory(r)
    BY <1>8 DEF CachePut, TypeOK, RequestTypes
  <2>2. Begun(r) /\ Exists(chat[r]) /\ Status(r) = "STREAMING" => Over(r)' = Over(r)
    <3>1. CASE task[r] \in {"history", "append"}
      BY <2>1, <3>1 DEF AfterHistory, Over
    <3>2. CASE task[r] \in Closing
      <4>1. Begun(r) /\ Exists(chat[r]) => Status(r) = StatusOf[task[r]]
        BY <1>0, <2>1, <3>2 DEF Truthful, Ending, Subroutine
      <4> QED
        BY <3>2, <4>1 DEF Closing, StatusOf
    <3> QED
      BY <1>0, <2>1, <3>1, <3>2 DEF TaskFits, TypeOK, RequestTypes, Tasks, Closing
  <2> QED
    BY <2>1, <2>2, QuietInLog
<1>9. ASSUME NEW r \in Requests, BeginFails(r) PROVE UNCHANGED Log!log
  <2>1. /\ UNCHANGED <<owner, messages, question, chat>>
        /\ \A q \in Requests \ {r} : pc'[q] = pc[q]
    BY <1>9 DEF BeginFails, TypeOK, RequestTypes
  <2>2. Begun(r) /\ Exists(chat[r]) /\ Status(r) = "STREAMING" => Over(r)' = Over(r)
    BY <1>0, <1>9 DEF BeginFails, Sequenced, Truthful, Writing, Ending, Over, Subroutine,
       Closing, StatusOf, TaskFits, TypeOK, RequestTypes, Fault
  <2> QED
    BY <2>1, <2>2, QuietInLog
<1>10. ASSUME NEW r \in Requests, AppendLock(r) PROVE UNCHANGED Log!log
  <2>1. /\ UNCHANGED <<owner, messages, question, chat>>
        /\ \A q \in Requests \ {r} : pc'[q] = pc[q]
    BY <1>10 DEF AppendLock, TypeOK, RequestTypes
  <2>2. Begun(r) /\ Exists(chat[r]) /\ Status(r) = "STREAMING" => Over(r)' = Over(r)
    BY <1>0, <1>10 DEF AppendLock, Sequenced, Truthful, Writing, Ending, Over, Subroutine,
       Closing, StatusOf, TaskFits, TypeOK, RequestTypes, Fault
  <2> QED
    BY <2>1, <2>2, QuietInLog
<1>11. ASSUME NEW r \in Requests, AppendPut(r) PROVE UNCHANGED Log!log
  <2>1. /\ UNCHANGED <<owner, messages, question, chat>>
        /\ \A q \in Requests \ {r} : pc'[q] = pc[q]
    BY <1>11 DEF AppendPut, TypeOK, RequestTypes
  <2>2. Begun(r) /\ Exists(chat[r]) /\ Status(r) = "STREAMING" => Over(r)' = Over(r)
    BY <1>0, <1>11 DEF AppendPut, Sequenced, Truthful, Writing, Ending, Over, Subroutine,
       Closing, StatusOf, TaskFits, TypeOK, RequestTypes, Fault
  <2> QED
    BY <2>1, <2>2, QuietInLog
<1>12. ASSUME NEW r \in Requests, AppendUnlock(r) PROVE UNCHANGED Log!log
  <2>1. /\ UNCHANGED <<owner, messages, question, chat>>
        /\ \A q \in Requests \ {r} : pc'[q] = pc[q]
    BY <1>12 DEF AppendUnlock, TypeOK, RequestTypes
  <2>2. Begun(r) /\ Exists(chat[r]) /\ Status(r) = "STREAMING" => Over(r)' = Over(r)
    BY <1>0, <1>12 DEF AppendUnlock, Sequenced, Truthful, Writing, Ending, Over, Subroutine,
       Closing, StatusOf, TaskFits, TypeOK, RequestTypes, Fault
  <2> QED
    BY <2>1, <2>2, QuietInLog
<1>13. ASSUME NEW r \in Requests, BuildPrompt(r) PROVE UNCHANGED Log!log
  <2>1. /\ UNCHANGED <<owner, messages, question, chat>>
        /\ \A q \in Requests \ {r} : pc'[q] = pc[q]
    BY <1>13 DEF BuildPrompt, TypeOK, RequestTypes
  <2>2. Begun(r) /\ Exists(chat[r]) /\ Status(r) = "STREAMING" => Over(r)' = Over(r)
    BY <1>0, <1>13 DEF BuildPrompt, Sequenced, Truthful, Writing, Ending, Over, Subroutine,
       Closing, StatusOf, TaskFits, TypeOK, RequestTypes, Fault
  <2> QED
    BY <2>1, <2>2, QuietInLog
<1>14. ASSUME NEW r \in Requests, StreamReply(r) PROVE UNCHANGED Log!log
  <2>1. /\ UNCHANGED <<owner, messages, question, chat>>
        /\ \A q \in Requests \ {r} : pc'[q] = pc[q]
    BY <1>14 DEF StreamReply, TypeOK, RequestTypes
  <2>2. Begun(r) /\ Exists(chat[r]) /\ Status(r) = "STREAMING" => Over(r)' = Over(r)
    BY <1>0, <1>14 DEF StreamReply, Sequenced, Truthful, Writing, Ending, Over, Subroutine,
       Closing, StatusOf, TaskFits, TypeOK, RequestTypes, Fault
  <2> QED
    BY <2>1, <2>2, QuietInLog
<1>15. ASSUME NEW r \in Requests, CompleteFails(r) PROVE UNCHANGED Log!log
  <2>1. /\ UNCHANGED <<owner, messages, question, chat>>
        /\ \A q \in Requests \ {r} : pc'[q] = pc[q]
    BY <1>15 DEF CompleteFails, TypeOK, RequestTypes
  <2>2. Begun(r) /\ Exists(chat[r]) /\ Status(r) = "STREAMING" => Over(r)' = Over(r)
    BY <1>0, <1>15 DEF CompleteFails, Sequenced, Truthful, Writing, Ending, Over, Subroutine,
       Closing, StatusOf, TaskFits, TypeOK, RequestTypes, Fault
  <2> QED
    BY <2>1, <2>2, QuietInLog
<1>16. ASSUME NEW r \in Requests, RecordUsage(r) PROVE UNCHANGED Log!log
  <2>1. /\ UNCHANGED <<owner, messages, question, chat>>
        /\ \A q \in Requests \ {r} : pc'[q] = pc[q]
    BY <1>16 DEF RecordUsage, TypeOK, RequestTypes
  <2>2. Begun(r) /\ Exists(chat[r]) /\ Status(r) = "STREAMING" => Over(r)' = Over(r)
    BY <1>0, <1>16 DEF RecordUsage, Sequenced, Truthful, Writing, Ending, Over, Subroutine,
       Closing, StatusOf, TaskFits, TypeOK, RequestTypes, Fault
  <2> QED
    BY <2>1, <2>2, QuietInLog
<1>17. ASSUME NEW r \in Requests, EndTurnFails(r) PROVE UNCHANGED Log!log
  <2>1. /\ UNCHANGED <<owner, messages, question, chat>>
        /\ \A q \in Requests \ {r} : pc'[q] = pc[q]
    BY <1>17 DEF EndTurnFails, TypeOK, RequestTypes
  <2>2. Begun(r) /\ Exists(chat[r]) /\ Status(r) = "STREAMING" => Over(r)' = Over(r)
    BY <1>0, <1>17 DEF EndTurnFails, Sequenced, Truthful, Writing, Ending, Over, Subroutine,
       Closing, StatusOf, TaskFits, TypeOK, RequestTypes, Fault
  <2> QED
    BY <2>1, <2>2, QuietInLog
<1>18. ASSUME NEW r \in Requests, InvalidateOwn(r) PROVE UNCHANGED Log!log
  <2>1. /\ UNCHANGED <<owner, messages, question, chat>>
        /\ \A q \in Requests \ {r} : pc'[q] = pc[q]
    BY <1>18 DEF InvalidateOwn, TypeOK, RequestTypes
  <2>2. Begun(r) /\ Exists(chat[r]) /\ Status(r) = "STREAMING" => Over(r)' = Over(r)
    BY <1>0, <1>18 DEF InvalidateOwn, Sequenced, Truthful, Writing, Ending, Over, Subroutine,
       Closing, StatusOf, TaskFits, TypeOK, RequestTypes, Fault
  <2> QED
    BY <2>1, <2>2, QuietInLog
<1>19. ASSUME NEW r \in Requests, ReleaseChat(r) PROVE UNCHANGED Log!log
  <2>1. /\ UNCHANGED <<owner, messages, question, chat>>
        /\ \A q \in Requests \ {r} : pc'[q] = pc[q]
    BY <1>19 DEF ReleaseChat, TypeOK, RequestTypes
  <2>2. Begun(r) /\ Exists(chat[r]) /\ Status(r) = "STREAMING" => Over(r)' = Over(r)
    BY <1>0, <1>19 DEF ReleaseChat, Sequenced, Truthful, Writing, Ending, Over, Subroutine,
       Closing, StatusOf, TaskFits, TypeOK, RequestTypes, Fault
  <2> QED
    BY <2>1, <2>2, QuietInLog
<1>20. ASSUME NEW r \in Requests, ReleaseSlot(r) PROVE UNCHANGED Log!log
  <2>1. /\ UNCHANGED <<owner, messages, question, chat>>
        /\ \A q \in Requests \ {r} : pc'[q] = pc[q]
    BY <1>20 DEF ReleaseSlot, TypeOK, RequestTypes
  <2>2. Begun(r) /\ Exists(chat[r]) /\ Status(r) = "STREAMING" => Over(r)' = Over(r)
    BY <1>0, <1>20 DEF ReleaseSlot, Sequenced, Truthful, Writing, Ending, Over, Subroutine,
       Closing, StatusOf, TaskFits, TypeOK, RequestTypes, Fault, Forget
  <2> QED
    BY <2>1, <2>2, QuietInLog
<1>21. ASSUME NEW r \in Requests, Refuse(r) PROVE UNCHANGED Log!log
  <2>1. /\ UNCHANGED <<owner, messages, question, chat>>
        /\ \A q \in Requests \ {r} : pc'[q] = pc[q]
    BY <1>21 DEF Refuse, TypeOK, RequestTypes
  <2>2. Begun(r) /\ Exists(chat[r]) /\ Status(r) = "STREAMING" => Over(r)' = Over(r)
    BY <1>0, <1>21 DEF Refuse, Sequenced, Truthful, Writing, Ending, Over, Subroutine,
       Closing, StatusOf, TaskFits, TypeOK, RequestTypes, Fault
  <2> QED
    BY <2>1, <2>2, QuietInLog
<1>22. ASSUME NEW r \in Requests, Complete(r) PROVE Log!Close(r)
  <2>1. Open(r)
    BY <1>0, <1>22 DEF Complete, Open, Over, Sequenced, Faithful, Writing
  <2>2. SetReply(r, "COMPLETED") /\ \A q \in Requests \ {r} : pc'[q] = pc[q]
    BY <1>22 DEF Complete, TypeOK, RequestTypes
  <2> QED
    BY <1>22, <2>1, <2>2, CloseInLog DEF Complete, Turns, Log!Ended
<1>23. ASSUME NEW r \in Requests, EndTurn(r) PROVE Log!Close(r)
  <2>1. Open(r)
    BY <1>0, <1>23 DEF EndTurn, Open, Over, Sequenced, Faithful, Writing
  <2>2. PICK s \in Log!Ended : SetReply(r, s)
    BY <1>23 DEF EndTurn, Log!Ended
  <2>3. \A q \in Requests \ {r} : pc'[q] = pc[q]
    BY <1>23 DEF EndTurn, TypeOK, RequestTypes
  <2> QED
    BY <1>23, <2>1, <2>2, <2>3, CloseInLog DEF EndTurn, Turns
<1>24. ASSUME NEW r \in Requests, NEW c \in Chats, NEW p \in Principals, Start(r, c, p)
       PROVE  UNCHANGED Log!log
  <2>1. /\ \A q \in Requests : Begun(q)' = Begun(q)
        /\ ~Begun(r) /\ UNCHANGED <<owner, messages, question>>
        /\ \A q \in Requests \ {r} : Kept(q) /\ Over(q)' = Over(q) /\ chat'[q] = chat[q]
    BY <1>0, <1>24, KeptByStart DEF Start, Sequenced, Turns, Begun, Over, TypeOK, RequestTypes
  <2>2. \A q \in Requests \ {r} : RowOf(q)' = RowOf(q)
    BY <2>1, RowKept DEF Exists
  <2>3. RowOf(r)' = RowOf(r)
    BY <2>1 DEF RowOf
  <2> QED
    BY <2>1, <2>2, <2>3 DEF Log!log
<1>25. CASE \/ \E r \in Requests : Abort(r)
            \/ \E c \in Chats : \/ ExpireChatLock(c) \/ ExpireHistoryLock(c) \/ ExpireCache(c)
                                \/ Invalidate(c)
            \/ \E k \in SlotKeys : ExpireSlotLock(k)
            \/ UNCHANGED vars
  <2>1. UNCHANGED <<owner, messages, question, chat, pc>>
    BY <1>25 DEF Abort, ExpireChatLock, ExpireHistoryLock, ExpireCache, Invalidate, ExpireSlotLock,
       vars
  <2>2. \A q \in Requests : Kept(q) /\ RowOf(q)' = RowOf(q)
    BY <2>1, KeptByQuietStep DEF RowOf, Begun, Exists, ReplyRow, ReplyId, Over
  <2> QED
    BY <2>2, LogKept
<1>26. ASSUME NEW p \in Anonymous, NEW u \in Users, TransferChats(p, u)
       PROVE  UNCHANGED Log!log
  <2>1. UNCHANGED <<chat, question, pc>> /\ \A c \in Chats : Exists(c)' = Exists(c)
    BY <1>26, NoneAssumption DEF TransferChats, Exists, ChatsOf
  <2>2. \A q \in Requests : Kept(q) /\ Over(q)' = Over(q)
    BY <1>26, <2>1, KeptByOwnerStep DEF Turns, Over
  <2>3. \A q \in Requests : Begun(q) => Exists(chat[q])' = Exists(chat[q])
    BY <2>1 DEF Turns, OwnRows, Placed, Exists
  <2>4. \A q \in Requests : RowOf(q)' = RowOf(q)
    BY <2>2, <2>3, RowKept
  <2> QED
    BY <2>2, <2>4, LogKept
<1>27. \A r \in Requests : ~DbLoadFails(r)
  BY DEF DbLoadFails, Fault
<1> HIDE DEF Goto, database, place, turn
<1>28. CASE Environment
  <2>1. CASE \E c \in Chats : DeleteChat(c)
    BY <2>1, DropInLog DEF Log!Next
  <2>2. CASE Crash
    BY <2>2, AbandonInLog DEF Log!Next
  <2> QED
    BY <1>21, <1>24, <1>25, <1>26, <1>28, <2>1, <2>2 DEF Environment
<1>29. ASSUME NEW r \in Requests, Step(r) PROVE [Log!Next]_Log!log
  <2>1. CASE Begin(r)
    BY <2>1, OpenInLog DEF Log!Next
  <2>2. CASE Complete(r) \/ EndTurn(r)
    BY <1>22, <1>23, <2>2 DEF Log!Next
  <2> QED
    BY <1>1, <1>2, <1>3, <1>4, <1>5, <1>6, <1>7, <1>8, <1>9, <1>10, <1>11, <1>12, <1>13, <1>14,
       <1>15, <1>16, <1>17, <1>18, <1>19, <1>20, <1>27, <1>29, <2>1, <2>2 DEF Step
<1> QED
  BY <1>25, <1>28, <1>29 DEF Next

\* stream() writes the log of turns that the API promises: one open reply per chat,
\* ended once and for good unless its chat is deleted.
THEOREM WritesTheLog ==
  ASSUME {"db", "lapse"} \cap Faults = {}
  PROVE  Spec => Log!Safety
<1>1. "db" \notin Faults /\ "lapse" \notin Faults
  OBVIOUS
<1>2. Init => Log!Init
  BY DEF Init, InitAfter, Log!Init, RowOf, Begun
<1>3. TypeOK /\ Held /\ Turns /\ Told /\ [Next]_vars => [Log!Next]_Log!log
  BY StepInLog
<1>4. Spec => [](TypeOK /\ Held)
  BY <1>1, LocksHeld
<1>5. Spec => []Told
  BY <1>1, TruthHolds
<1> QED
  BY <1>2, <1>3, <1>4, <1>5, TurnsHold, PTL DEF Spec, Log!Safety
=============================================================================
