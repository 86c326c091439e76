----------------------------- MODULE AdminSummary -----------------------------
(***************************************************************************)
(* An administrator's summary of one chat: GET and POST of                 *)
(* /admin/chats/:id/summary, and the cards (browsers) that call them.      *)
(*                                                                         *)
(* The chat's completed messages are the numbers 1..count, in order.  What *)
(* a summary says is the set of the messages it covers.  A card has at     *)
(* most one GET and one POST in flight; each is a request of the server,   *)
(* and so is a POST of a browser whose card is not followed further.       *)
(***************************************************************************)
EXTENDS Naturals, FiniteSets

CONSTANTS Cards,        \* summary cards, each in a browser of its own
          Others,       \* other browsers; bound: each POSTs once
          MaxMessages,  \* bound: messages the chat ever holds
          MaxFaults     \* bound: calls that fail, leases that lapse, crashes

BoundsAssumption == MaxMessages \in Nat \ {0} /\ MaxFaults \in Nat

Get(c) == <<c, "get">>
Post(c) == <<c, "post">>
Gets == Cards \X {"get"}
Posts == (Cards \cup Others) \X {"post"}
Requests == Gets \cup Posts
Messages == 1 .. MaxMessages
Summary == [covers : SUBSET Messages, through : 0 .. MaxMessages]
NoSummary == [covers |-> {}, through |-> 0]
Unread == MaxMessages + 1
UnreadSummary == [covers |-> {}, through |-> Unread]
Nobody == <<>>

VARIABLES
  count, exists,   \* the chat: its completed messages, and whether it is there
  summary,         \* its AdminChatSummary row
  lock,            \* the request whose token holds the Redis lock, or Nobody
  req,             \* req[q]: where request q stands, its locals and its response
  card,            \* card[c]: the hook's state in browser c
  faults,          \* faults so far
  overlapped       \* a lease lapsed under a running refresh (history variable)

chat == <<count, exists, summary>>
history == <<faults, overlapped>>
summaryVars == <<chat, lock, req, card, history>>

NoState == [through |-> 0, pending |-> Unread, generating |-> FALSE]
\* count and summary: what loadState has read; draft: the text being generated.
Idle == [at |-> "none", count |-> Unread, summary |-> UnreadSummary, draft |-> NoSummary,
         out |-> "none", state |-> NoState]
Closed == [Idle EXCEPT !.at = "closed"]
Open(c) == req[Post(c)] = Idle
\* attempted: the pair last refreshed for; over: data came after the conflict.
NewCard == [view |-> NoState, failed |-> FALSE, conflict |-> FALSE, over |-> FALSE,
            attempted |-> {}, mutation |-> "idle"]

Init ==
  /\ count \in 0 .. 1 /\ exists = TRUE /\ summary = NoSummary /\ lock = Nobody
  /\ \E closed \in SUBSET (Cards \cup Others) :
       req = [q \in Requests |-> IF q[1] \in closed THEN Closed ELSE Idle]
  /\ card = [c \in Cards |-> NewCard]
  /\ faults \in 0 .. MaxFaults /\ overlapped = FALSE

Running(q) == req[q].at \notin {"none", "closed", "answer"}
Goto(q, s) == req' = [req EXCEPT ![q].at = s]
\* What is left for a request to do, its locals gone: release the lock, or answer.
End(q, s, out, state) ==
  req' = [req EXCEPT ![q] = [Idle EXCEPT !.at = s, !.out = out, !.state = state]]
Fault == faults < MaxFaults /\ faults' = faults + 1 /\ UNCHANGED overlapped

-----------------------------------------------------------------------------
(* AdminChatSummaryService                                                 *)

AssertChatExists(q) ==
  /\ req[q].at = "exists"
  /\ IF ~exists THEN End(q, "answer", "notFound", NoState)
     ELSE Goto(q, IF q \in Gets THEN "peek" ELSE "acquire")
  /\ UNCHANGED <<chat, lock, card, history>>

\* getSummary asks Redis for the lock before it reads the database.
Peek(q) ==
  /\ req[q].at = "peek"
  /\ req' = [req EXCEPT ![q].state.generating = lock # Nobody, ![q].at = "load"]
  /\ UNCHANGED <<chat, lock, card, history>>

\* SET NX.  (..Overwriting: without NX.)
MayAcquireOverwriting(q) == TRUE
MayAcquire(q) == lock = Nobody

Acquire(q) ==
  /\ req[q].at = "acquire"
  /\ \/ MayAcquire(q) /\ lock' = q /\ Goto(q, "load")
     \/ ~MayAcquire(q) /\ UNCHANGED lock /\ End(q, "answer", "inProgress", NoState)
  /\ UNCHANGED <<chat, card, history>>

\* getSummary changes nothing: the two reads of its loadState are one step, so that a card's
\* state is as one instant had it; between them a turn or a refresh could come.
Look(q) ==
  /\ req[q].at = "load" /\ q \in Gets
  /\ End(q, "answer", "state",
         [through |-> summary.through, pending |-> count - summary.through,
          generating |-> req[q].state.generating])
  /\ UNCHANGED <<chat, lock, card, history>>

\* refreshSummary: the two reads of the Promise.all of loadState, in either order.
ReadMessages(q) ==
  /\ req[q].at \in {"load", "reload"} /\ q \in Posts /\ req[q].count = Unread
  /\ req' = [req EXCEPT ![q].count = count]
  /\ UNCHANGED <<chat, lock, card, history>>

ReadSummary(q) ==
  /\ req[q].at = "load" /\ q \in Posts /\ req[q].summary = UnreadSummary
  /\ req' = [req EXCEPT ![q].summary = summary]
  /\ UNCHANGED <<chat, lock, card, history>>

Loaded(q) == /\ req[q].at \in {"load", "reload"}
             /\ req[q].count # Unread /\ req[q].summary # UnreadSummary

\* entriesAfter: the messages after the anchor, or all when it is not among them.
AnchorSeen(q) == req[q].summary.through \in 1 .. req[q].count
Pending(q) == (IF AnchorSeen(q) THEN req[q].summary.through + 1 ELSE 1) .. req[q].count
StateOf(q) == [through |-> req[q].summary.through,
               pending |-> Cardinality(Pending(q)), generating |-> FALSE]

Present(q) ==
  /\ Loaded(q)
  /\ Pending(q) = {} \/ req[q].at = "reload"
  /\ End(q, "release", "state", StateOf(q))
  /\ UNCHANGED <<chat, lock, card, history>>

Previous(q) == IF AnchorSeen(q) THEN req[q].summary ELSE NoSummary

Generate(q) ==
  /\ Loaded(q) /\ req[q].at = "load"
  /\ Pending(q) # {}
  /\ req' = [req EXCEPT ![q].draft = Previous(q), ![q].summary = UnreadSummary,
                        ![q].at = "generate"]
  /\ UNCHANGED <<chat, lock, card, history>>

\* One chunk: a completion, its usage row, and the text that replaces the draft.
Complete(q) ==
  /\ req[q].at = "generate"
  /\ \E last \in req[q].draft.through + 1 .. req[q].count :
       req' = [req EXCEPT
         ![q].draft = [covers |-> @.covers \cup (@.through + 1 .. last), through |-> last],
         ![q].at = IF last = req[q].count THEN "save" ELSE "generate"]
  /\ UNCHANGED <<chat, lock, card, history>>

\* The row.  (..Newest: anchored at the newest message instead of the last one read.)
SavedNewest(q) == [req[q].draft EXCEPT !.through = count]
Saved(q) == req[q].draft

Save(q) ==
  /\ req[q].at = "save"
  /\ IF exists
     THEN /\ summary' = Saved(q)
          /\ req' = [req EXCEPT ![q] = [Idle EXCEPT !.at = "reload", !.summary = summary']]
     ELSE /\ End(q, "release", "notFound", NoState)
          /\ UNCHANGED summary
  /\ UNCHANGED <<count, exists, lock, card, history>>

\* deleteIfValueMatches, in the finally block.
Freed(q) == IF lock = q THEN Nobody ELSE lock
Release(q) ==
  /\ req[q].at = "release"
  /\ lock' = Freed(q)
  /\ Goto(q, "answer")
  /\ UNCHANGED <<chat, card, history>>

\* A call fails: PostgreSQL, Redis (whether or not the command was executed), the model,
\* or the check of its text.  The finally block follows a failure under the lock; a
\* release that throws replaces the response, and leaves the lease to run out.
UnderLock(q) == q \in Posts /\ req[q].at \in {"load", "generate", "save", "reload"}
CallFails(q) ==
  /\ Running(q) /\ Fault
  /\ End(q, IF UnderLock(q) THEN "release" ELSE "answer", "failed", NoState)
  /\ \/ UNCHANGED lock
     \/ req[q].at = "acquire" /\ lock = Nobody /\ lock' = q
     \/ req[q].at = "release" /\ lock' = Freed(q)
  /\ UNCHANGED <<chat, card>>

Crash ==
  /\ Fault /\ \E q \in Requests : Running(q)
  /\ req' = [q \in Requests |->
       IF Running(q) THEN [Idle EXCEPT !.at = "answer", !.out = "failed"] ELSE req[q]]
  /\ UNCHANGED <<chat, lock, card>>

\* The lease of a request that is gone runs out; its heartbeat is gone too.
Expire ==
  /\ lock # Nobody /\ ~Running(lock)
  /\ lock' = Nobody
  /\ UNCHANGED <<chat, req, card, history>>

\* A lease runs out under its request; the heartbeat only logs that.
Lapse ==
  /\ lock # Nobody /\ Running(lock) /\ faults < MaxFaults
  /\ faults' = faults + 1 /\ overlapped' = TRUE
  /\ lock' = Nobody
  /\ UNCHANGED <<chat, req, card>>

-----------------------------------------------------------------------------
(* The chat, as its owner uses it                                          *)

TurnCompletes ==
  /\ exists /\ count < MaxMessages
  /\ count' = count + 1
  /\ UNCHANGED <<exists, summary, lock, req, card, history>>

DeleteChat ==
  /\ exists /\ exists' = FALSE /\ count' = 0 /\ summary' = NoSummary
  /\ UNCHANGED <<lock, req, card, history>>

-----------------------------------------------------------------------------
(* useChatSummary                                                          *)

Begin(q) == /\ req[q] = Idle
            /\ req' = [req EXCEPT ![q].at = "exists"]
Browse == UNCHANGED <<chat, lock, history>>

Stale(c) == card[c].view # NoState /\ card[c].view.pending > 0
Pair(c) == {<<card[c].view.through, card[c].view.pending>>}

\* refetchInterval, or the query's first fetch.
Polling(c) == card[c].view.generating \/ card[c].conflict
Poll(c) ==
  /\ Polling(c) \/ (card[c].view = NoState /\ ~card[c].failed)
  /\ Begin(Get(c))
  /\ UNCHANGED card /\ Browse

\* The window gets the focus, or the administrator comes back to the page.
Refetch(c) ==
  /\ card[c].view # NoState /\ ~Polling(c)
  /\ Begin(Get(c))
  /\ UNCHANGED card /\ Browse

Answered(q) == req[q].at = "answer"

GetAnswered(c) ==
  LET q == Get(c) IN
  /\ Answered(q)
  /\ req' = [req EXCEPT ![q] = Idle]
  /\ card' = [card EXCEPT ![c] =
       IF req[q].out = "state"
       THEN [@ EXCEPT !.view = req[q].state, !.failed = FALSE,
                      !.over = card[c].over \/ card[c].conflict]
       ELSE [@ EXCEPT !.failed = TRUE]]
  /\ Browse

\* onSuccess cancels the GET in flight, so that it cannot overwrite the result.
PostSucceeded(c) ==
  LET q == Post(c) IN
  /\ Answered(q) /\ req[q].out = "state"
  /\ req' = [req EXCEPT ![q] = Idle, ![Get(c)] = Idle]
  /\ card' = [card EXCEPT ![c] = [@ EXCEPT
       !.view = req[q].state, !.failed = FALSE, !.over = card[c].over \/ card[c].conflict,
       !.mutation = "idle"]]
  /\ Browse

\* onError.  (..Kept: the attempt stays on record.)
AfterConflictKept(c) == card[c].attempted
AfterConflict(c) == {}

PostConflicted(c) ==
  LET q == Post(c) IN
  /\ Answered(q) /\ req[q].out = "inProgress"
  /\ req' = [req EXCEPT ![q] = Idle]
  /\ card' = [card EXCEPT ![c] = [@ EXCEPT
       !.attempted = AfterConflict(c), !.conflict = TRUE, !.over = FALSE,
       !.mutation = "idle"]]
  /\ Browse

PostFailed(c) ==
  LET q == Post(c) IN
  /\ Answered(q) /\ req[q].out \in {"failed", "notFound"}
  /\ req' = [req EXCEPT ![q] = Idle]
  /\ card' = [card EXCEPT ![c].mutation = "error"]
  /\ Browse

\* The first effect: data that came after the conflict and shows no generation.
EndConflict(c) ==
  /\ card[c].conflict /\ card[c].over /\ ~card[c].view.generating
  /\ card' = [card EXCEPT ![c].conflict = FALSE, ![c].over = FALSE]
  /\ UNCHANGED req /\ Browse

\* mutate().  It drops the card's last error.
Mutate(c) ==
  /\ Begin(Post(c))
  /\ card' = [card EXCEPT ![c] = [@ EXCEPT
       !.conflict = FALSE, !.over = FALSE, !.mutation = "pending", !.attempted = Pair(c)]]
  /\ Browse

\* The second effect.
AutoRefresh(c) ==
  /\ Stale(c) /\ ~card[c].view.generating /\ ~card[c].conflict
  /\ card[c].mutation # "pending" /\ card[c].attempted # Pair(c)
  /\ Mutate(c)

ShowsError(c) == card[c].failed \/ card[c].mutation = "error"

\* The Retry button is there only beside an error.
Retry(c) ==
  /\ ShowsError(c) /\ card[c].mutation # "pending"
  /\ \/ card[c].view # NoState /\ Mutate(c)
     \/ card[c].view = NoState /\ Begin(Get(c)) /\ UNCHANGED card /\ Browse

\* The POSTs of other browsers.
OtherPosts(c) == Begin(Post(c)) /\ UNCHANGED card /\ Browse
OtherAnswered(c) ==
  /\ Answered(Post(c))
  /\ req' = [req EXCEPT ![Post(c)] = Closed]
  /\ UNCHANGED card /\ Browse

-----------------------------------------------------------------------------
Serve(q) ==
  \/ AssertChatExists(q) \/ Peek(q) \/ Look(q) \/ Acquire(q) \/ ReadMessages(q) \/ ReadSummary(q)
  \/ Present(q) \/ Generate(q) \/ Complete(q) \/ Save(q) \/ Release(q)

PostAnswered(c) == PostSucceeded(c) \/ PostConflicted(c) \/ PostFailed(c)

Next ==
  \/ \E q \in Requests : Serve(q) \/ CallFails(q)
  \/ \E c \in Cards :
       \/ Poll(c) \/ Refetch(c) \/ GetAnswered(c) \/ PostAnswered(c)
       \/ EndConflict(c) \/ AutoRefresh(c) \/ Retry(c)
  \/ \E c \in Others : OtherPosts(c) \/ OtherAnswered(c)
  \/ Crash \/ Expire \/ Lapse \/ TurnCompletes \/ DeleteChat

\* Requests are served, timers and effects run, and a dead request's lease runs out.
Fairness ==
  /\ \A q \in Requests : WF_summaryVars(Serve(q))
  /\ \A c \in Cards :
       /\ WF_summaryVars(Poll(c)) /\ WF_summaryVars(GetAnswered(c))
       /\ WF_summaryVars(PostAnswered(c))
       /\ WF_summaryVars(EndConflict(c)) /\ WF_summaryVars(AutoRefresh(c))
  /\ WF_summaryVars(Expire)

Spec == Init /\ [][Next]_summaryVars
FairSpec == Spec /\ Fairness

-----------------------------------------------------------------------------
(* Properties                                                              *)

State == [through : 0 .. MaxMessages, pending : 0 .. Unread, generating : BOOLEAN]

TypeOK ==
  /\ count \in 0 .. MaxMessages /\ exists \in BOOLEAN /\ summary \in Summary
  /\ lock \in Posts \cup {Nobody}
  /\ req \in [Requests ->
       [at : {"none", "closed", "exists", "peek", "acquire", "load", "generate", "save", "reload",
              "release", "answer"},
        count : 0 .. Unread, summary : Summary \cup {UnreadSummary}, draft : Summary,
        out : {"none", "state", "inProgress", "failed", "notFound"}, state : State]]
  /\ card \in [Cards ->
       [view : State, failed : BOOLEAN, conflict : BOOLEAN, over : BOOLEAN,
        attempted : SUBSET ((0 .. MaxMessages) \X (0 .. Unread)),
        mutation : {"idle", "pending", "error"}]]
  /\ faults \in 0 .. MaxFaults /\ overlapped \in BOOLEAN

\* The stored text covers exactly the messages up to its anchor, whatever fails, dies or
\* lapses under the refreshes that wrote it; a later refresh starts behind the anchor and
\* would never make up for a message left out.
CoversThroughAnchor == summary.covers = 1 .. summary.through

\* No message is sent to the model again once a stored summary covers it (each completion
\* is billed), also when the release of the lock hid a saved summary from its caller;
\* unless a lease lapsed.
NothingBilledTwice ==
  \A q \in Posts :
    req[q].at = "generate" /\ exists /\ ~overlapped
      => summary.covers \cap (req[q].draft.through + 1 .. req[q].count) = {}

\* A card never rests on a stale summary without an error to retry from: a conflict, a
\* lost answer and a crash each end in a summary that is up to date or an error.  (Unless
\* a lease lapsed.)
Settled(c) ==
  \/ ShowsError(c)
  \/ ~Polling(c) /\ card[c].mutation # "pending" /\ card[c].view # NoState /\ ~Stale(c)
Unsettled(c) ==
  /\ ~Settled(c) /\ req[Get(c)] # Closed
  /\ ~overlapped
CardsSettle == \A c \in Cards : []<>~Unsettled(c)
=============================================================================
