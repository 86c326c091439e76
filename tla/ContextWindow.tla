---------------------------- MODULE ContextWindow ----------------------------
(***************************************************************************)
(* ContextWindowService.buildPrompt for one chat: when a prompt outgrows   *)
(* the model's context, the oldest turns are folded into the chat's        *)
(* summary; what still does not fit is dropped.  Requests follow each      *)
(* other (ChatStream!OneGenerationPerChat) and may each use another model. *)
(*                                                                         *)
(* A message is its role and its tokens, and an estimate is exact; that    *)
(* Ollama counts otherwise shows in the usage it reports.  An index i into *)
(* the history stands for the place behind its i-th entry: a summary       *)
(* through i covers the entries 1 .. i, a prompt from i sends the others.  *)
(***************************************************************************)
EXTENDS Integers, Sequences, FiniteSetsExt

CONSTANTS
  Contexts,          \* max_context of the models on offer
  SummarizeAt, TargetAt, SummaryMax,   \* the ratios of the settings, in percent
  RequestOverhead,   \* SUMMARY_PROMPT_OVERHEAD_TOKENS
  NotesOverhead,     \* tokens a summary has in a prompt beside its own
  KeepRecent,
  Prompts, Replies,  \* tokens a user's message and a reply may have
  Undershoot,        \* how far an estimate may lie below what Ollama reports
  MaxEntries         \* bound on the history

ASSUME SizesAssumption ==
  /\ Contexts \subseteq Nat /\ Prompts \cup Replies \subseteq Nat \ {0}
  /\ {RequestOverhead, NotesOverhead, KeepRecent, Undershoot} \subseteq Nat
  /\ MaxEntries \in Nat \ {0}
ASSUME RatiosAssumption ==
  /\ {SummarizeAt, TargetAt, SummaryMax} \subseteq 1 .. 99
  /\ TargetAt < SummarizeAt /\ SummaryMax < 50

\* What the settings leave room for, as their defaults do: the longest summary beside the
\* longest prompt, and beside a rest that was folded to the target.
RoomForNotes ==
  \A context \in Contexts :
    LET trigger == (context * SummarizeAt) \div 100
        target == (context * TargetAt) \div 100
        notes == (context * SummaryMax) \div 100 + NotesOverhead
    IN notes + trigger <= context /\ target + NotesOverhead <= trigger

VARIABLES
  history,   \* the completed messages, oldest first
  reported,  \* prompt and completion tokens of the last completed reply, 0: unknown
  saved,     \* the conversation_summary row
  phase,     \* what the request is doing, or "idle" between requests
  model,     \* max_context of its model
  message,   \* tokens of its new message
  goal,      \* where the fold ends
  draft,     \* the summary it writes, then the one it sends
  from       \* the entries behind this are sent

vars == <<history, reported, saved, phase, model, message, goal, draft, from>>

\* (..Bare: without MESSAGE_OVERHEAD_TOKENS.)
EntryBare(role, cost) == [role |-> role, cost |-> cost - 1]
Entry(role, cost) == [role |-> role, cost |-> cost]
Places == 0 .. Len(history)

\* A summary covers the entries through its anchor.  taken[i] is how often entry i
\* was among those the notes were taken on (a history variable).
NoSummary == [through |-> 0, cost |-> 0, taken |-> [i \in 1 .. MaxEntries |-> 0]]

Trigger == (model * SummarizeAt) \div 100
Target == (model * TargetAt) \div 100
NotesMax == (model * SummaryMax) \div 100
ChunkTokens == Max({1, model - 2 * NotesMax - RequestOverhead})

\* The tokens of the entries up to a place, and of those between two places.
TokensThrough ==
  LET sum[i \in Places] == IF i = 0 THEN 0 ELSE sum[i - 1] + history[i].cost
  IN sum
Tokens(first, last) == TokensThrough[last] - TokensThrough[first]
NotesTokens(notes) == IF notes.through = 0 THEN 0 ELSE notes.cost + NotesOverhead

\* estimatePromptTokens
PromptTokens(notes, place) ==
  NotesTokens(notes) + Tokens(place, Len(history)) + message

IsTurnBoundary(place) == place = Len(history) \/ history[place + 1].role = "user"

-----------------------------------------------------------------------------
\* A chat may have been created with its first prompt.
Init ==
  /\ history \in {<<>>} \cup {<<Entry("user", cost)>> : cost \in Prompts}
  /\ reported = 0
  /\ saved = NoSummary /\ draft = NoSummary
  /\ phase = "idle"
  /\ model \in Contexts /\ message = 0
  /\ goal = 0 /\ from = 0

\* assertContentFits.  (..Always: not checked.)
ContentFitsAlways == TRUE
ContentFits == message' <= (model' * SummarizeAt) \div 100

Ask ==
  /\ phase = "idle" /\ Len(history) + 2 <= MaxEntries
  /\ phase' = "build"
  /\ model' \in Contexts /\ message' \in Prompts
  /\ ContentFits
  /\ UNCHANGED <<history, reported, saved, goal, draft, from>>

\* The estimate may undershoot: what Ollama reported of the last reply counts too.
NeedsSummarization ==
  \/ PromptTokens(saved, saved.through) > Trigger
  \/ reported + message > Trigger

\* selectTurnsToFold: the first boundary behind which the rest fits the target, or
\* the last one.  (..BareRest: without the summary in the rest.)
Foldable == {i \in saved.through + 1 .. Len(history) - KeepRecent : IsTurnBoundary(i)}
RestFits(place) == NotesMax + Tokens(place, Len(history)) + message <= Target
BareRestFits(place) == Tokens(place, Len(history)) + message <= Target
TurnsToFoldBareRest(place) ==
  /\ place \in Foldable
  /\ \A i \in Foldable : i < place => ~BareRestFits(i)
  /\ BareRestFits(place) \/ \A i \in Foldable : i <= place
TurnsToFold(place) ==
  /\ place \in Foldable
  /\ \A i \in Foldable : i < place => ~RestFits(i)
  /\ RestFits(place) \/ \A i \in Foldable : i <= place

StartFolding ==
  /\ phase = "build" /\ NeedsSummarization
  /\ \E place \in Foldable : TurnsToFold(place) /\ goal' = place
  /\ phase' = "fold" /\ draft' = saved
  /\ UNCHANGED <<history, reported, saved, model, message, from>>

\* chunkEntries: as many entries as fit, and one at least.
\* (..Fitting: even when that one does not fit.)
IsChunkFitting(first, last) ==
  /\ Tokens(first, last) <= ChunkTokens
  /\ last = goal \/ Tokens(first, last + 1) > ChunkTokens
IsChunk(first, last) ==
  /\ last = first + 1 \/ Tokens(first, last) <= ChunkTokens
  /\ last = goal \/ Tokens(first, last + 1) > ChunkTokens

\* (..Restarting: each chunk's notes replace the earlier ones.)
TakenOnRestarting(first, last) ==
  [i \in 1 .. MaxEntries |-> IF i \in first + 1 .. last THEN 1 ELSE 0]
TakenOn(first, last) ==
  [i \in 1 .. MaxEntries |-> draft.taken[i] + IF i \in first + 1 .. last THEN 1 ELSE 0]

\* One completion: the notes so far and the next chunk give new notes.
TakeNotes ==
  /\ phase = "fold" /\ draft.through < goal
  /\ \E last \in draft.through + 1 .. goal :
       /\ IsChunk(draft.through, last)
       /\ \E cost \in 1 .. NotesMax :
            draft' = [through |-> last, cost |-> cost, taken |-> TakenOn(draft.through, last)]
  /\ UNCHANGED <<history, reported, saved, phase, model, message, goal, from>>

\* dropOldestTurns: whole turns, from the oldest, until the prompt fits.
\* (..ByEntry: single entries.)
NextBoundary(place) ==
  CHOOSE i \in Places : /\ i > place /\ IsTurnBoundary(i)
                        /\ \A j \in Places : (j > place /\ IsTurnBoundary(j)) => i <= j
DropOldestTurnsByEntry(notes) ==
  LET drop[place \in Places] ==
        IF place < Len(history) /\ PromptTokens(notes, place) > Trigger
          THEN drop[place + 1] ELSE place
  IN drop[notes.through]
DropOldestTurns(notes) ==
  LET drop[place \in Places] ==
        IF place < Len(history) /\ PromptTokens(notes, place) > Trigger
          THEN drop[NextBoundary(place)] ELSE place
  IN drop[notes.through]

Send(notes) ==
  /\ draft' = notes /\ from' = DropOldestTurns(notes)
  /\ phase' = "reply"
  /\ UNCHANGED <<history, reported, model, message>>

\* Nothing to fold, or no need to.
SendUnfolded ==
  /\ phase = "build"
  /\ ~NeedsSummarization \/ Foldable = {}
  /\ goal' = saved.through
  /\ Send(saved) /\ UNCHANGED saved

\* The upsert, after the last chunk.
SendFolded ==
  /\ phase = "fold" /\ draft.through = goal
  /\ saved' = draft
  /\ Send(draft) /\ UNCHANGED goal

\* A completion or the upsert failed, or the notes were empty: "dropping oldest turns".
SendDespiteFailure ==
  /\ phase = "fold"
  /\ Send(saved) /\ UNCHANGED <<saved, goal>>

\* The reply completes, and Ollama reports its usage, or does not ...
Complete ==
  /\ phase = "reply" /\ phase' = "idle"
  /\ \E cost \in Replies :
       /\ history' = history \o <<Entry("user", message), Entry("assistant", cost)>>
       /\ LET estimate == PromptTokens(draft, from) + cost
          IN reported' \in {0, estimate, estimate + Undershoot}
  /\ UNCHANGED <<saved, model, message, goal, draft, from>>

\* ... or the turn fails, is cancelled, or dies: it is not part of the history.
EndTurn ==
  /\ phase # "idle" /\ phase' = "idle"
  /\ UNCHANGED <<history, reported, saved, model, message, goal, draft, from>>

-----------------------------------------------------------------------------
Next ==
  \/ Ask \/ StartFolding \/ TakeNotes
  \/ SendUnfolded \/ SendFolded \/ SendDespiteFailure
  \/ Complete \/ EndTurn

Spec == Init /\ [][Next]_vars

\* Every completion is answered, or ended by a timer.
FairSpec == Spec /\ WF_vars(TakeNotes \/ SendFolded)

-----------------------------------------------------------------------------
(* Properties                                                              *)

Summaries == [through : Nat, cost : Nat, taken : [1 .. MaxEntries -> Nat]]

\* Every variable stays within its type, and places lie within the history.
TypeOK ==
  /\ history \in Seq([role : {"user", "assistant"}, cost : Prompts \cup Replies])
  /\ Len(history) <= MaxEntries
  /\ reported \in Nat /\ message \in Nat
  /\ phase \in {"idle", "build", "fold", "reply"}
  /\ model \in Contexts
  /\ saved \in Summaries /\ draft \in Summaries
  /\ {saved.through, draft.through, goal, from} \subseteq Places

\* Whatever failed, was cancelled or died on the way: the summary that is stored was
\* taken on the entries up to its anchor, on each of them once, and on nothing
\* else, and its anchor ends a turn.
SummaryCoversPrefix ==
  /\ \A i \in 1 .. MaxEntries : saved.taken[i] = IF i <= saved.through THEN 1 ELSE 0
  /\ saved.through > 0 => IsTurnBoundary(saved.through)

\* What a prompt leaves out although no summary covers it are whole turns, the
\* oldest, and no more of them than needed; and it fits unless it has no turns left.
DropsLeast ==
  phase = "reply" =>
    /\ from = draft.through \/ IsTurnBoundary(from)
    /\ \A place \in draft.through .. from - 1 :
         IsTurnBoundary(place) => PromptTokens(draft, place) > Trigger
    /\ PromptTokens(draft, from) <= Trigger \/ from = Len(history)

\* Folding spares the user the loss of turns: when the target can be met without the
\* recent messages, the summary that was written fits and nothing is dropped.
FoldingSavesTurns ==
  (/\ phase = "reply" /\ draft.through = goal /\ draft.cost <= NotesMax
   /\ \E i \in Places : i <= Len(history) - KeepRecent /\ IsTurnBoundary(i) /\ RestFits(i))
    => from = goal

\* "A prompt never exceeds max_context" - but for a summary that was written for a
\* model with a larger context than the one the chat has been switched to.
OverflowOnlyAfterSwitch ==
  (phase = "reply" /\ draft.cost <= NotesMax) => PromptTokens(draft, from) <= model

\* What a prompt leaves out, keeps and costs.
WindowFits == DropsLeast /\ FoldingSavesTurns /\ OverflowOnlyAfterSwitch

\* Folding comes to its end: no chunk is empty, not even when an entry exceeds it.
FoldingEnds == []<>(phase # "fold")
=============================================================================
