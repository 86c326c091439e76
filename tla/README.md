# Verification of the local-LLM chat application

This directory holds TLA+ models of the API of this repository (`src/apps/api`) and of the stateful
parts of its two web clients (`src/apps/web`, `src/apps/admin`, `src/packages/api-client`), the TLC
configurations that check them, and theorems about them proved with TLAPS. The models are
written from the code; where a document of the repository and the code disagree, the model
follows the code.

## The system

Users and anonymous visitors chat with a local language model. A NestJS API (any number of
replicas) keeps chats, messages, sessions and usage in PostgreSQL, keeps locks and a history
cache in Redis, and calls Ollama; a web client and an administrators' client talk to it.

| component | state | operations | what makes it correct |
| --- | --- | --- | --- |
| message streaming (`chats/chat-stream.service.ts`) | message rows, usage row, closing event | `stream`, the controller's abort | a turn is appended once, ended once, billed iff completed, and the client is told what the row says |
| Redis locks (`redis/redis-lock.service.ts`) | one key per chat, per principal and slot, per chat history, with a TTL | `acquire`, `extend`, `release` | exclusion, the slot limit, no release of a foreign lock, no lock for ever; the heartbeat keeps a lease that is long enough |
| history cache (`redis/chat-history.service.ts`) | one key per chat | `getHistory`, `append`, `refresh`, `invalidate` | what it returns is what PostgreSQL would give |
| chats (`chats/chats.repository.ts`, `chats.service.ts`) | chat rows | create, list, rename, archive, delete, `beginGeneration`, `completeGeneration`, `endGeneration` | a chat's rows stay pairs of a prompt and a reply; paging shows each once |
| login sessions (`auth/auth.service.ts`, `auth.repository.ts`) | `auth_session` rows, chained by `replaced_by_session_id` | sign-in, refresh, sign-out, sign-out-all, list and revoke devices | single use of refresh tokens, one live session per login, revocation of a family |
| anonymous sessions (`anonymous-sessions/`, `request-principal.middleware.ts`) | `anonymous_session` rows, a cookie | resolve, create on first use, touch, expire | no chat of a visitor is lost to its browser |
| ownership transfer (`auth.repository.ts`, `usage/`) | owner columns | sign-in of an anonymous visitor | nothing the visitor had is lost or left without an owner |
| context window (`chats/context-window.service.ts`) | conversation summary row | `buildPrompt` | the prompt fits; only the oldest whole turns are folded or dropped |
| usage log (`usage/`) | usage rows | record, reassign, report | reports agree with each other and with the log |
| model registry (`models/`) | availability, the default flag | update, set default, seed | exactly one default, which is available |
| admin chat summary (`admin/chats/admin-chat-summary.service.ts`) | summary row, a lock | refresh, read | the summary covers a prefix of the chat; no message is billed twice |
| admin authentication (`admin/auth/`) | admin session rows | sign-in, refresh, sign-out | single use of refresh tokens, also by the calls of one browser |
| Ollama client (`ollama/`) | four timers and a stream | `streamChat`, completions, `listModels` | ends in exactly one of final frame, timeout, abort, error |
| web chat (`web/src/features/chat/`) | pending state, abort controller, draft, scroll position, sidebar | send, cancel, unmount, read, rename, delete | the state belongs to the send, and to the chat, that is shown |
| login in the browser (`use-auth.ts`, `http.ts`, `account-page.tsx`) | cookies, each tab's query | 401 and refresh, CSRF token, devices | the tabs come to show who is signed in |
| administrators' pages (`admin/src/features/`) | address, text boxes, lists | search, edit a model's context, refresh a summary | at rest a page shows what its address says and the server stores |

The components meet in these places. A stream request takes a slot of its principal, then the
chat's lock, reads the history (Redis, else PostgreSQL), writes rows, generates, and refreshes
the cache, while a heartbeat extends both locks. Deleting a chat and signing in from an
anonymous session write the rows of chats **without** the chat's lock and then drop cache
keys. A usage row is written between a reply's completion and the refresh, and takes its owner
from the chat. The context window calls Ollama in the middle of a generation. The tabs of a browser
share its cookies, and so the sessions that one of them rotates or revokes.

What is hard about it: every `await` lets another request, or another replica, run; each of
the three stores may fail between two steps; the process may die with rows, cache and locks
half way; leases lapse; PostgreSQL runs at READ COMMITTED, so a statement sees what was
committed when it began; answers reach a browser late, and its effects, queries and mutations act on
what the last render saw. `PROJECT.json` lists each such hazard at its line.

## Modules

| module | models |
| --- | --- |
| `ChatStream` | streaming, locks, history cache, and deletion, transfer, expiry and crashes beside them |
| `TurnLog` | abstract specification: what the API promises of the replies of its chats |
| `ChatStreamLog` | the refinement mapping from `ChatStream` to `TurnLog` |
| `LockLease` | one Redis lock with a clock: lifetime, heartbeat, delays |
| `ContextWindow` | what of a chat's history is sent, summarized or dropped |
| `AuthSessions` | login sessions: rotation, reuse, expiry, sign-out |
| `OwnershipTransfer` | the transaction that moves an anonymous visitor's chats and usage to a user |
| `Visitors` | who a request acts for, and the anonymous session made on first use |
| `ModelRegistry` | edits of models and of the default, beside the seeders of booting replicas |
| `AdminAuth` | administrators' sessions, and the calls and tabs of one browser that use them |
| `AdminSummary` | an administrator's summary of a chat, and the cards that ask for it |
| `OllamaClient` | one call to Ollama: its timers, the caller's abort, the lines of the body |
| `UsageReports` | the reports and pages of the usage log |
| `ChatPages` | lists read page by page while they change |
| `WebChat` | the composer, the page and the hook that send a message |
| `Scroll` | the scroll position of a conversation |
| `Sidebar` | renaming and deleting chats in the sidebar |
| `WebSession` | one browser's login, seen from its tabs |
| `Devices` | the account page: the sessions of a user's devices |
| `UsersSearch` | the search of the administrators' list of users |
| `ModelsPage` | the administrators' page of models |
| `MCChatStream`, `MCAuthSessions`, `MCOwnershipTransfer`, `MCScroll` | instances of the modules they are named after |
| `MCComponents` | one instance of the twelve components that share no state, checked for safety |
| `MCLive` | one instance of the four components that also have liveness properties |
| `ChatStreamProofs`, `AuthSessionsProofs`, `OwnershipTransferProofs`, `ModelRegistryProofs` | theorems about the module they are named after |
| `ApiProofs` | theorems about `AdminAuth`, `AdminSummary`, `Visitors`, `OllamaClient`, `UsageReports` and `WebSession` |
| `ClientProofs` | theorems about `WebChat`, `Devices`, `UsersSearch`, `ModelsPage`, `Sidebar`, `ChatPages` and `Scroll` |
| `MCComponentsProofs`, `MCLiveProofs` | theorems about `LockLease` and `ContextWindow`, and all of these for the compositions |

### ChatStream

One action is the code between two awaits of `ChatStreamService.stream` or of a service it
calls; `pc[r]` is the await at which request `r` stands. Reading the actions in the order of
the file is reading the method: `Start`/`Refuse` (the checks), `AcquireSlot` and `AcquireChat`
(the locks), `CacheGet`, `DbLoad`, `CachePut` (`getHistory`), `Begin` (the transaction of
`beginGeneration`), `AppendLock` to `AppendUnlock` (`history.append`), `BuildPrompt`,
`StreamReply`, `Complete`, `RecordUsage`, again `DbLoad` and `CachePut` (the closing refresh),
`EndTurn` (the catch block) and `ReleaseChat`, `ReleaseSlot` (the finally block). `task[r]`
says for which caller a subroutine of the history service runs, and so where it returns. Each
action that calls PostgreSQL or Redis has the outcome in which the call throws
(`...Throws`, `...Fails`, or a disjunct guarded by `Fault`), with the effect the code gives it:
swallowed and logged, rethrown, or caught and turned into `endGeneration`.

Data are abstracted to what the properties can tell apart. A message is its role and status; a
history is the set of the positions of the messages it holds (both `toHistoryEntries` and
`append` keep them in order); the random token of a lock is the request that drew it; the
deltas of a reply are left out. `HistoryOf` is `toHistoryEntries`. The heartbeat is not an
action: as long as it works a lease does not lapse, so `ExpireChatLock` and `ExpireSlotLock`
are enabled when the holder no longer runs, and, with the fault `lapse`, at any time - which
stands for a stalled event loop, failed renewals, or an `extend` that came too late, all of
which the code meets in the same way: it goes on. The history lock has no heartbeat in the
code and may lapse at any time. `RecordUsage` may fail when the chat's owner is no longer the
one the request started with: its transaction may have lost a race against the transfer or the
deletion (it need not have, so the model has more behaviours than the code there).

`Faults` selects what the environment may do: `redis` (a command throws, executed or not),
`db` (a statement throws, not executed), `crash`, `lapse`.

### AuthSessions

The rows of one user's sessions and any number of concurrent calls to `/auth/refresh` and
`/auth/sign-out-all`. A session's refresh token is the session itself; any session that is or
was committed may be presented, any number of times. The transaction of `rotateSession` is two
steps: the insertion, which nobody else sees (`pending`), and the conditional `updateMany`,
which revokes and links the old row and commits; `Rollback` is its `SessionAlreadyRotatedError`
and every other failure. `revokeRotationFamily` is one `Walk` per query and one `RevokeFamily`.
The `UPDATE` of sign-out-all is two steps, its snapshot (`SignOutAll`) and its effect
(`Sweep`), since a row that it waited for is checked again and a row that was committed after
its snapshot is not seen. `root` is a history variable: the sign-in a session descends from.

### OwnershipTransfer

One anonymous session and what it owns. `chat`, `usage` and `session` are what is committed; a
transfer is the statements of `transferAnonymousChats` one by one: `FindChats`, then for the
chats and for the usage rows an `UPDATE` in two steps, `Scan` (its snapshot) and `Update`
(once it has the rows' locks it checks its `WHERE` again and writes), `DeleteSession`, and
`Commit` or `Rollback` of the surrounding transaction. `moved[t]` are the rows it has updated
and holds locked. A foreign key takes a key-share lock: a chat or usage row that refers to the
session, inserted and not committed, delays `DeleteSession`, and while that is uncommitted such an
insert waits; a usage row that refers to a chat delays the chat's deletion. The cascade of the
session's deletion is part of `Commit`: it deletes the visitor's chats that the transfer did not
move (`"lost"`) and leaves their usage without an owner (`"nobody"`).

`UsageRepository.create` is `ReadOwner`, `InsertUsage` and `CommitUsage`, since its owner is read
before the insert; a failed insert is logged and forgotten (`"failed"`). `createChat` is an
insert and the end of its transaction. `found` is what `findMany` returned, `billed` a history
variable beside it. A chat that is created after `findMany` and moved by the `UPDATE` is not
among the ids whose cache is invalidated; it has no cached history yet unless its owner has
already used it, in which case the history is the same for the new owner.

### ContextWindow

`buildPrompt` over a growing history. A message is its role and its tokens; `saved` is the
`conversation_summary` row, and `taken` (a history variable in it) says how often each entry was
among those the notes were taken on. `Ask` is `assertContentFits`; `StartFolding` chooses the fold
(`TurnsToFold` is the result of the loop of `selectTurnsToFold`); `TakeNotes` is one completion of
`summarize` over one chunk (`IsChunk`, of `chunkEntries`); `SendFolded` is the upsert,
`SendDespiteFailure` the catch block, and every way to a prompt ends in `DropOldestTurns`, the loop
of the code as a recursive function. `Complete` and `EndTurn` end the request, at any time for the
latter: cancel, failure and crash differ in nothing that this module keeps. Requests of a chat
follow each other, which is `OneGenerationPerChat` of `ChatStream`, and the history is the chat's,
which is its `PromptIsHistory`. Estimates are exact; `reported` may exceed them. Tokens between two places are a difference of the sums
through them (`TokensThrough`). `RoomForNotes` says of the settings what `environment.schema.ts` does not ask: that the longest summary fits
beside the longest prompt, and beside a rest that was folded to the target. The defaults (75, 40 and 10 per cent, contexts of 512 and more) do.

### TurnLog

A reply is opened when no other reply of its chat is being written, is ended once with
COMPLETED, FAILED or CANCELLED, disappears with its chat, or is abandoned by the death of its
writer. `ChatStreamLog` maps a request's reply to its assistant row (`RowOf`), and
`ImplementsTurnLog` says that `ChatStream` with its fairness implements it, liveness included.

### LockLease

`ChatStream` lets a lease lapse whenever its `Faults` allow it; `LockLease` has the clock that decides.
A key is its owner and the time it expires; `Acquire` is `SET NX PX`, `StartWork` the answer's
arrival and `setInterval`, `Heartbeat` and `Extend` an extend on its way and in Redis, `Finish` and
`Release` the finally block. The lease of a slot runs from its own `SET`, but the heartbeat is set up only when the chat's lock has been
answered too: `Wait` is how long that may take. Time passes (`Tick`) unless something is due: a command or answer is
under way at most `Delay`, a callback is at most `Late`. `Period` is `Math.max(1_000, ttl / 3)`.

### Visitors, AuthSessions and the browser

`Visitors` is the middleware and the principal service: a request carries the cookies there were
when it was sent, `Resolve` looks them up, `Touch` renews an anonymous session that may be gone by
then, `EnsureAnonymous` creates one when there is none, and the answer's cookies are set when it arrives (`Deliver`): those of a
sign-in that succeeded, and a new session's also when the chat could not be created. A request or its answer may be lost (`Lose`). A first request whose answer is
lost leaves a chat to a session that no browser can name; `NoChatStranded` leaves out the sessions in `lost`, and, for being able to name them, requests that overlap and sessions whose time is over.
`WebSession` is what the tabs make of `AuthSessions`: the query of `use-auth.ts` and its interval,
the refresh it tries on 401, the CSRF token fetched before every mutation, whose cookie the tabs share,
sign-in, sign-out and a rotated token presented again. There the API answers a call in one step.
`Devices` is the account page beside devices that sign in, rotate and sign out: the guard looks the
caller's session up, the handler lists or revokes in a later query.

### ModelRegistry, AdminAuth, AdminSummary

`ModelRegistry` has the transactions of `model-administration.service.ts` and of
`model-default.seeder.ts` statement by statement: what is `written` and not committed locks its rows,
`Scan` is the snapshot of an `updateMany`, the partial unique index makes the second of two defaults wait or
fail, and a check constraint refuses a default that is not available. A replica may die and boot again.

`AdminAuth` splits a refresh into look-up and conditional update, and has the client beside it: the
calls of a tab that meet 401 share one refresh, whose answer sets the cookies when it arrives.

`AdminSummary` is one POST of `admin-chat-summary.service.ts` from lock to release, with new messages,
failing stores, lapsing leases, crashes and deletion beside it, and `use-chat-summary.ts`: the card
polls, refreshes by itself once for each pair of summary and messages, and shows a conflict or an error. `Look` has the two reads of
`getSummary` in one step: a card's state is that of an instant, where the code's may have a turn or a refresh between them.

### OllamaClient

A body is a sequence of symbols, cut into pieces anywhere. A line is named by the place of its text in
the body, so that the decoder, `split('\n')` and the loop over the lines are sets of places: `lines` are the whole
lines of the last piece, of which the first is handed out next, `buffer` is the line that is not
complete, `delivered` what the caller was given. That the text of a line is what the server sent is thus by construction, and what the
properties ask is which lines the caller gets, and when. `Fire` is a timer's callback, which aborts the call's own controller; the caller's signal does
the same through its listener. An armed timer may fire at any time.

### UsageReports and ChatPages

Time is counted in rows. `UsageReports` writes the totals as the raw SQL of the lists and as the
aggregates of the detail pages do, and asks that they agree; an administrator pages by offset while rows are
recorded and change owner. The rows of a page and their number are two statements (`Read`, `Count`). The administrators' client keeps each page under its own key:
for 15 s it is shown without being read (`ShowKept`), afterwards it is read again when it is turned to or the window gets the focus (`Refocus`), and one that is not shown is dropped some time (`Age`). So, after
turning back to a first page that is read afresh, a page kept from before may be shown, and a row that moved over the edge meanwhile is on neither: `older` marks such pages, and
`NoRowSkipped` leaves out the lists in which one was shown (`backward`), and those whose rows went to a user (`pruned`). The administrator waits for a page's answer before turning on, and coming back to a list
is like turning back in it. A sum of numbers is the number of all their units (`Units`), and a page is told by ranks: the newest rows first,
a row is on the page that the number of newer rows says.

`ChatPages` is `findMany` with a cursor and an infinite query that shows its pages together and reads all of them
again when it is invalidated. Every row has the time the list is ordered by, which a message keeps and a chat gets anew
whenever something is said in it; a page is the set of its rows, those with fewer than `limit` newer ones behind the cursor, and
the next cursor is the oldest of them. The cursor is compared as Prisma does: by the time the row has when the page is
read, so a cursor that moved, or is gone, changes what the next page holds.

### WebChat, Scroll, Sidebar

`WebChat` has one action for each await of `use-chat-stream.ts`, `streamMessage` and the submit handlers of
`composer.tsx` and `chat-page.tsx`; `pending` is the hook's state, which an event changes whichever send it
is of, and `scope` the route, which a navigation changes under all of them.

`Scroll` divides time into frames: handlers run between them, a frame reports scrolling,
sizes and intersections in this order. A render's effects (`RunEffects`) come before the next frame or behind it, so that a chat is
on the screen before `pinnedRef` is set back and before the prompts are observed anew. A change of chat (`Reset`) keeps the container and
what the `ResizeObserver` knows of it, unless the messages have to be loaded (`Remount`). At the end of a turn its bubble goes and its rows are
hidden until they have been read and `pending` is null (`EndTurn`, `RowsArrive`): the content shrinks, the browser moves the view, and the turn's prompt is replaced by
the one of the row. A place is a number that stays with what is written there: 0 is where the messages
loaded first begin, older ones have negative places, so `above` of the height lies before 0 and `top - above` is the place at the
upper edge of the view. Prompts are a set of places, 0 among them: rows come in pairs and the default page size is even, so
a page begins with a prompt. `Observe` is the callback of the `IntersectionObserver`, which hears of each prompt that came into
the band or left it, in order: the last that came in, or else the one before the prompt that left downwards. `past` is a
history variable: what the reader did since the state the properties speak of, and whether a frame skipped more than the band.
`FollowsTheEnd` leaves out what the browser does not report: a chat opened over one of the same height (which is the finding of `scroll_opened`), content that is back at the height the
observer knows, and more than the threshold in one frame behind a scrolling that is still to be reported. `KeepsThePlace` is about older messages that come while the turn and the chat
stay what they were. Once the turn that was being read is over, the highlight waits until a prompt comes into the band. `lockedId`, which shows a
selected prompt as the active one for `SELECT_LOCK_MS`, changes what is displayed only, and is left out; there is one older page, and
of a smooth scroll the last frame, on the way to which the reader's own scrolling (`Read`) is like it. What changes and changes back within one frame is
seen by no observer, and the model has it so.
The highlight is right for prompts that are at least the band apart (`Spaced`): of two that are closer, scrolling up
may take both out of the band at once, and the highlight stops between them. `Sidebar` and `ModelsPage` share a pattern: changes are answered in any order, each
answer invalidates the list, and the list that arrives may have been read before the change.

### UsersSearch and ModelsPage

`UsersSearch` keeps the four copies of the search apart (text box, debounce, address, query) and has
the two effects of `users-page.tsx` run at a `Render`, not when a value changes. `ModelsPage` has the box of
each model, which Enter and leaving it both save, and the one `useMutation` that all rows share. `crossed`
is a history variable: the models that were saved while a change of them back to what the list shows was
under way. The attempt to prove `BoxesFollow` found the need for it, in a run of three changes that a bound of two
had hidden: *a* is sent twice (typing forgets `lastSubmitted`), the first of them is served and listed, the box is
saved with *b*, and the second *a* is served last; the list that arrives is the one there was, and the box,
which follows only what is new, keeps *b*. The run
now has a part of one box with three changes.

### The composition of instances

The components of `MCComponents` and of `MCLive` share no state. The variable `part`, fixed by the initial
state, says which of them runs; the others' variables are `Off`, so that the states of a run are those of
each component, side by side, and each property is that of one part, or of each of several.

## Runs

| run | expects | instance | shows |
| --- | --- | --- | --- |
| `stream_contention` | pass | 3 requests, 1 chat, 2 slots, an anonymous session and a user, no faults | the prompt is the history, cache coherence, the client is told the truth, no lock is kept, while the chat changes hands or is deleted |
| `stream_faults` | pass | 2 requests, a visitor's chat that is handed over to an account, 1 slot each, `redis`, `db`, `crash` | exclusion at the chat's lock, slot limit and durable closing events when either store fails and the process dies |
| `stream_lapse` | pass | 2 requests, 1 slot, `lapse` | no foreign release while generations overlap |
| `stream_recovery` | pass | 2 requests, 1 slot, `crash`, fairness | requests end, locks become free, `TurnLog` is implemented |
| `stream_crash` | violation | 2 requests, `crash` | `PromptIsHistory` fails after a crash |
| `scroll_opened` | violation | `MCScroll`: two chats that are as high, one opened over the other | `OpensAtTheEnd` fails |
| `sessions_rotation` | pass | 4 sessions, 3 calls, walks of 2 | single use, one live session per login, reuse and sign-out-all close what they saw |
| `sessions_reuse` | violation | 3 sessions, 3 calls | `ReuseRevokesFamily` fails |
| `transfer` | pass | 2 chats, 2 replies, 2 sign-ins, 2 users | what was there when a sign-in began survives it, ownership changes once, usage goes with the chat |
| `transfer_lost` | violation | the same | `NoChatIsLost` fails |
| `components` | pass | the twelve components of `MCComponents`, `ModelsPage` in two sizes, 2 workers, 2 places | `Exclusive` (lease), `RegistrySound`, `AdminSessionsSound`, `SendsSound` (web chat), `NoChatStranded` (visitors), `ReadingSound` (lists and scrolling), `UsageSound`, `PagesFollow` (search, models, sidebar, devices) |
| `live` | pass | the four parts of `MCLive`, fairness | `SummaryCoversPrefix`, `WindowFits`, `FoldingEnds` (context window), `SummarySound` (admin summary), `EndsTruthfully` (Ollama), `RequestsEnd` (cards and calls), `TabsAgree` (browser) |

*Bounds of the streams.* The hazards of `ChatStream` are races between two requests of one chat, or of one
principal; a third request (`stream_contention`) lets one be over and leave its cache behind,
while another runs and a third is refused. There a visitor's chat starts with one request refused already:
what the visitor adds is the handover of the chat under the others. Requests are made once, so three of them are three
turns. A chat starts empty or with one lone user message (a chat created with its first
prompt). One chat is enough for the properties of a chat, because chats share nothing but a
principal's slots; with `Slots = 2` the loop over the slots has a second turn, with
`Slots = 1` the limit is met by two requests. In `stream_faults` the chat is a visitor's and is handed over under the requests: a
request of the visitor and one of the account have different slots, and meet at the chat's lock alone (a heartbeat that does not extend that lock
is found by `OneGenerationPerChat`), while two of one principal meet at its slot.

*Sessions and transfer.* In `sessions_rotation`, four sessions and a
`WalkLimit` of 2 give chains longer than a walk: the limit is 100 in the code
(`auth.repository.ts:189`). In `transfer`, one chat may be moved while another is created or
deleted, two sign-ins meet over one set of rows, and of two replies one may be recorded before
and one after the transfer; the two sign-ins may be of one user or of two.

*Components.* Two workers (requests, calls, replicas, sends) and two places (models under edit, tabs, chats)
are two of whatever races. The lease has a lifetime of 8 with a second of 2 and a wait of 3, which is sufficient by one, and
one of 2, which is not; the clock stops at 11, after the first holder's second heartbeat and the takeover of
its lock. Visitors have one chat and two sessions, of which one may be lost or lapse while the other is made. The registry has three models, so that a switch of the default can leave one aside; administrators
three sessions, so that a token's successor has one. Lists have four rows and two touches, and pages of 1 to 3.
A conversation has prompts at -2, 0 and 2, a page of older messages of height 2, a view and a band of 2, a threshold of 1, and at most 4 below 0;
of the chats that are opened, as high as each other, one has its turn in progress and one has only rows. The whole
height is more than two views, so that a place kept from the wrong end would not be hidden by the end of the scroll range. Usage has three rows, pages of one, and a user whose log is opened. The pages of models and the sidebar send two changes, the
account page sees four sessions of three devices.

*Live.* Context windows of 11 and 20 tokens and messages of 1 and 7 are scaled so that a request meets each
edge: the trigger of either model, a message that fits only the large one, an entry larger than a chunk, a
summary larger than the small model's, and an unanswered first prompt, so that turns have one or two
entries; four turns (`MaxEntries = 8`) let one be folded, one be dropped and the last one be kept. The summary has two
messages, one card and two other browsers, and one fault where two of them meet. Ollama's bodies are the
seven in `SomeReplies`. A browser has two tabs and a `Budget` of two disturbances: sign-ins and sign-outs, lost
answers, expired cookies, reused tokens.

No run uses a state constraint. Requests, chats, sessions, calls, replies, sign-ins, users, workers and places are
symmetric sets in the runs that check only safety.

*Deadlock* is not checked (`CHECK_DEADLOCK FALSE`): requests and calls are made once, and when
all of them are over nothing has to happen any more.

*Fairness.* `ChatStream!Fairness`: weak fairness of each request's own steps: the event loop
runs what is runnable, PostgreSQL and Redis answer or throw, and every Ollama call is ended by
one of its timers (which is `EndsTruthfully` and `RequestsEnd` of `OllamaClient`), so no await is for ever. Weak fairness of the
expiry of locks: Redis enforces TTLs. Weak fairness of pending invalidations, which are
requests too. `LiveSpec` assumes, of the part that runs: that a completion of the summarizer is answered or
ended by a timer; that a request for a summary goes on, its lock expires, and the card followed here polls and
hears its answers; that the total timer fires if it stays armed and a consumer takes the chunk it was given; and
that a browser's calls go on and each tab's interval fires again and again (strongly, since
the tab does not ask while a call of its own is under way). Nothing is assumed of clients, of Ollama's body, of
chat deletion, of crashes, or of cache expiry.

## What is proved

TLAPS proves, for every value of the constants:

| theorem | states |
| --- | --- |
| `ChatStreamProofs!TypeCorrect` | `Spec => []TypeOK` |
| `ChatStreamProofs!Exclusion` | without lapsing leases, `Spec => []OneGenerationPerChat`, whatever else fails |
| `ChatStreamProofs!SlotLimit` | without lapsing leases, `Spec => []PrincipalLimit` |
| `ChatStreamProofs!ReleaseOwnOnly` | `Spec => NoForeignRelease`, lapses and crashes included |
| `ChatStreamProofs!NothingLeaks` | while Redis answers, `Spec => []NoLeakedLock` |
| `ChatStreamProofs!ClosingWasWritten` | `Spec => []ClosingIsDurable`, whatever fails |
| `ChatStreamProofs!TruthIsTold` | while PostgreSQL answers, `Spec => []ClientToldTheTruth` |
| `ChatStreamProofs!PromptCarriesHistory` | without faults, `Spec => []PromptIsHistory` |
| `ChatStreamProofs!CacheConverges` | without faults, `Spec => []CacheCoherent` |
| `ChatStreamProofs!WritesTheLog` | while PostgreSQL answers and no lease lapses, `Spec => Log!Safety`: the safety part of `TurnLog` |
| `AuthSessionsProofs!SessionTypes` | `Spec => []TypeOK` |
| `AuthSessionsProofs!OneLive` | `Spec => []OneLivePerFamily` |
| `AuthSessionsProofs!TokensAreSingleUse` | `Spec => []RedeemedOnce` |
| `AuthSessionsProofs!Finality` | `Spec => RevocationIsFinal` |
| `AuthSessionsProofs!ReuseCloses` | `Spec => []ReuseClosesFamily` |
| `AuthSessionsProofs!SweepCloses` | `Spec => []SweepClosesFamilies` |
| `OwnershipTransferProofs!TransferTypes` | `Spec => []TypeOK` |
| `OwnershipTransferProofs!Once` | `Spec => TransfersOnce` |
| `OwnershipTransferProofs!FoundChats` | `Spec => FoundChatsSurvive` |
| `OwnershipTransferProofs!BilledUsage` | `Spec => BilledUsageSurvives` |
| `OwnershipTransferProofs!UsageWithChat` | `Spec => []UsageFollowsChat` |
| `OwnershipTransferProofs!LateReplies` | `Spec => []LateReplyIsBilled` |
| `ModelRegistryProofs!OneDefaultServed` | `Spec => []ServesOneDefault` |
| `ModelRegistryProofs!EditsDoNotDeadlock` | `Spec => []EditsNeverDeadlock` |
| `ApiProofs!AdminSessionsHold` | of `AdminAuth`: single use of tokens, no successor of a signed-out session, no tab presents a token twice |
| `ApiProofs!VisitorsHold` | of `Visitors`: every chat has its owner, and the browser its chats, but for overlapping requests, sessions whose time is over and cookies lost on their way |
| `ApiProofs!SummariesHold` | of `AdminSummary`: a summary covers its prefix, and nothing is billed twice |
| `ApiProofs!CallsHold` | of `OllamaClient`: `TypeOK` and `EndsTruthfully` |
| `ApiProofs!UsageHolds` | of `UsageReports`: lists, pages and breakdowns agree, and paging skips no row, kept pages included, but for those of before the first |
| `ApiProofs!BrowserTypes` | of `WebSession`: `TypeOK` |
| `ClientProofs!SendsHold` | of `WebChat`: `BusyIsReal` and `AloneInOrder` |
| `ClientProofs!SidebarHolds` | of `Sidebar`: the titles listed, and the pages left |
| `ClientProofs!SearchHolds` | of `UsersSearch`: the copies of the search agree at rest |
| `ClientProofs!BoxesHold` | of `ModelsPage`: the list and the boxes follow what is stored |
| `ClientProofs!DevicesHold` | of `Devices`: the list at rest, and the browser that stays signed in |
| `ClientProofs!PagesHold` | of `ChatPages`: the sidebar shows every chat that stayed, each once, and the messages have no gap |
| `ClientProofs!ReadingHolds` | of `Scroll`: the end is followed, the place is kept under older messages, the prompt that is read is highlighted, with the exceptions named above |
| `MCLiveProofs!CoversPrefix` | of `ContextWindow`: `Spec => []SummaryCoversPrefix` |
| `MCLiveProofs!PromptsFit` | of `ContextWindow`: if the settings leave room for notes, `Spec => [](TypeOK /\ WindowFits)`: whole turns are dropped, no more than needed, none that folding can spare, and the prompt fits |
| `MCComponentsProofs!LeaseExclusive` | of `LockLease`: `Spec => []Exclusive` |
| `MCComponentsProofs!LocksExclude`, `RegistryStaysSound`, `AdminSessionsStaySound`, `SendsStaySound`, `VisitorsKeepTheirChats`, `UsageStaysSound`, `PagesAllFollow`, `ReadingStaysSound`, `TypesStay` | `ComponentsSpec` has the invariants `Exclusive`, `RegistrySound`, `AdminSessionsSound`, `SendsSound`, `NoChatStranded`, `UsageSound`, `PagesFollow`, `ReadingSound`, `ComponentTypes` of the run `components`: all that it checks |
| `MCLiveProofs!PrefixStaysCovered`, `PromptsStayFit`, `SummariesStaySound`, `CallsEndTruthfully`, `TypesStayLive` | `LiveSpec` has the invariants `SummaryCoversPrefix`, `WindowFits`, `SummarySound`, `EndsTruthfully`, `LiveTypes` of the run `live`: all its invariants |

Assumptions are named in the module that declares the constants, and say: `Slots` and `WalkLimit` are
positive, `Faults` is a subset of the four kinds, `None` is none of the other values, `Anonymous` and `Users`
are disjoint (the two kinds of principal); times are natural numbers and a delay is at most a second
(`LockLease`); tokens are natural numbers, and the ratios are per cent in the order `environment.schema.ts` asks for (`ContextWindow`, where `RoomForNotes` is a hypothesis of `PromptsFit` and of nothing else); the
seed is a model and an edit is no replica (`ModelRegistry`); a marker for "nobody", "none" or "gone" is none of
the values it stands beside (`Visitors`, `WebChat`, `ModelsPage`, `Sidebar`, `Devices`); every text has a page of results (`UsersSearch`); in
a body, of two neighbouring symbols one ends a line, which says no more than that a line has one text
(`OllamaClient`); the tokens of an entry are natural numbers, and a page has a positive size (`UsageReports`); a page of a list has a default size of at most the greatest (`ChatPages`); the view, the band and older messages have a height, the band lies in the view, and a message stands at 0 (`Scroll`); bounds are natural numbers. `SlotLimit` needs no finiteness of `Requests`: the requests
that hold a slot are mapped injectively into `0 .. Slots - 1`.

*Compositions.* A theorem about a component is proved in a module that declares the component's constants and variables
as its own, or extends it, and so for all of their values. `MCComponentsProofs` and `MCLiveProofs` instantiate those modules
with the values of the run. The lemmas `Same...` say that the instance the run checks and the one in the module of proofs are equal, definition by
definition, and `Runs` that a step of the composition is a step of the component whose `part` it is: the
component's invariant then is one of the composition.

*ChatStream.* `OneGenerationPerChat` is not inductive: that a request is inside a generation
says nothing about the lock. The strengthening is `Held`: a request inside holds the chat's lock
and its principal's slot. A step that enters takes a lock that was free; a step that frees a
lock is made by its holder, on its way out, or is an expiry, which without `lapse` needs a
holder that is outside. Exclusion follows because a key has one holder, the slot limit because
slots of one principal are distinct keys.

`Traced` is the converse of `Held` and so what `NothingLeaks` needs: whoever a lock names stands where
the code will give it back, or is dead. It needs no lease to last, since a lapse only frees
a key, but it needs Redis: a `release` that throws leaves the key to its TTL.

*Turns.* Positions in a chat only grow, and each request writes its own row (`Apart`), so that
every step keeps the rows of all requests but one (`Kept`), or deletes them with their chat.
`Truthful` then ties what the client has been told to its row. Nothing in it needs a lock, so `ClosingWasWritten` holds under every
fault. `Told` adds the converse, which needs PostgreSQL: a row is STREAMING until its
request ends it, a client told of an error has a FAILED one (`Faithful`), and the usage row follows it (`Billed`), unless the chat was deleted or
handed over meanwhile, which cannot be undone (`Owned`, `NotRegained`).

`Histories` says what is known of the cache in a generation: from `getHistory` on, the request carries the
history of the rows before its own (`Base`), and the cache holds that, what the append makes of it, or nothing (`Fresh`);
a chat at rest has in the cache what its rows give, or nothing (`Rested`). It rests on exclusion (one generation
appends at a time), on the row of an open turn being STREAMING, which `toHistoryEntries` leaves out
(`HistoryOfOpenTurn`), and on no step failing. `stream_crash` shows that the last is needed.

*TurnLog.* A reply of the log is open while its row is STREAMING and its request not over. That a
generation opens alone is `Exclusion`, hence no `lapse`; that a reply is ended once needs PostgreSQL,
since a failed closing refresh rewrites COMPLETED as FAILED.

*LockLease.* The key may lapse while an extend is under way, so the invariant counts the remaining lifetime from the
next heartbeat while none is, and from the departure of the one that is (`LeaseOf`). `Sufficient` makes
either positive at all times.

*ModelRegistry.* A transaction is before its last write or behind it. Before it, what it has written makes no
row a default that is not one already (`Pending`), so it can be published or dropped. Behind it, its subject is the
only default it would publish (`Settled`); `OneWritten`, kept by the waiting unique index, lets no other
transaction disturb that. What `assertTransition` found is used nowhere in the proof, since the row may have
changed: the row's lock and the check constraint carry it.

That edits do not wait in a circle needs to know what each of them holds (`Holding`): an edit that clears the old
default holds the row of its own model, which is no default, and waits for one, the default. So, of any edits that have a row
to clear, one waits for a row that none of the others holds (`NoCircle`): the default is of all of them the same row. This needs
that no seeder writes: one that does holds the row of its seed, and its statement can complete a circle, which PostgreSQL
resolves by aborting one of them.

*AuthSessions.* `IInv` adds to `OneLivePerFamily` and `RedeemedOnce` that each open transaction
has a pending row of its own, of the family of the session it replaces; that a call which rotated
left its token's session revoked; that links, collected ids and presented tokens are of
committed rows; and that roots are committed sessions, so that a new login founds a new family.
The conditional `UPDATE` then gives both results: the second of two calls that redeem one token
finds its session revoked.

`Chains` adds what the two closing theorems need: a session that was revoked without a successor
is a dead end (`DeadEnds`: nothing live is of its family any more), and links never run in a
circle (`NoTrap`: every set of committed sessions has one whose link leads out of it), so that a
set which a walk has closed contains a dead end. No induction along a chain is needed: both are
kept by every step, because only the live end of a chain is ever extended, by a new session.

*OwnershipTransfer.* The invariant divides time by the session's row. While it is there nothing
has changed hands (`Before`); once it is gone nothing is the visitor's (`After`). The one sign-in
that has deleted it, uncommitted, is the only one that holds rows of the visitor's (`Serial`,
`Holding`), and by then it holds all that it found (`Gathered`). `TransfersOnce` follows because
a locked row is the visitor's until the commit, the two action properties from `Gathered`.

*AdminAuth.* A session has one successor at most (`Rotated`), since the update that redeems a token is conditional. That no tab
presents a token it has seen rotated needs the way of a new session to the jar: until the answer arrives it is with one call only, or on
the wire, and nobody has seen it (`FirstSight`); what the jar holds, and what a call has in its hand, its tab has not seen rotated (`NotAgain`).

*AdminSummary.* A refresh writes what it drafted from what it read, so both must cover whole prefixes (`ReadSoFar`). Nothing is billed twice as long as
what it read is still what is stored: `Exclusively` says that a refresh under way holds the lock from its first
read to its release, so that nobody else has written the summary, until a lease lapses or a process dies.

*Visitors.* Every owner's session is there (`Stored`), whatever the requests do, because the rows are cascaded. As long as requests do not overlap,
each knows the browser's session (`Follows`), replaces it only when it is of no use any more (`Replaces`), and leaves nothing behind
that it took over (`TakesOver`); what it cannot deliver is `lost`.

*OllamaClient.* `InOrder` is the flow of the lines: up to the place that was read, each is with the caller, about to be handed out, or not
ended yet, in this order. At the end of the body the last of these is empty, or handed out as the unfinished line, and the loop is left only when all are. `Standing` and `Reasons`
carry the rest: what is armed at each place of the call, and why a controller is aborted.

*UsageReports.* What is counted part by part and summed is counted together, if the parts are disjoint (`CountedTogether`): the units of the sum are
mapped onto the whole, one to one. With `SumOfSums` that makes the breakdown add up to the totals, and the two lists to the rows that have an
owner; the latter needs that a row of a visitor whose session is gone has become a user's (`Owned`). For paging, the invariant `Paged` counts: of the rows that
are due and not shown yet, each has at least as many newer rows as the pages read so far hold. Recording a row, or taking over a visitor's, only adds
to the rows that are newer, and the page that is read next takes all those that the next bound does not hold for; at the last page `Ceil` leaves none. The same is kept of each page
the client has had since the first (`KeptBehind`), with the number of rows that was counted with it, so that showing it again needs no reading.

*WebChat.* Without overlapping sends (`OneSend`), the pending answer and the controller are of the send under way; `GivenBack` says that a refused text is
in a draft and in front of the reader, or will be put there by the navigation still to come.

*Sidebar* and *ModelsPage.* What is stored is listed, or a list that shows it is on its way, or an answer is in that will ask for it
(`NamesCome`, `ListComes`). For titles, `GivenLast` says that the change sent last is served last, and `Leaves` that a deletion of the chat on the page is going to leave it. For the boxes,
`NewComes` is the delicate part: a box that was saved and differs from the list will see a list that is new to it. Trying to
prove it found the behaviour that `crossed` records.

*UsersSearch* and *Devices.* The copies of a search agree after each render (`Rendered`), and an address that differs from them is news for the next one
(`Outside`). The list of devices is of the session of now as long as nothing happened behind its request (`AskedNow`, `ListedNow`).

*ChatPages.* A list is a walk from its newest row to its cursor, and what has been kept is a statement about the walk so far, whether it is the
list on the screen or a refetch under way (`Walk`). A chat that stayed where it was is on a page or lies behind the cursor (`Reaches`), what is on a page
does not lie behind it (`Parts`), and messages go down to it without a gap (`Descends`); each is read off at the end, when there is no cursor. The
next page keeps them, because it takes the newest of the rows behind the cursor and its own cursor is the oldest of those. That this exists, and that with `limit`
rows taken none of the others is newer, is a fact about finite sets of rows ordered by time, proved from least and greatest members (`SmallestOf`, `GreatestOf`) and cardinalities. A
row that is touched is left out of `Reaches` from then on, and a cursor that is touched ends `Parts`: no more is claimed, and no less is true.

*Scroll.* `LastFrame` says what of the last frame is still true between two of them; the rest has one part for each property. While the end has not been left, the view is
pinned, and the end is in sight, or what brought it out of sight will be seen by the next frame, which goes there (`AtTheEnd`). A place that was asked about goes through three
phases: asked, arrived but not yet seen by the observer, and shifted (`PlaceKept`). `Observing` says which prompts the observer has and reports, as late as its effect may make it. The highlighted
prompt is the last that the last frame had before the end of the band (`Followed`): among prompts that
are the band apart, a frame that moves by no more than the band lets one prompt at most leave downwards, and then the one before it is what the callback looks for. That the
turn in progress may be that prompt, and the rows to come lie behind the band (`Ahead`), carries it through the exchange of the one for the others.

*WebSession.* Its types need no more than themselves. `Free # {}` guards the two actions that make a session: a bound on how many there are,
which the run never meets (it has the same states without the guard).

*ContextWindow.* While a summary is written, the draft covers the history through its own anchor and
the place where it will end is a turn boundary (`Drafting`); a boundary stays one, since the history
grows by turns that begin with a user's message (`BoundariesStay`).

That prompts fit needs what the request knew when it chose (`FitsInv`): the place where the fold under way ends is the one
`selectTurnsToFold` stops at (`TurnsToFold`), the message fitted when it was asked, and a prompt that was sent has dropped
what the loop drops. The loop and the sums are recursive functions over places. What they return is proved by
induction over a set of places: `LeastOf` takes the least place that a statement fails for, which `WellFoundedInduction` gives for
sets of natural numbers, and `Induction` says that a set with 0 and each member's successor has them all. `Sums` then gives the cost of the entries from one place to
the next, `DropsTo` the place at which the loop stops: the first boundary behind which the prompt is within the trigger, or the end.
`RoomForNotes` is used twice: a prompt of no turns is a message and a summary, which fit the context only together; and a rest that meets the
target meets the trigger with the summary's introduction on top. `SUMMARIZE_AT` 90 with `SUMMARY_MAX` 20 breaks the first, which TLC confirms.

Only model-checked:

* the liveness properties (`FoldingEnds`, `RequestsEnd`, `TabsAgree`, `Terminates`, `LocksRecover`, and that part of
  `ImplementsTurnLog`): liveness under fairness is out of the prover's reach.

Every invariant and every action property of the runs is stated by a theorem.

## Findings

* A crash between `append` and the closing refresh leaves a prompt without an answer in the
  cached history, and the next request of that chat sends it to the model (`stream_crash`).
* `revokeRotationFamily` walks the chain outside a transaction; a refresh that commits behind
  the walk stays live (`sessions_reuse`). What the code does guarantee is `ReuseClosesFamily`.
* A chat that the visitor creates between the transfer's `UPDATE` and the deletion of the
  anonymous session is deleted by the foreign key instead of transferred (`transfer_lost`). What
  the code does guarantee is `FoundChatsSurvive`.
* A chat that is opened over one of the same height stays where that one was scrolled to, although it counts as pinned and
  "Jump to latest" is not offered, since no change of size is reported (`scroll_opened`; `use-scroll-tracking.ts:58`). What the
  code does guarantee is `FollowsTheEnd`.

Met while modelling, without a run of their own:

* streaming: a chat deleted while a request loads its history gets its cache key back for the TTL of the key, as deletion takes no
  lock (`chats.service.ts:125`; nobody can read it, and `README.md:57` only promises that the cache is invalidated); a failed cache write in the closing refresh leaves the previous history under the key
  (`chat-history.service.ts:136`); a lease that lapses admits a second generation beside the first
  (`chat-stream.service.ts:94` ignores the result of `extend`), and with a lifetime near a second the heartbeat,
  whose period is never shorter, comes too late (`Sufficient` of `LockLease`; `environment.schema.ts` accepts any
  positive lifetime); when PostgreSQL fails in the refresh after a completed reply, the catch block overwrites
  COMPLETED with FAILED although the usage was recorded (`chat-stream.service.ts:180`);
* sessions and ownership: sign-out-all leaves a session that a concurrent rotation commits behind its snapshot;
  a usage row whose owner was read before a transfer and which is committed behind the
  reassignment ends without an owner, and one inserted after the transfer's commit fails its foreign
  key (`usage.repository.ts:22`); a session that is rotated between the guard and `findActiveSessions` is
  listed as another device's on its own account page (`past.torn` of `Devices`);
* context window: `environment.schema.ts` accepts ratios that leave a summary and a message no room beside each other
  (`SUMMARIZE_AT` 0.9 with `SUMMARY_MAX` 0.2), and then a prompt may exceed `max_context`, although
  `context-window.service.ts:133` says that it must fit whatever happened above; a summary written for a large model can, after a switch to a small one, exceed its `max_context`
  together with a message that fits alone, since only turns are dropped
  (`context-window.service.ts:133`; the design of 2026-09-30 says "A prompt never exceeds
  `max_context`", and `OverflowOnlyAfterSwitch` is what holds); and when the reply after a fold fails,
  the next request folds again by the usage reported before it (`context-window.service.ts:82`);
* web client: after a `stream.error` that came behind `message.started`, the rows of that turn stay hidden while the bubble is in the
  error state, until it is dismissed; a text refused by the API replaces what was typed for the new chat meanwhile; the row of a deleted
  chat decides whether to leave its page by what it last rendered (`active` of `chat-sidebar.tsx:45`), so a chat
  opened while the list is awaited stays;
* visitors: a first message whose answer is lost leaves its chat to a session whose cookie never arrived, and the retry makes another
  (`anonymous-sessions.service.ts:26`);
* administrators' pages: turning back and on within 15 s may show a page of the log that is older than the page before it, so that a row
  is on neither (`apps/admin/src/main.tsx:13`); a debounce that fires between a navigation and its effect puts the old search back
  into the address, although a comment in `users-page.tsx` says that the URL wins; a box whose change was refused
  while another change was sent after it is not restored, since the `onError` given to `mutate` runs for the last call only;
  and a box saved while an earlier change back to what the list shows is under way may keep a context that is not stored
  (`crossed` of `ModelsPage`).

## Not modelled, and the plan

Left out for good: the environment's schema, health checks, start-up, the CLI and the generated OpenAPI
documents (no concurrent state); markup, menus, formatting and themes; validation of a single request, its origin check
and rate limits; passwords, hashes and signatures (a token stands for the session it names); what a message, a delta
or a summary says. "Partly" modelled are components of which such parts, or reads of one row (a chat with the
sources of its messages, an owner's detail page), are left out.

Next: a composition of `ChatStream` with `LockLease` in place of its fault `lapse`, and its exclusion from the lease's.

## Running

    tlc -workers 2 -config stream_contention.cfg MCChatStream.tla
    tlc -workers 2 -config sessions_rotation.cfg MCAuthSessions.tla
    tlc -workers 2 -config transfer.cfg MCOwnershipTransfer.tla
    tlc -workers 2 -config components.cfg MCComponents.tla
    tlc -workers 2 -config live.cfg MCLive.tla
    tlapm ChatStreamProofs.tla

and so on for the other configurations and the other modules of proofs.
