------------------------------- MODULE WebChat ------------------------------
(***************************************************************************)
(* The chat page of the web client: the composer with its drafts           *)
(* (composer.tsx), the page that creates a chat before the first message   *)
(* (chat-page.tsx), the hook that keeps one pending stream and one         *)
(* controller (use-chat-stream.ts) and the streaming call of the API       *)
(* client (api-client/src/index.ts).  The page is one component for every  *)
(* chat, so what it remembers follows the reader from chat to chat.        *)
(*                                                                         *)
(* A send is one text the reader writes, and the call made with it.        *)
(***************************************************************************)
EXTENDS Naturals, FiniteSets

CONSTANTS Sends, Chats, Opened     \* Opened: the chat there is at first

None == "none"
NewPage == "new"
Keys == Chats \cup {NewPage}       \* scope, and with it the draft's key

WebChatAssumption ==
    /\ Opened \in Chats
    /\ NewPage \notin Chats /\ None \notin Sends \cup Keys

VARIABLES
    scope,       \* the route: a chat, or the page of a new one
    going,       \* a navigation the page has asked for, or None
    mounted,
    chats,       \* chats that exist
    text,        \* what the composer shows
    restored,    \* the rejected text it shows, or None
    drafts,      \* localStorage
    step,        \* where each send is
    from,        \* the key its submit closed over
    place,       \* the chat it goes to
    controller,  \* whose AbortController the hook's ref holds
    aborted,     \* sends whose controller was aborted
    begun,       \* sends whose two rows the API has stored
    heard,       \* the last lifecycle event read of a send
    pending,     \* the hook's PendingStream
    overlapped   \* history: a send was submitted while another was under way
webVars == <<scope, going, mounted, chats, text, restored, drafts, step, from, place,
             controller, aborted, begun, heard, pending, overlapped>>

composer == <<text, restored, drafts>>
page == <<scope, going, mounted, chats>>
stream == <<controller, aborted, begun, heard, pending>>

InFlight == {"asking", "posting", "reading"}
UnderWay == InFlight \cup {"creating", "listing", "refetching"}
Steps == UnderWay \cup {"unwritten", "draft", "accepted", "rejected", "parked", "discarded"}
NoPending == [of |-> None, status |-> "none", ids |-> None, text |-> {}, summarizing |-> FALSE]

TypeOK ==
    /\ scope \in Keys /\ going \in Keys \cup {None} /\ chats \subseteq Chats
    /\ {mounted, overlapped} \subseteq BOOLEAN
    /\ text \in Sends \cup {None} /\ restored \in Sends \cup {None}
    /\ drafts \in [Keys -> Sends \cup {None}]
    /\ step \in [Sends -> Steps]
    /\ from \in [Sends -> Keys \cup {None}] /\ place \in [Sends -> Chats \cup {None}]
    /\ controller \in Sends \cup {None}
    /\ {aborted, begun} \subseteq SUBSET Sends
    /\ heard \in [Sends -> {"nothing", "started", "ended", "refused"}]
    /\ pending \in [of: Sends \cup {None}, status: {"none", "streaming", "done", "error"},
                    ids: Sends \cup {None}, text: SUBSET Sends, summarizing: BOOLEAN]

Init ==
    /\ scope \in {NewPage, Opened} /\ going = None /\ mounted = TRUE /\ chats = {Opened}
    /\ text = None /\ restored = None /\ drafts = [k \in Keys |-> None]
    /\ step = [s \in Sends |-> "unwritten"]
    /\ from = [s \in Sends |-> None] /\ place = [s \in Sends |-> None]
    /\ controller = None /\ aborted = {} /\ begun = {}
    /\ heard = [s \in Sends |-> "nothing"]
    /\ pending = NoPending /\ overlapped = FALSE

isBusy == pending.status = "streaming"

\* setState of a component that is gone does nothing.
SetPending(p) == pending' = IF mounted THEN p ELSE pending

(***************************************************************************)
(* The composer.                                                           *)
(***************************************************************************)
\* The reader types, or picks an example: what was shown is replaced.
Write(s) ==
    /\ mounted /\ step[s] = "unwritten"
    /\ text' = s /\ restored' = None
    /\ drafts' = [drafts EXCEPT ![scope] = s]
    /\ step' = [r \in Sends |->
                  IF r = s THEN "draft"
                  ELSE IF r = text /\ step[r] = "rejected" THEN "discarded"
                  ELSE step[r]]
    /\ UNCHANGED <<page, from, place, stream, overlapped>>

\* What a composer shows whose key has become k.
CarriedNothing(k) == drafts[k]
Carried(k) == IF restored = None THEN drafts[k] ELSE restored

ChangeKey(k) ==
    /\ scope' = k /\ going' = None
    /\ text' = Carried(k) /\ restored' = None
    /\ drafts' = IF restored = None THEN drafts ELSE [drafts EXCEPT ![k] = restored]

\* The reader opens another page; a text that was given back is no longer in
\* front of them because of it.
Navigate(k) ==
    /\ mounted /\ k \in chats \cup {NewPage} /\ k # scope
    /\ ChangeKey(k)
    /\ step' = [s \in Sends |-> IF step[s] = "rejected" THEN "parked" ELSE step[s]]
    /\ UNCHANGED <<mounted, chats, from, place, stream, overlapped>>

\* navigate(`/chats/${created.id}`) commits, early or late.
CommitNavigation ==
    /\ mounted /\ going # None
    /\ ChangeKey(going)
    /\ UNCHANGED <<mounted, chats, step, from, place, stream, overlapped>>

(***************************************************************************)
(* submit, handleSend and the start of send.                               *)
(***************************************************************************)
StartSend(s, chat) ==
    /\ place' = [place EXCEPT ![s] = chat]
    /\ controller' = s
    /\ SetPending([NoPending EXCEPT !.of = s, !.status = "streaming"])

Submit(s) ==
    /\ mounted /\ text = s /\ step[s] = "draft" /\ ~isBusy
    /\ text' = None /\ restored' = None
    /\ drafts' = [drafts EXCEPT ![scope] = None]
    /\ from' = [from EXCEPT ![s] = scope]
    /\ overlapped' = (overlapped \/ \E r \in Sends : step[r] \in UnderWay)
    /\ IF scope = NewPage
       THEN /\ step' = [step EXCEPT ![s] = "creating"]
            /\ pending' = NoPending                       \* dismissError
            /\ UNCHANGED <<place, controller>>
       ELSE step' = [step EXCEPT ![s] = "asking"] /\ StartSend(s, scope)
    /\ UNCHANGED <<page, aborted, begun, heard>>

\* The rest of submit when the send was not accepted.  update() still writes the
\* draft under the key of the render that submitted.
GiveBack(s) ==
    /\ step' = [step EXCEPT ![s] = "rejected"]
    /\ drafts' = [drafts EXCEPT ![from[s]] = s]
    /\ IF mounted THEN text' = s /\ restored' = s ELSE UNCHANGED <<text, restored>>

CreateFails(s) ==
    /\ step[s] = "creating"
    /\ GiveBack(s)
    /\ UNCHANGED <<page, from, place, stream, overlapped>>

Created(s, chat) ==
    /\ step[s] = "creating" /\ chat \notin chats
    /\ chats' = chats \cup {chat}
    /\ place' = [place EXCEPT ![s] = chat]
    /\ step' = [step EXCEPT ![s] = "listing"]
    /\ UNCHANGED <<scope, going, mounted, composer, from, stream, overlapped>>

\* The list of chats is there again: navigate, then send.
Listed(s) ==
    /\ step[s] = "listing"
    /\ going' = IF mounted THEN place[s] ELSE going
    /\ step' = [step EXCEPT ![s] = "asking"]
    /\ StartSend(s, place[s])
    /\ UNCHANGED <<scope, mounted, chats, composer, from, aborted, begun, heard,
                   overlapped>>

(***************************************************************************)
(* streamMessage.  The CSRF request takes no signal; the POST does.        *)
(***************************************************************************)
\* The catch clause, and finally up to its await.
Settles(s, failed) ==
    /\ step' = [step EXCEPT ![s] = "refetching"]
    /\ controller' = None
    /\ SetPending(IF failed /\ s \notin aborted /\ pending # NoPending
                  THEN [pending EXCEPT !.status = "error"] ELSE pending)
    /\ UNCHANGED <<page, composer, from, place, aborted, begun, heard, overlapped>>

CsrfAnswers(s) ==
    /\ step[s] = "asking"
    /\ \/ s \notin aborted
          /\ step' = [step EXCEPT ![s] = "posting"]
          /\ UNCHANGED <<page, composer, from, place, stream, overlapped>>
       \/ Settles(s, TRUE)          \* it failed, or the POST finds the signal aborted

ServerBegins(s) ==
    /\ step[s] \in {"posting", "reading"} /\ s \notin begun
    /\ begun' = begun \cup {s}
    /\ UNCHANGED <<page, composer, step, from, place, controller, aborted, heard,
                   pending, overlapped>>

ResponseOk(s) ==
    /\ step[s] = "posting" /\ s \notin aborted
    /\ step' = [step EXCEPT ![s] = "reading"]
    /\ UNCHANGED <<page, composer, from, place, stream, overlapped>>

\* The response is an error, the connection breaks, or the abort rejects it.
CallFails(s) ==
    /\ step[s] \in {"posting", "reading"}
    /\ Settles(s, TRUE)

StreamCloses(s) ==
    /\ step[s] = "reading" /\ s \notin aborted
    /\ Settles(s, FALSE)

(***************************************************************************)
(* onEvent and applyStreamEvent: whatever is pending takes the event.      *)
(***************************************************************************)
Hears(s, lifecycle, p) ==
    /\ step[s] = "reading" /\ s \notin aborted
    /\ heard' = [heard EXCEPT ![s] = lifecycle]
    /\ SetPending(IF pending = NoPending THEN pending ELSE p)
    /\ UNCHANGED <<page, composer, step, from, place, controller, aborted, begun,
                   overlapped>>

HearStarted(s) ==
    /\ heard[s] = "nothing" /\ s \in begun
    /\ Hears(s, "started", [pending EXCEPT !.ids = s])

HearSummarizing(s) ==
    /\ heard[s] = "started"
    /\ Hears(s, "started", [pending EXCEPT !.summarizing = TRUE])

HearDelta(s) ==
    /\ heard[s] = "started"
    /\ Hears(s, "started", [pending EXCEPT !.summarizing = FALSE, !.text = @ \cup {s}])

\* message.completed and stream.cancelled
HearDone(s) ==
    /\ heard[s] = "started"
    /\ Hears(s, "ended", [pending EXCEPT !.status = "done"])

\* stream.error
HearError(s) ==
    /\ heard[s] \in {"nothing", "started"}
    /\ Hears(s, IF heard[s] = "started" THEN "ended" ELSE "refused", [pending EXCEPT !.status = "error"])

(***************************************************************************)
(* The end of finally and of submit.                                       *)
(***************************************************************************)
ClearedNever == pending
Cleared == IF pending.status = "error" THEN pending ELSE NoPending

Refetched(s) ==
    /\ step[s] = "refetching"
    /\ SetPending(Cleared)
    /\ IF heard[s] \in {"nothing", "refused"}
       THEN GiveBack(s)
       ELSE step' = [step EXCEPT ![s] = "accepted"] /\ UNCHANGED composer
    /\ UNCHANGED <<page, from, place, controller, aborted, begun, heard, overlapped>>

(***************************************************************************)
(* Stop, Dismiss, and leaving for another part of the application.         *)
(***************************************************************************)
Abort == aborted' = IF controller = None THEN aborted ELSE aborted \cup {controller}

Stop ==
    /\ mounted /\ isBusy
    /\ Abort
    /\ UNCHANGED <<page, composer, step, from, place, controller, begun, heard,
                   pending, overlapped>>

Dismiss ==
    /\ mounted /\ pending.status = "error"
    /\ pending' = NoPending
    /\ UNCHANGED <<page, composer, step, from, place, controller, aborted, begun,
                   heard, overlapped>>

Unmount ==
    /\ mounted /\ mounted' = FALSE
    /\ Abort
    /\ text' = None /\ restored' = None /\ pending' = NoPending /\ going' = None
    /\ UNCHANGED <<scope, chats, drafts, step, from, place, controller, begun, heard,
                   overlapped>>

Next ==
    \/ \E s \in Sends :
          \/ Write(s) \/ Submit(s) \/ CreateFails(s) \/ Listed(s)
          \/ \E chat \in Chats : Created(s, chat)
          \/ CsrfAnswers(s) \/ ServerBegins(s) \/ ResponseOk(s) \/ CallFails(s)
          \/ StreamCloses(s) \/ HearStarted(s) \/ HearSummarizing(s) \/ HearDelta(s)
          \/ HearDone(s) \/ HearError(s) \/ Refetched(s)
    \/ \E k \in Keys : Navigate(k)
    \/ CommitNavigation \/ Stop \/ Dismiss \/ Unmount

Spec == Init /\ [][Next]_webVars

(***************************************************************************)
(* Properties.                                                             *)
(***************************************************************************)
\* The page is busy, or keeps a finished stream, only while a send is under way
\* whose finally block will clear it: two sends that overlap may confuse each
\* other's bubble, but never leave the page busy for good.
BusyIsReal ==
    pending.status \in {"streaming", "done"} =>
        \E s \in Sends : step[s] \in InFlight \cup {"refetching"}

\* As long as sends do not overlap: Stop reaches the stream that is shown, the
\* stream that is shown holds its own answer alone, and a text the API did not
\* accept is given back in front of the reader and stays there, whenever the
\* navigation to the new chat commits; or it is a draft if the page is gone
\* (composer.tsx: restored).
AloneInOrder ==
    ~overlapped =>
      /\ isBusy /\ step[pending.of] \in InFlight => controller = pending.of
      /\ pending.text \subseteq {pending.of} /\ pending.ids \in {None, pending.of}
      /\ \A s \in Sends :
           step[s] = "rejected" =>
              IF mounted THEN text = s ELSE \E k \in Keys : drafts[k] = s

=============================================================================
