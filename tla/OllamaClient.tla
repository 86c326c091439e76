---------------------------- MODULE OllamaClient ----------------------------
(***************************************************************************)
(* One call of the Ollama client (ollama-client.service.ts): a streamed    *)
(* generation, a completion that streams internally, or the list of        *)
(* installed models.  Four clocks and the caller's signal race with the    *)
(* answer of the server, which may be silent, trickle, break or lie.       *)
(*                                                                         *)
(* A reply is a sequence of symbols.  "nl" ends a line; every other symbol *)
(* is the text of one line, so a piece of the body that ends between a     *)
(* text and its "nl" is a line cut in two.  A line is named by the place   *)
(* of its text, and several lines are the set of theirs: they are handed   *)
(* out from the first to the last.  A timer's length is left out, and with *)
(* it which of first-token and idle timeout a read gets: an armed timer    *)
(* may fire at any time.                                                   *)
(***************************************************************************)
EXTENDS Naturals, Sequences

CONSTANTS Kinds,    \* calls to make, of "stream", "complete", "tags"
          Replies   \* bodies the server may send: sequences of Symbols

Texts == {"token", "empty", "done", "garbled", "failed"}
Symbols == Texts \cup {"nl"}
Chunks == {"token", "empty", "done"}       \* texts parseChunk accepts
OllamaErrors == {"MODEL_NOT_AVAILABLE", "OLLAMA_UNAVAILABLE",
                 "OLLAMA_TIMEOUT", "OLLAMA_INVALID_RESPONSE"}
NoReply == <<>>

OllamaAssumption ==
    /\ Kinds \subseteq {"stream", "complete", "tags"}
    /\ Replies \subseteq Seq(Symbols)
    /\ \A r \in Replies : \A i \in 1 .. Len(r) - 1 : r[i] = "nl" \/ r[i + 1] = "nl"

VARIABLES
    kind,       \* which method was called
    at,         \* "idle", "fetching", "reading", "yielding", "parsing", "ended"
    timers,     \* armed timers: "total", "connect", "read"
    fired,      \* a timer of this call has fired
    signal,     \* the caller's signal is aborted
    listening,  \* abortFromCaller is registered on the caller's signal
    aborted,    \* the call's own controller is aborted
    body,       \* "none", "open" or "drained": read to its end
    reply,      \* what the server is sending
    pos,        \* how many of its symbols have been read
    buffer,     \* the unfinished line, or none
    lines,      \* whole lines of the last piece, not yet handed out
    delivered,  \* the lines whose chunks the caller got
    outcome     \* "none", "completed", "left", "rethrown" or an OllamaError
ollamaVars == <<kind, at, timers, fired, signal, listening, aborted, body,
                reply, pos, buffer, lines, delivered, outcome>>

TypeOK ==
    /\ kind \in Kinds
    /\ at \in {"idle", "fetching", "reading", "yielding", "parsing", "ended"}
    /\ timers \subseteq {"total", "connect", "read"}
    /\ {fired, signal, listening, aborted} \subseteq BOOLEAN
    /\ body \in {"none", "open", "drained"}
    /\ reply \in Replies \cup {NoReply}
    /\ pos \in 0 .. Len(reply)
    /\ buffer \cup lines \cup delivered \subseteq 1 .. pos
    /\ outcome \in {"none", "completed", "left", "rethrown"} \cup OllamaErrors

Init ==
    /\ kind \in Kinds
    /\ signal \in (IF kind = "tags" THEN {FALSE} ELSE BOOLEAN)
    /\ at = "idle" /\ timers = {} /\ fired = FALSE /\ listening = FALSE
    /\ aborted = FALSE /\ body = "none" /\ reply = NoReply /\ pos = 0
    /\ buffer = {} /\ lines = {} /\ delivered = {}
    /\ outcome = "none"

Streaming == kind # "tags"

\* The catch clause: what a call that failed with err tells its caller.
Caught(err, callerGone, controllerAborted) ==
    IF err \in OllamaErrors THEN err
    ELSE IF callerGone THEN "rethrown"
    ELSE IF controllerAborted THEN "OLLAMA_TIMEOUT"
    ELSE "OLLAMA_UNAVAILABLE"

\* The finally clauses: every timer is cleared, the listener removed.
TimersLeft == {}

Settle(result) ==
    /\ outcome' = result
    /\ at' = "ended"
    /\ timers' = TimersLeft
    /\ listening' = FALSE

Fails(err) == Settle(Caught(err, signal', aborted'))

unchangedInput == <<kind, body, reply, pos, buffer, lines, delivered>>

(***************************************************************************)
(* The request, up to the response's headers.                              *)
(***************************************************************************)
Start ==
    /\ at = "idle"
    /\ aborted' = signal
    /\ UNCHANGED <<fired, signal, unchangedInput>>
    /\ IF signal
       THEN Fails("fetch")            \* fetch rejects an aborted signal at once
       ELSE /\ at' = "fetching"
            /\ timers' = (IF Streaming THEN {"total"} ELSE {}) \cup {"connect"}
            /\ listening' = Streaming
            /\ UNCHANGED outcome

\* fetchWithConnectTimeout and the inner try of streamRequest stop only the
\* connect timer when the headers are there.
AfterHeadersCleared == {}
AfterHeaders == timers \ {"connect"}

HeadersFine ==
    /\ at = "fetching"
    /\ \E r \in Replies : reply' = r
    /\ body' = "open"
    /\ at' = IF Streaming THEN "reading" ELSE "parsing"
    /\ timers' = AfterHeaders \cup (IF Streaming THEN {"read"} ELSE {})
    /\ UNCHANGED <<kind, fired, signal, listening, aborted, pos, buffer, lines,
                   delivered, outcome>>

HeadersBad ==
    /\ at = "fetching"
    /\ UNCHANGED <<fired, signal, aborted, unchangedInput>>
    /\ \E err \in {"fetch", "OLLAMA_UNAVAILABLE"}
                    \cup (IF Streaming THEN {"MODEL_NOT_AVAILABLE"} ELSE {}) :
          Fails(err)

\* response.json() of listInstalledModels: no timer is armed any more.
ParseTags ==
    /\ at = "parsing"
    /\ \E result \in {"completed", "OLLAMA_INVALID_RESPONSE"} : Settle(result)
    /\ UNCHANGED <<fired, signal, aborted, unchangedInput>>

(***************************************************************************)
(* The body: one reader.read() at a time, each with a timer of its own.    *)
(***************************************************************************)
\* The lines of a part of the body: where a text stands in it.
LinesIn(part) == {i \in part \cap DOMAIN reply : reply[i] # "nl"}

\* decoder and split('\n'): of what was left and the piece read up to p, the lines that
\* are ended there, and the rest, which is not.
Ended(texts, p) == {i \in texts : \E j \in i + 1 .. p : reply[j] = "nl"}
CarriedOverLost == {}
CarriedOver == buffer

\* The loop's next turn: take the next line to the caller, or read on.
Continue(rest) ==
    IF rest # {} THEN at' = "yielding" /\ timers' = timers \ {"read"}
    ELSE at' = "reading" /\ timers' = timers \cup {"read"}

ReadPiece ==
    /\ at = "reading" /\ body = "open"
    /\ \E n \in 1 .. Len(reply) - pos :
          LET texts == CarriedOver \cup LinesIn(pos + 1 .. pos + n)
              whole == Ended(texts, pos + n)
          IN /\ pos' = pos + n
             /\ lines' = whole /\ buffer' = texts \ whole
             /\ Continue(whole)
    /\ UNCHANGED <<kind, fired, signal, listening, aborted, body, reply,
                   delivered, outcome>>

\* The body ends: an unfinished last line is handed out too.
ReadEnd ==
    /\ at = "reading" /\ body = "open" /\ pos = Len(reply)
    /\ body' = "drained"
    /\ IF buffer = {}
       THEN Settle("completed") /\ UNCHANGED <<lines, buffer>>
       ELSE /\ lines' = buffer /\ buffer' = {}
            /\ at' = "yielding" /\ timers' = timers \ {"read"}
            /\ UNCHANGED <<listening, outcome>>
    /\ UNCHANGED <<kind, fired, signal, aborted, reply, pos, delivered>>

\* The last piece was read and the body ends while the caller is busy with it.
DrainBehind ==
    /\ at = "yielding" /\ body = "open" /\ pos = Len(reply)
    /\ ~aborted
    /\ body' = "drained"
    /\ UNCHANGED <<kind, at, timers, fired, signal, listening, aborted, reply, pos,
                   buffer, lines, delivered, outcome>>

ReadBroken ==
    /\ at = "reading"
    /\ UNCHANGED <<fired, signal, aborted, unchangedInput>>
    /\ Fails("network")

\* Behind a chunk the loop hands out the rest of its lines, or reads on: an aborted body
\* rejects, a drained one leaves an unfinished line or ends.
GoOn(rest) ==
    \/ /\ rest # {} /\ lines' = rest
       /\ UNCHANGED <<at, timers, listening, outcome, buffer>>
    \/ /\ rest = {} /\ body = "drained" /\ buffer # {}
       /\ lines' = buffer /\ buffer' = {}
       /\ UNCHANGED <<at, timers, listening, outcome>>
    \/ /\ rest = {} /\ body = "drained" /\ buffer = {}
       /\ Settle("completed") /\ lines' = {} /\ UNCHANGED buffer
    \/ /\ rest = {} /\ body = "open" /\ aborted
       /\ Fails("abort") /\ lines' = {} /\ UNCHANGED buffer
    \/ /\ rest = {} /\ body = "open" /\ ~aborted
       /\ Continue({}) /\ lines' = {}
       /\ UNCHANGED <<listening, outcome, buffer>>

\* parseChunk on the next line, and the caller's turn with what it returned.
Yield ==
    /\ at = "yielding"
    /\ UNCHANGED <<kind, fired, signal, aborted, body, reply, pos>>
    /\ \E line \in lines :
         /\ \A other \in lines : line <= other
         /\ IF reply[line] \notin Chunks
            THEN /\ Fails(IF reply[line] = "garbled" THEN "OLLAMA_INVALID_RESPONSE"
                                                    ELSE "OLLAMA_UNAVAILABLE")
                 /\ UNCHANGED <<lines, buffer, delivered>>
            ELSE /\ delivered' = delivered \cup {line}
                 /\ GoOn(lines \ {line})

\* The consumer of streamChat leaves its for-await loop: only finally runs.
Leave ==
    /\ at = "yielding" /\ kind = "stream" /\ delivered # {}
    /\ Settle("left")
    /\ UNCHANGED <<fired, signal, aborted, unchangedInput>>

(***************************************************************************)
(* Timers and the caller's signal.  Between two lines an abort only marks  *)
(* the controller; a fetch or a read in flight rejects with it.            *)
(***************************************************************************)
Fire(timer) ==
    /\ timer \in timers
    /\ fired' = TRUE /\ aborted' = TRUE
    /\ UNCHANGED <<signal, unchangedInput>>
    /\ IF at = "yielding"
       THEN timers' = timers \ {timer} /\ UNCHANGED <<at, listening, outcome>>
       ELSE Fails("abort")

CallerAborts ==
    /\ at \in {"fetching", "reading", "yielding"} /\ Streaming /\ ~signal
    /\ signal' = TRUE
    /\ aborted' = (aborted \/ listening)
    /\ UNCHANGED <<fired, unchangedInput>>
    /\ IF at = "yielding"
       THEN UNCHANGED <<at, timers, listening, outcome>>
       ELSE Fails("abort")

Next ==
    \/ Start \/ HeadersFine \/ HeadersBad \/ ParseTags
    \/ ReadPiece \/ ReadEnd \/ DrainBehind \/ ReadBroken
    \/ Yield \/ Leave
    \/ \E timer \in {"total", "connect", "read"} : Fire(timer)
    \/ CallerAborts

Spec == Init /\ [][Next]_ollamaVars

(***************************************************************************)
(* Properties.                                                             *)
(***************************************************************************)
\* At any time the caller has got the first lines of the body, each once and in order,
\* and only chunks.  What a finished call says is what happened to it, and it leaves
\* nothing armed: "completed" only with every line of the body, however it was cut into
\* pieces; a timeout only when one of its own timers fired and the caller had not given
\* up; the caller's own abort only when it did; never "unavailable" for a call its
\* controller stopped, unless the server said so; and no timer and no listener outlives
\* it (streamRequest's catch and finally).
FirstOf(part, all) == part \subseteq all /\ \A i \in part, j \in all \ part : i < j
EndsTruthfully ==
    /\ FirstOf(delivered, LinesIn(DOMAIN reply))
    /\ delivered \cap (lines \cup buffer) = {}
    /\ \A i \in delivered : reply[i] \in Chunks
    /\ at = "ended" =>
         /\ outcome = "completed" /\ Streaming => delivered = LinesIn(DOMAIN reply)
         /\ outcome = "OLLAMA_TIMEOUT" => fired /\ ~signal
         /\ outcome = "rethrown" => signal
         /\ outcome = "OLLAMA_UNAVAILABLE" /\ aborted =>
                \E i \in DOMAIN reply : reply[i] = "failed"
         /\ timers = {} /\ ~listening

\* Fairness: the total timer fires if it stays armed, and a consumer takes the
\* chunk it was given.  Nothing is assumed of the server, nor of a read's timer,
\* which every piece restarts.
Fairness == WF_ollamaVars(Fire("total")) /\ WF_ollamaVars(Yield)
FairSpec == Spec /\ Fairness

\* A streamed generation or a completion ends although the server may stay
\* silent, or trickle blank lines that restart every read's timer: the total
\* timer outlives the headers (streamRequest clears the connect timer alone).
Pending == Streaming /\ at \notin {"idle", "ended"}
CallEnds == []<>~Pending

=============================================================================
