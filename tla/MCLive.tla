------------------------------- MODULE MCLive -------------------------------
(***************************************************************************)
(* One instance for TLC of the components with liveness properties.  As in *)
(* MCComponents, the initial state says in part which of them runs; the    *)
(* context window keeps its own variables, the others use s1 to s14 in     *)
(* turn.  Each fairness assumption of a component is restated for its part *)
(* of the run.                                                             *)
(***************************************************************************)
EXTENDS ContextWindow

VARIABLES part, s1, s2, s3, s4, s5, s6, s7, s8, s9, s10, s11, s12, s13, s14

Refresh == INSTANCE AdminSummary WITH
  Cards <- {"a"}, Others <- {"b", "d"}, MaxMessages <- 2, MaxFaults <- 1,
  count <- s1, exists <- s2, summary <- s3, lock <- s4, req <- s5, card <- s6,
  faults <- s7, overlapped <- s8

\* What Ollama may send: all is well; an empty text in between; no newline at the end; an
\* end without "done"; a line that is no JSON; an error of its own; nothing.
SomeReplies ==
  {<<"token", "nl", "nl", "nl", "done", "nl">>,
   <<"token", "nl", "empty", "nl", "token", "nl", "done", "nl">>,
   <<"token", "nl", "token", "nl", "done">>,
   <<"token", "nl", "token">>,
   <<"empty", "nl", "token", "nl", "garbled", "nl", "done", "nl">>,
   <<"token", "nl", "failed", "nl">>,
   <<>>}

Ollama == INSTANCE OllamaClient WITH
  Kinds <- {"stream", "complete", "tags"}, Replies <- SomeReplies,
  kind <- s1, at <- s2, timers <- s3, fired <- s4, signal <- s5, listening <- s6,
  aborted <- s7, body <- s8, reply <- s9, pos <- s10, buffer <- s11, lines <- s12,
  delivered <- s13, outcome <- s14

Session == INSTANCE WebSession WITH
  Tabs <- {"t", "u"}, Budget <- 2,
  row <- s1, login <- s2, replaced <- s3, jar <- s4, view <- s5, call <- s6, spent <- s7

ASSUME LiveAssumption ==
  /\ RoomForNotes
  /\ Refresh!BoundsAssumption /\ Ollama!OllamaAssumption /\ Session!WebSessionAssumption

-----------------------------------------------------------------------------
Off == "off"
Rest8 == <<s9, s10, s11, s12, s13, s14>>
Rest7 == <<s8, Rest8>>
Rest0 == <<s1, s2, s3, s4, s5, s6, s7, Rest7>>
Off8 == s9 = Off /\ s10 = Off /\ s11 = Off /\ s12 = Off /\ s13 = Off /\ s14 = Off
Off7 == s8 = Off /\ Off8
Off0 == /\ s1 = Off /\ s2 = Off /\ s3 = Off /\ s4 = Off /\ s5 = Off /\ s6 = Off /\ s7 = Off
        /\ Off7
liveVars == <<part, vars, Rest0>>

\* Bound: which of the three browsers take part, and with how many faults left.
Browsers(open, past) ==
  /\ {c \in {"a", "b", "d"} : Refresh!Open(c)} = open
  /\ s7 = past

OffWindow == Init /\ history = <<>> /\ \A context \in Contexts : model <= context

LiveInit ==
  \/ part = "window" /\ Init /\ Off0
  \/ /\ part = "summary" /\ OffWindow /\ Refresh!Init /\ Off8
     /\ Browsers({"a"}, 0) \/ Browsers({"a", "b"}, 1) \/ Browsers({"b", "d"}, 0)
  \/ part = "ollama" /\ OffWindow /\ Ollama!Init
  \/ part = "session" /\ OffWindow /\ Session!Init /\ Off7

WindowOnly(A) == part = "window" /\ A /\ UNCHANGED <<part, Rest0>>
SummaryOnly(A) == part = "summary" /\ A /\ UNCHANGED <<part, vars, Rest8>>
OllamaOnly(A) == part = "ollama" /\ A /\ UNCHANGED <<part, vars>>
SessionOnly(A) == part = "session" /\ A /\ UNCHANGED <<part, vars, Rest7>>

WindowStep == part = "window" /\ Next /\ UNCHANGED <<part, Rest0>>
SummaryStep == part = "summary" /\ Refresh!Next /\ UNCHANGED <<part, vars, Rest8>>
OllamaStep == part = "ollama" /\ Ollama!Next /\ UNCHANGED <<part, vars>>
SessionStep == part = "session" /\ Session!Next /\ UNCHANGED <<part, vars, Rest7>>
LiveNext == WindowStep \/ SummaryStep \/ OllamaStep \/ SessionStep

SummaryFairness ==
  /\ \A q \in Refresh!Requests : WF_liveVars(SummaryOnly(Refresh!Serve(q)))
  /\ WF_liveVars(SummaryOnly(Refresh!Poll("a")))
  /\ WF_liveVars(SummaryOnly(Refresh!GetAnswered("a")))
  /\ WF_liveVars(SummaryOnly(Refresh!PostAnswered("a")))
  /\ WF_liveVars(SummaryOnly(Refresh!EndConflict("a")))
  /\ WF_liveVars(SummaryOnly(Refresh!AutoRefresh("a")))
  /\ WF_liveVars(SummaryOnly(Refresh!Expire))
OllamaFairness ==
  WF_liveVars(OllamaOnly(Ollama!Fire("total"))) /\ WF_liveVars(OllamaOnly(Ollama!Yield))
SessionFairness ==
  /\ \A slot \in Session!Slots :
       WF_liveVars(SessionOnly(\/ Session!CsrfArrives(slot) \/ Session!Send(slot)
                               \/ Session!Serve(slot) \/ Session!Deliver(slot)))
  /\ \A t \in {"t", "u"} : SF_liveVars(SessionOnly(Session!Interval(t)))

LiveSpec ==
  /\ LiveInit /\ [][LiveNext]_liveVars
  /\ WF_liveVars(WindowOnly(TakeNotes \/ SendFolded))
  /\ SummaryFairness /\ OllamaFairness /\ SessionFairness

-----------------------------------------------------------------------------
(* Properties: those of the component that runs.                           *)

\* The state of the component that runs stays within its type.
LiveTypes ==
  /\ TypeOK
  /\ part = "summary" => Refresh!TypeOK
  /\ part = "ollama" => Ollama!TypeOK
  /\ part = "session" => Session!TypeOK

\* AdminSummary: the stored summary covers exactly the messages up to its anchor, and no
\* message is billed twice.
SummarySound ==
  part = "summary" => Refresh!CoversThroughAnchor /\ Refresh!NothingBilledTwice

\* OllamaClient: what a finished call says is what happened to it, and it leaves nothing
\* armed.
EndsTruthfully == part = "ollama" => Ollama!EndsTruthfully

\* AdminSummary and OllamaClient: a card never rests on a stale summary without an error
\* to retry from, and a streamed generation or a completion ends even if the server does
\* not.
RequestsEnd ==
  /\ []<>(part = "summary" => ~Refresh!Unsettled("a"))
  /\ []<>(part = "ollama" => ~Ollama!Pending)

\* WebSession: whatever the tabs of a browser do to each other, all of them come to show
\* whether its user is signed in.
TabsAgree == <>[](part = "session" => Session!Agree)
=============================================================================
