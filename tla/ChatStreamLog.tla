--------------------------- MODULE ChatStreamLog ---------------------------
(***************************************************************************)
(* The mapping under which ChatStream implements TurnLog: the reply of a   *)
(* request is its assistant row, abandoned when it is still STREAMING and  *)
(* the request that would have ended it is over.                           *)
(***************************************************************************)
EXTENDS ChatStream

\* The request is past the last step that could end its reply.
Over(r) == pc[r] \in {"releaseChat", "releaseSlot", "done", "dead"}

RowOf(r) ==
  CASE ~Begun(r)                                      -> "none"
    [] Begun(r) /\ ~Exists(chat[r])                   -> "gone"
    [] Begun(r) /\ Exists(chat[r]) /\ ReplyRow(r).status = "STREAMING" /\ Over(r)
                                                      -> "abandoned"
    [] OTHER                                          -> ReplyRow(r).status

Log == INSTANCE TurnLog WITH
         reply <- [r \in Requests |-> RowOf(r)],
         place <- [r \in Requests |-> IF Begun(r) THEN chat[r] ELSE None]

\* stream() implements the log of turns: one open reply per chat, ended once and
\* for good, and ended or abandoned in every case.
ImplementsTurnLog == Log!Spec
=============================================================================
