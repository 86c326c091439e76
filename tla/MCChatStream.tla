---------------------------- MODULE MCChatStream ----------------------------
(***************************************************************************)
(* Instances of ChatStream for TLC.                                        *)
(***************************************************************************)
EXTENDS ChatStreamLog, TLC

CONSTANTS r1, r2, r3, c1, c2, anon, user

\* Requests and chats are interchangeable; no property names one of them.
Symmetry == Permutations(Requests) \cup Permutations(Chats)

\* An account's chat is contended by all the requests, a visitor's by all but one: what it
\* adds is its handover to an account under them.
ContentionInit ==
  \E gone \in {{}} \cup {{r} : r \in Requests} :
    /\ InitAfter(gone)
    /\ \A c \in Chats : owner[c] \in Anonymous <=> gone # {}

ContentionSpec == ContentionInit /\ [][Next]_vars

\* A visitor's chat: once it is handed over, the account's request does not meet the
\* visitor's at the slots, only at the chat's lock.
HandoverInit ==
  /\ Init
  /\ \A c \in Chats : owner[c] \in Anonymous /\ messages[c] = <<>>

HandoverSpec == HandoverInit /\ [][Next]_vars
=============================================================================
