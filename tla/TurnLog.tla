------------------------------ MODULE TurnLog -------------------------------
(***************************************************************************)
(* What the API promises of the assistant replies of its chats, and no     *)
(* more: a chat has at most one reply being written, a reply is written    *)
(* once and ends once, and its end is final as long as its chat exists.    *)
(* A reply that nobody writes any more because the API process died or     *)
(* PostgreSQL refused its end is abandoned: nothing ever ends it.          *)
(***************************************************************************)
CONSTANTS Requests, Chats, None

VARIABLES reply,  \* reply[r]: how the reply to request r stands
          place   \* place[r]: the chat it belongs to

log == <<reply, place>>

Ended == {"COMPLETED", "FAILED", "CANCELLED"}

Init ==
  /\ reply = [r \in Requests |-> "none"]
  /\ place = [r \in Requests |-> None]

Open(r, c) ==
  /\ reply[r] = "none"
  /\ \A q \in Requests : place[q] = c => reply[q] # "STREAMING"
  /\ reply' = [reply EXCEPT ![r] = "STREAMING"]
  /\ place' = [place EXCEPT ![r] = c]

Close(r) ==
  /\ reply[r] = "STREAMING"
  /\ \E s \in Ended : reply' = [reply EXCEPT ![r] = s]
  /\ UNCHANGED place

\* The writers of these replies are gone.
Abandon(lost) ==
  /\ \A r \in lost : reply[r] = "STREAMING"
  /\ reply' = [r \in Requests |-> IF r \in lost THEN "abandoned" ELSE reply[r]]
  /\ UNCHANGED place

\* The chat is deleted, and its replies with it.
Drop(c) ==
  /\ reply' = [r \in Requests |-> IF place[r] = c THEN "gone" ELSE reply[r]]
  /\ UNCHANGED place

Next ==
  \/ \E r \in Requests : Close(r) \/ \E c \in Chats : Open(r, c)
  \/ \E c \in Chats : Drop(c)
  \/ \E lost \in SUBSET Requests : Abandon(lost)

Safety == Init /\ [][Next]_log

\* Every reply that is still being written is ended.
Spec == Safety /\ \A r \in Requests : WF_log(Close(r))
=============================================================================
