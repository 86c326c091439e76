------------------------------- MODULE Sidebar -------------------------------
(***************************************************************************)
(* The chats in the sidebar of one tab (chat-sidebar.tsx): a chat is       *)
(* renamed or deleted there, the list is loaded again after each, and the  *)
(* page goes on showing whatever chat its address names.  How the list is  *)
(* paginated is the subject of ChatPages.                                  *)
(***************************************************************************)
EXTENDS Naturals, Sequences

CONSTANTS Chats,
          Titles,
          Gone,        \* instead of a title: of a chat that was deleted
          Home,        \* the page of new chats
          MaxChanges   \* bound: changes sent from this sidebar

SidebarAssumption ==
  /\ Gone \notin Titles /\ Home \notin Chats /\ MaxChanges \in Nat

VARIABLES
  stored,    \* the titles in the database
  listed,    \* the titles in the sidebar
  fetch,     \* the loading of the list: the change it followed, and what it has read
  shown,     \* the chat of the page
  changes,   \* the changes sent, in order
  upset,     \* chats of which a change was refused, or an answer or a list lost
  hurried,   \* chats renamed while a change of theirs was under way
  opened     \* chats opened behind their deletion

sidebarVars == <<stored, listed, fetch, shown, changes, upset, hurried, opened>>

Table == [Chats -> Titles \cup {Gone}]
In(table) == {c \in Chats : table[c] # Gone}
Idle == [at |-> "idle", by |-> 0, read |-> [c \in Chats |-> Gone]]
Loading(i) == [Idle EXCEPT !.at = "sent", !.by = i]
UnderWay(c) == \E i \in DOMAIN changes : changes[i].chat = c /\ changes[i].at # "over"

Init ==
  /\ stored \in {t \in Table : In(t) # {}} /\ listed = stored /\ fetch = Idle
  /\ shown \in In(stored) \cup {Home}
  /\ changes = <<>>
  /\ upset = {} /\ hurried = {} /\ opened = {}

-----------------------------------------------------------------------------
(* The reader                                                              *)

\* A deletion whose row is still rendered sees the page change; later ones do not.
Active(i, page) ==
  IF changes[i].at \in {"sent", "answered"} /\ changes[i].chat \in In(listed)
  THEN page = changes[i].chat ELSE changes[i].active

\* A link of the sidebar.
Follow(page) ==
  /\ page \in In(listed) \cup {Home} /\ page # shown
  /\ shown' = page
  /\ changes' = [i \in DOMAIN changes |-> [changes[i] EXCEPT !.active = Active(i, page)]]
  /\ opened' = opened \cup {c \in {page} : \E i \in DOMAIN changes :
                               /\ changes[i].kind = "delete" /\ changes[i].chat = c
                               /\ changes[i].at \in {"settling", "over"}}
  /\ UNCHANGED <<stored, listed, fetch, upset, hurried>>

Send(kind, c, title) ==
  changes' = Append(changes, [kind |-> kind, chat |-> c, title |-> title, at |-> "sent",
                              active |-> kind = "delete" /\ shown = c])

\* submitRename: the title is compared with the one in the list.
Rename(c, title) ==
  /\ c \in In(listed) /\ title # listed[c] /\ Len(changes) < MaxChanges
  /\ Send("rename", c, title)
  /\ hurried' = IF UnderWay(c) THEN hurried \cup {c} ELSE hurried
  /\ UNCHANGED <<stored, listed, fetch, shown, upset, opened>>

\* "Delete", confirmed.
Delete(c) ==
  /\ c \in In(listed) /\ Len(changes) < MaxChanges
  /\ Send("delete", c, Gone)
  /\ UNCHANGED <<stored, listed, fetch, shown, upset, hurried, opened>>

-----------------------------------------------------------------------------
(* The API                                                                 *)

Answered(i, at) == changes' = [changes EXCEPT ![i].at = at]

\* The PATCH or the DELETE of a chat that is there.
Serve(i) ==
  LET c == changes[i].chat IN
  /\ changes[i].at = "sent" /\ c \in In(stored)
  /\ stored' = [stored EXCEPT ![c] = changes[i].title]
  /\ \/ Answered(i, "answered") /\ upset' = upset
     \/ Answered(i, "over") /\ upset' = upset \cup {c}        \* the answer is lost
  /\ UNCHANGED <<listed, fetch, shown, hurried, opened>>

\* Of a chat that is gone it is a 404.
Refuse(i) ==
  /\ changes[i].at = "sent"
  /\ Answered(i, "over") /\ upset' = upset \cup {changes[i].chat}
  /\ UNCHANGED <<stored, listed, fetch, shown, hurried, opened>>

-----------------------------------------------------------------------------
(* The list is loaded again                                                *)

\* A stream has ended, or the window has the focus.
Refetch ==
  /\ fetch.at = "idle" /\ fetch' = Loading(0)
  /\ UNCHANGED <<stored, listed, shown, changes, upset, hurried, opened>>

\* onSuccess: invalidateQueries takes the place of a list under way.
OnSuccess(i) ==
  /\ changes[i].at = "answered"
  /\ fetch' = Loading(i) /\ Answered(i, "settling")
  /\ UNCHANGED <<stored, listed, shown, upset, hurried, opened>>

ReadList ==
  /\ fetch.at = "sent"
  /\ fetch' = [fetch EXCEPT !.at = "read", !.read = stored]
  /\ UNCHANGED <<stored, listed, shown, changes, upset, hurried, opened>>

Arrive ==
  /\ fetch.at = "read"
  /\ listed' = fetch.read /\ fetch' = Idle
  /\ UNCHANGED <<stored, shown, changes, upset, hurried, opened>>

ListFails ==
  /\ fetch.at # "idle"
  /\ fetch' = Idle /\ upset' = Chats
  /\ UNCHANGED <<stored, listed, shown, changes, hurried, opened>>

\* The rest of onSuccess, once the list has been loaded, or its loading cancelled: the
\* page of the deleted chat is left, if it was shown when onSuccess began.
End(i) ==
  /\ changes[i].at = "settling" /\ ~(fetch.at # "idle" /\ fetch.by = i)
  /\ changes' = [changes EXCEPT ![i].at = "over"]
  /\ shown' = IF changes[i].active THEN Home ELSE shown
  /\ UNCHANGED <<stored, listed, fetch, upset, hurried, opened>>

Next ==
  \/ \E page \in Chats \cup {Home} : Follow(page)
  \/ \E c \in Chats : Delete(c) \/ \E title \in Titles : Rename(c, title)
  \/ \E i \in DOMAIN changes : Serve(i) \/ Refuse(i) \/ OnSuccess(i) \/ End(i)
  \/ Refetch \/ ReadList \/ Arrive \/ ListFails

Spec == Init /\ [][Next]_sidebarVars

-----------------------------------------------------------------------------
(* Properties                                                              *)

TypeOK ==
  /\ {stored, listed, fetch.read} \subseteq Table
  /\ fetch.at \in {"idle", "sent", "read"} /\ fetch.by \in 0 .. MaxChanges
  /\ shown \in Chats \cup {Home}
  /\ changes \in Seq([kind : {"rename", "delete"}, chat : Chats, title : Titles \cup {Gone},
                      at : {"sent", "answered", "settling", "over"},
                      active : BOOLEAN])
  /\ upset \cup hurried \cup opened \subseteq Chats

AtRest == fetch.at = "idle" /\ \A i \in DOMAIN changes : changes[i].at = "over"

\* Once every answer is in, the sidebar shows what is stored, and that is the title that
\* was sent last, in whatever order the answers and the lists came; unless a chat was
\* renamed again while a change of it was under way, or something failed.
LastGiven(c) ==
  LET last == CHOOSE i \in DOMAIN changes :
                /\ changes[i].chat = c
                /\ \A j \in DOMAIN changes : changes[j].chat = c => j <= i
  IN changes[last].title
ListFollows ==
  AtRest => \A c \in Chats \ upset :
    /\ listed[c] = stored[c]
    /\ c \notin hurried /\ (\E i \in DOMAIN changes : changes[i].chat = c)
         => stored[c] = LastGiven(c)

\* When the reader's deletions are over the page shows none of the chats they deleted,
\* wherever its links led meanwhile; but a chat that was opened while the list that
\* leaves it out was awaited, or whose answer was lost, is still shown.
DeletedIsLeft ==
  AtRest /\ shown \notin upset \cup opened \cup {Home} => stored[shown] # Gone

SidebarFollows == ListFollows /\ DeletedIsLeft
=============================================================================
