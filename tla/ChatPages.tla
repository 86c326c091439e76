------------------------------ MODULE ChatPages ------------------------------
(***************************************************************************)
(* Lists read page by page while they change: the sidebar's list of chats  *)
(* and a chat's list of messages.  Each is a paginated GET whose cursor is *)
(* the last row of the page before, and an infinite query of the browser   *)
(* that shows the pages together, asks for one more, and reads all of them *)
(* again after it was invalidated.                                         *)
(*                                                                         *)
(* A row stands for its id, and a page for the set of its rows: newest     *)
(* first is the order of their times.  A page is read and put into the     *)
(* query's result in one step: what happens between the two changes        *)
(* neither.                                                                *)
(***************************************************************************)
EXTENDS Naturals, Sequences, FiniteSets

CONSTANTS MaxRows,          \* bound: rows ever created
          MaxTouches,       \* bound: chats moved, deleted or archived
          Asked,            \* values of ?limit=; 0 stands for none, or not a number
          DefaultPageSize, MaxPageSize

BoundsAssumption == MaxRows \in Nat /\ MaxTouches \in Nat
PageSizeAssumption ==
  /\ Asked \subseteq Nat /\ MaxPageSize \in Nat \ {0}
  /\ DefaultPageSize \in 1 .. MaxPageSize

Rows == 1 .. MaxRows
Top == 0              \* no cursor: the first page; as a next cursor: no more pages

VARIABLES
  kind,       \* "chats" or "messages"
  limit,      \* the page size the client gets
  time,       \* of the rows that exist: last_message_at, or created_at
  archived,   \* the chats whose archived_at is set
  created,    \* rows created so far
  touches,    \* chats touched so far
  pages,      \* the pages of the query's data
  fetch,      \* the fetch in flight
  shown       \* how pages came about (history variable); see Past

table == <<kind, limit, time, archived, created, touches>>
pagesVars == <<table, pages, fetch, shown>>

\* parsePageSize.  (..Unclamped: whatever was asked for.)
PageSizeUnclamped(asked) == IF asked = 0 THEN DefaultPageSize ELSE asked
PageSize(asked) ==
  IF asked = 0 THEN DefaultPageSize
  ELSE IF asked > MaxPageSize THEN MaxPageSize ELSE asked

\* changed: rows that moved, came or went since the first page was read; cursors: what
\* had become of a cursor when it was used.
Past == [changed : SUBSET Rows, cursors : SUBSET {"gone", "moved"}]
Fresh == [changed |-> {}, cursors |-> {}]
NoFetch == [mode |-> "none", pages |-> <<>>, cursor |-> Top, past |-> Fresh]

Init ==
  /\ kind \in {"chats", "messages"}
  /\ limit \in {PageSize(asked) : asked \in Asked}
  /\ created \in 0 .. MaxRows
  /\ time = [r \in 1 .. created |-> r]
  /\ archived = {} /\ touches = 0
  /\ pages = <<>> /\ fetch = NoFetch /\ shown = Fresh

-----------------------------------------------------------------------------
(* ChatsService.list and .get, and their findMany                          *)

Visible == DOMAIN time \ archived
Newer(r, S) == {q \in S : time[q] > time[r]}

\* Prisma compares with the cursor row as it is now, whether it is visible or not, and
\* then skips one row; there is nothing after a row that is gone.
After(cursor) ==
  IF cursor = Top THEN Visible
  ELSE LET from == {r \in Visible : cursor \in DOMAIN time /\ time[r] <= time[cursor]}
       IN {r \in from : Newer(r, from) # {}}

Take(S, n) == {r \in S : Cardinality(Newer(r, S)) < n}
Oldest(S) == CHOOSE r \in S : \A q \in S : time[r] <= time[q]

\* limit + 1 rows are asked for.  (..Beyond: the row that proves there are more.)
NextCursorBeyond(S) == IF Cardinality(S) > limit THEN Oldest(Take(S, limit + 1)) ELSE Top
NextCursor(S) == IF Cardinality(S) > limit THEN Oldest(Take(S, limit)) ELSE Top

Page(cursor) ==
  [rows |-> Take(After(cursor), limit), next |-> NextCursor(After(cursor))]

-----------------------------------------------------------------------------
(* The rows change: in this browser, in another, or by a stream            *)

Touch(r) ==
  /\ shown' = [shown EXCEPT !.changed = @ \cup {r}]
  /\ fetch' = IF fetch = NoFetch THEN fetch ELSE [fetch EXCEPT !.past.changed = @ \cup {r}]
  /\ UNCHANGED <<kind, limit, pages>>

Now == created + touches + 1

\* createChat, or a message of beginGeneration.
Create ==
  /\ created < MaxRows /\ created' = created + 1
  /\ time' = [r \in DOMAIN time \cup {created'} |-> IF r = created' THEN Now ELSE time[r]]
  /\ Touch(created')
  /\ UNCHANGED <<archived, touches>>

TouchChat(r) ==
  /\ kind = "chats" /\ r \in DOMAIN time
  /\ touches < MaxTouches /\ touches' = touches + 1
  /\ Touch(r)

\* beginGeneration sets last_message_at.
Bump(r) ==
  /\ TouchChat(r)
  /\ time' = [time EXCEPT ![r] = Now]
  /\ UNCHANGED <<archived, created>>

\* delete.
Delete(r) ==
  /\ TouchChat(r)
  /\ time' = [q \in DOMAIN time \ {r} |-> time[q]] /\ archived' = archived \ {r}
  /\ UNCHANGED created

\* update with archived; its other fields leave the order alone.
Archive(r, value) ==
  /\ TouchChat(r) /\ value # (r \in archived)
  /\ archived' = IF value THEN archived \cup {r} ELSE archived \ {r}
  /\ UNCHANGED <<time, created>>

-----------------------------------------------------------------------------
(* useInfiniteQuery, in ChatGroups and ChatPage                            *)

More == pages # <<>> /\ pages[Len(pages)].next # Top

\* "Show more", "Load earlier messages".  It takes the place of a refetch in flight.
FetchNextPage ==
  /\ More /\ fetch.mode # "next"
  /\ fetch' = [mode |-> "next", pages |-> <<>>, cursor |-> pages[Len(pages)].next, past |-> shown]
  /\ UNCHANGED <<table, pages, shown>>

\* The first load; an invalidation, after a rename, a deletion or a stream; the focus.
\* It takes the place of a fetch in flight, but for the first.
Refetch ==
  /\ pages # <<>> \/ fetch.mode = "none"
  /\ fetch' = [NoFetch EXCEPT !.mode = "refetch"]
  /\ UNCHANGED <<table, pages, shown>>

Arrived(past, cursor) ==
  [past EXCEPT !.cursors = @ \cup
     (IF cursor = Top THEN {}
      ELSE IF cursor \notin Visible THEN {"gone"}
      ELSE IF cursor \in past.changed THEN {"moved"} ELSE {})]

\* The next page has come: a refetch goes on, from the cursor of that page, for as many
\* pages as there were and are; then the data change at once.
PageArrives ==
  LET page == Page(fetch.cursor)
      fresh == Append(fetch.pages, page)
      past == IF fetch.cursor = Top THEN Fresh ELSE Arrived(fetch.past, fetch.cursor)
  IN /\ fetch.mode # "none"
     /\ IF /\ fetch.mode = "refetch" /\ page.next # Top
           /\ Len(fresh) < Len(pages)
        THEN /\ fetch' = [fetch EXCEPT !.pages = fresh, !.cursor = page.next, !.past = past]
             /\ UNCHANGED <<pages, shown>>
        ELSE /\ pages' = IF fetch.mode = "next" THEN Append(pages, page) ELSE fresh
             /\ shown' = past
             /\ fetch' = NoFetch
     /\ UNCHANGED table

FetchFails ==
  /\ fetch.mode # "none"
  /\ fetch' = NoFetch
  /\ UNCHANGED <<table, pages, shown>>

\* What is on the screen: of the chats, the pages one after the other; of the messages the
\* oldest page first, and of each the copy that comes first.
Screen == UNION {pages[k].rows : k \in DOMAIN pages}
PageOf(r) ==
  CHOOSE k \in DOMAIN pages :
    r \in pages[k].rows /\ \A l \in DOMAIN pages : r \in pages[l].rows => l <= k

Next ==
  \/ Create
  \/ \E r \in Rows : Bump(r) \/ Delete(r) \/ \E value \in BOOLEAN : Archive(r, value)
  \/ FetchNextPage \/ Refetch \/ PageArrives \/ FetchFails

Spec == Init /\ [][Next]_pagesVars

-----------------------------------------------------------------------------
(* Properties                                                              *)

Pages == [rows : SUBSET Rows, next : Rows \cup {Top}]

TypeOK ==
  /\ kind \in {"chats", "messages"} /\ limit \in 1 .. MaxPageSize
  /\ DOMAIN time \subseteq Rows /\ time \in [DOMAIN time -> Nat] /\ archived \subseteq DOMAIN time
  /\ created \in 0 .. MaxRows /\ touches \in 0 .. MaxTouches
  /\ pages \in Seq(Pages)
  /\ fetch \in [mode : {"none", "next", "refetch"}, pages : Seq(Pages),
                cursor : Rows \cup {Top}, past : Past]
  /\ shown \in Past

\* Paging to the end of the sidebar shows every chat that stayed where it was, unless the
\* chat a cursor named was deleted or archived; and no chat twice, unless a chat that a
\* cursor named moved.  Refetches that race deletions, streams and "Show more" included.
Complete == pages # <<>> /\ ~More
ListComplete ==
  kind = "chats" /\ Complete /\ "gone" \notin shown.cursors =>
    Visible \ shown.changed \subseteq Screen
ListedOnce ==
  kind = "chats" /\ shown.cursors = {} =>
    \A k, l \in DOMAIN pages : pages[k].rows \cap pages[l].rows # {} => k = l

\* The messages on the screen are always a gapless part of the conversation, oldest first,
\* and reach to its beginning when there is nothing more to load.
Gapless ==
  kind = "messages" /\ pages # <<>> =>
    /\ Screen \subseteq DOMAIN time
    /\ \A q, r \in Screen : PageOf(q) < PageOf(r) => time[q] > time[r]
    /\ \A r \in DOMAIN time, q \in Screen :
         time[r] < time[q] /\ (\E p \in Screen : time[p] < time[r]) => r \in Screen
    /\ ~More => \A r \in DOMAIN time, q \in Screen : time[r] < time[q] => r \in Screen

PagesSound == ListComplete /\ ListedOnce /\ Gapless
=============================================================================
