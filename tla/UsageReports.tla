----------------------------- MODULE UsageReports -----------------------------
(***************************************************************************)
(* What administrators see of the usage log: the lists of users and of     *)
(* anonymous sessions with their totals, the totals and the breakdown of   *)
(* one of them, and its log page by page, while usage is recorded and      *)
(* visitors sign up.  Time is counted in recorded rows: row i is i's time. *)
(***************************************************************************)
EXTENDS Naturals, Sequences, FiniteSets

CONSTANTS Users, Visitors,   \* accounts, and anonymous sessions
          Nobody,            \* the owner of ADMIN_SUMMARY rows
          Entries,           \* what a row says: [group, input, output]
          Ranges,            \* the ranges asked for
          OpenedLists,       \* bound: the owners and ranges whose log is opened
          MaxRows,           \* bound: rows of the log
          PageSize

OwnersAssumption == Users \cap Visitors = {} /\ Nobody \notin Users \cup Visitors
EntriesAssumption == \A e \in Entries : e.input \in Nat /\ e.output \in Nat
SizesAssumption == MaxRows \in Nat /\ PageSize \in Nat \ {0}

Owners == Users \cup Visitors
Rows == 1 .. MaxRows
\* Without from, or without to, a range is as wide as can be; toUsageRange refuses others.
Times == 0 .. MaxRows + 1
AllTime == [from |-> 0, to |-> MaxRows + 1]
RangesAssumption ==
  /\ Ranges \subseteq {r \in [from : Times, to : Times] : r.from < r.to}
  /\ OpenedLists \subseteq Owners \X Ranges

VARIABLES
  log,        \* the rows of usage_log
  sessions,   \* the anonymous sessions that exist
  chatting,   \* the sessions that have a chat
  walk,       \* an administrator who pages through the log of an owner
  kept        \* the pages of that log the administrator's client has, by number

reportsVars == <<log, sessions, chatting, walk, kept>>

\* due, shown: the rows there were at the first page, and those the pages have had since;
\* rows: the page that has been read while the rows are still to be counted; backward: a
\* page read before the first one has been shown after it.
NoWalk == [owner |-> Nobody, range |-> AllTime, page |-> 0, counting |-> FALSE,
           rows |-> {}, shown |-> {}, due |-> {}, pages |-> 0, pruned |-> FALSE,
           backward |-> FALSE]

\* A page that was read is fresh for 15 s; older: it was read before the first page was.
NoPage == [age |-> "none", rows |-> {}, pages |-> 0, older |-> FALSE]

Init ==
  /\ log = <<>> /\ sessions = Visitors /\ chatting = {}
  /\ walk = NoWalk /\ kept = [p \in Rows |-> NoPage]

-----------------------------------------------------------------------------
(* Reports                                                                 *)

\* toUsageWhere: gte from, lt to.
InWhere(i, range) == range.from <= i /\ i < range.to
Logged(o, range) == {i \in DOMAIN log : log[i].owner = o /\ InWhere(i, range)}

\* A sum of numbers is the number of all their units.
Units(f) == UNION {{x} \X (1 .. f[x]) : x \in DOMAIN f}
Sum(f) == Cardinality(Units(f))
Report(S) ==
  [requests |-> Cardinality(S),
   input |-> Sum([i \in S |-> log[i].input]), output |-> Sum([i \in S |-> log[i].output]),
   last |-> IF S = {} THEN 0 ELSE CHOOSE i \in S : \A j \in S : j <= i]

Totals(o, range) == Report(Logged(o, range))

\* groupBy model and kind.
Groups(S) == [g \in {log[i].group : i \in S} |-> {i \in S : log[i].group = g}]
Breakdown(o, range) ==
  LET groups == Groups(Logged(o, range)) IN [g \in DOMAIN groups |-> Report(groups[g])]

\* The page of one owner.
Detail(o, range) == [usage |-> Totals(o, range), breakdown |-> Breakdown(o, range)]

\* The lists aggregate in SQL of their own.  (..Inclusive: created_at <= to.)
InRangeSqlInclusive(i, range) == range.from <= i /\ i <= range.to
InRangeSql(i, range) == range.from <= i /\ i < range.to
Aggregate(o, range) ==
  Report({i \in DOMAIN log : log[i].owner = o /\ InRangeSql(i, range)})

HasActivity(a) == a \in chatting \/ \E i \in DOMAIN log : log[i].owner = a
ListUsers(range) == [u \in Users |-> Aggregate(u, range)]
ListVisitors(range) == [a \in {v \in sessions : HasActivity(v)} |-> Aggregate(a, range)]

-----------------------------------------------------------------------------
(* The log                                                                 *)

\* UsageRepository.create; the model of the turn comes with the entry.
Record(o, entry) ==
  /\ Len(log) < MaxRows /\ o \in Users \cup sessions \cup {Nobody}
  /\ log' = Append(log, [owner |-> o, group |-> entry.group, input |-> entry.input,
                         output |-> entry.output])
  /\ UNCHANGED <<sessions, chatting, walk, kept>>

CreateChat(v) ==
  /\ v \in sessions \ chatting
  /\ chatting' = chatting \cup {v}
  /\ UNCHANGED <<log, sessions, walk, kept>>

\* The visitor signs up or in: one transaction.
Reassign(v, u) ==
  /\ v \in sessions
  /\ log' = [i \in DOMAIN log |->
               IF log[i].owner = v THEN [log[i] EXCEPT !.owner = u] ELSE log[i]]
  /\ sessions' = sessions \ {v} /\ chatting' = chatting \ {v}
  /\ walk' = [walk EXCEPT !.pruned = @ \/ walk.owner = v]
  /\ UNCHANGED kept

-----------------------------------------------------------------------------
(* Paging through the log of an owner                                      *)

\* skip.  (..Whole: as if pages were counted from 0.)
SkipWhole(page) == page * PageSize
Skip(page) == (page - 1) * PageSize

\* The newest rows come first; take.
Newer(i, S) == {j \in S : j > i}
Page(o, range, page) ==
  LET rows == Logged(o, range) IN
  {i \in rows : Cardinality(Newer(i, rows)) \in Skip(page) .. Skip(page) + PageSize - 1}

\* findRows reads the rows ...
Read(from, page) ==
  LET rows == Page(from.owner, from.range, page) IN
  walk' = [from EXCEPT !.page = page, !.counting = TRUE, !.rows = rows,
                       !.shown = IF page = 1 THEN rows ELSE @ \cup rows,
                       !.due = IF page = 1 THEN Logged(from.owner, from.range) ELSE @,
                       !.pruned = page # 1 /\ @, !.backward = page # 1 /\ @]

\* ... of the page in the address, when a list is opened or its page loaded anew ...
Open(o, range, page) ==
  /\ <<o, range>> \in OpenedLists /\ ~walk.counting
  /\ o \in Users \cup sessions      \* else 404
  /\ Read([NoWalk EXCEPT !.owner = o, !.range = range], page)
  /\ kept' = [p \in Rows |-> NoPage]
  /\ UNCHANGED <<log, sessions, chatting>>

\* ... or again ...
ReadOn(page) ==
  /\ walk.owner \in Users \cup sessions
  /\ Read(walk, page)
  /\ kept' = [p \in Rows |-> [kept[p] EXCEPT !.older = @ \/ (page = 1 /\ kept[p].age # "none")]]
  /\ UNCHANGED <<log, sessions, chatting>>

\* ... and counts them in a second statement, which may see more.
Ceil(total) == IF total = 0 THEN 1 ELSE (total + PageSize - 1) \div PageSize
Count ==
  LET pages == Ceil(Cardinality(Logged(walk.owner, walk.range))) IN
  /\ walk.counting
  /\ walk' = [walk EXCEPT !.counting = FALSE, !.rows = {}, !.pages = pages]
  /\ kept' = [kept EXCEPT ![walk.page] = [age |-> "fresh", rows |-> walk.rows,
                                           pages |-> pages, older |-> FALSE]]
  /\ UNCHANGED <<log, sessions, chatting>>

\* What the client has of the page is shown at once.
ShowKept(page) ==
  /\ walk' = [walk EXCEPT !.page = page, !.pages = kept[page].pages,
                          !.shown = @ \cup kept[page].rows,
                          !.backward = @ \/ kept[page].older]
  /\ UNCHANGED <<log, sessions, chatting, kept>>

\* "Previous" is enabled after the first page, "Next" before the last.
Beside(page) ==
  \/ page = walk.page - 1 /\ page >= 1
  \/ page = walk.page + 1 /\ walk.page < walk.pages

\* A page is read unless the client has it fresh.  (The administrator waits for the
\* answer; of a stale page that is shown meanwhile only what replaces it counts.)
TurnPage(page) ==
  /\ walk.page > 0 /\ ~walk.counting /\ Beside(page)
  /\ \/ kept[page].age = "fresh" /\ ShowKept(page)
     \/ kept[page].age # "fresh" /\ ReadOn(page)

\* The window has the focus again: a stale page is read once more.
Refocus ==
  /\ walk.page > 0 /\ ~walk.counting /\ kept[walk.page].age = "stale"
  /\ ReadOn(walk.page)

\* staleTime, and gcTime of a page that is not shown.
Age(page) ==
  /\ \/ kept[page].age = "fresh" /\ kept' = [kept EXCEPT ![page].age = "stale"]
     \/ kept[page].age = "stale" /\ page # walk.page /\ kept' = [kept EXCEPT ![page] = NoPage]
  /\ UNCHANGED <<log, sessions, chatting, walk>>

Next ==
  \/ \E o \in Owners \cup {Nobody}, e \in Entries : Record(o, e)
  \/ \E v \in Visitors : CreateChat(v) \/ \E u \in Users : Reassign(v, u)
  \/ \E o \in Owners, r \in Ranges, page \in Rows : Open(o, r, page)
  \/ Count \/ Refocus
  \/ \E page \in Rows : TurnPage(page) \/ Age(page)

Spec == Init /\ [][Next]_reportsVars

-----------------------------------------------------------------------------
(* Properties                                                              *)

TypeOK ==
  /\ log \in Seq({[owner |-> o, group |-> e.group, input |-> e.input, output |-> e.output] :
                    o \in Owners \cup {Nobody}, e \in Entries})
  /\ sessions \in SUBSET Visitors /\ chatting \in SUBSET sessions
  /\ walk \in [owner : Owners \cup {Nobody}, range : Ranges \cup {AllTime}, page : Nat, counting : BOOLEAN,
               rows : SUBSET Rows, shown : SUBSET Rows, due : SUBSET Rows, pages : Nat,
               pruned : BOOLEAN, backward : BOOLEAN]
  /\ kept \in [Rows -> [age : {"none", "fresh", "stale"}, rows : SUBSET Rows, pages : Nat,
                         older : BOOLEAN]]

\* The lists and the page of one owner tell the same numbers, although their SQL is written
\* twice; the breakdown adds up to them; and every row that has an owner counts in exactly
\* one list, also after a visitor became a user and the sessions without activity are left
\* out.
AllRequests(list) == Sum([x \in DOMAIN list |-> list[x].requests])
AllInput(list) == Sum([x \in DOMAIN list |-> list[x].input])
AllOutput(list) == Sum([x \in DOMAIN list |-> list[x].output])
ReportsAgree ==
  walk = NoWalk =>      \* on which the reports do not depend
  \A range \in Ranges :
    /\ \A u \in Users : ListUsers(range)[u] = Detail(u, range).usage
    /\ \A v \in DOMAIN ListVisitors(range) :
         ListVisitors(range)[v] = Detail(v, range).usage
    /\ \A o \in Owners :
         LET parts == Detail(o, range).breakdown
             usage == Detail(o, range).usage
         IN /\ AllRequests(parts) = usage.requests
            /\ AllInput(parts) = usage.input /\ AllOutput(parts) = usage.output
    /\ AllRequests(ListUsers(range)) + AllRequests(ListVisitors(range))
         = Cardinality({i \in DOMAIN log : log[i].owner # Nobody /\ InWhere(i, range)})

\* Paging on from a first page that was read to the end shows every row that was there at
\* the first page, however many are recorded meanwhile or come with a visitor who signs up,
\* and also when the administrator turns back and is shown what the client has kept: unless
\* the rows go to a user, or the client shows a page it kept from before the first was read.
NoRowSkipped ==
  walk.page > 0 /\ ~walk.counting /\ walk.page >= walk.pages /\ ~walk.pruned /\ ~walk.backward
    => walk.due \subseteq walk.shown

UsageSound == ReportsAgree /\ NoRowSkipped
=============================================================================
