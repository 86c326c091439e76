------------------------------ MODULE UsersSearch ------------------------------
(***************************************************************************)
(* The search of the administrators' list of users: the text box, its      *)
(* debounce, the address bar and the query whose answer the table shows    *)
(* are four copies of one search that two React effects keep together.     *)
(***************************************************************************)
EXTENDS Naturals

CONSTANTS Texts,         \* what the text box may hold
          Empty,         \* the empty one
          Pages          \* the pages each search finds

TextsAssumption == Empty \in Texts /\ Pages \in [Texts -> Nat \ {0}]

\* What the address says: the search and the page; without page it is the first.
Addresses == [search : Texts, page : UNION {1 .. Pages[s] : s \in Texts}]
Home == [search |-> Empty, page |-> 1]
Nowhere == [search |-> Empty, page |-> 0]

VARIABLES
  url,        \* the address
  behind,     \* the entry of the history that the link in the menu left
  text,       \* searchText
  timer,      \* the debounce: its value, and whether it still runs
  committed,  \* committedSearch
  known,      \* knownUrlSearch
  seen,       \* the search of the last render, on which the first effect depends
  dirty,      \* something changed since the last render
  table       \* the queries under way, those with an answer, and the one shown

searchVars == <<url, behind, text, timer, committed, known, seen, dirty, table>>

Init ==
  \E a \in Addresses :
    /\ a.page <= Pages[a.search]
    /\ url = a /\ behind = Nowhere
    /\ text = a.search /\ committed = a.search /\ known = a.search /\ seen = a.search
    /\ timer = [value |-> a.search, runs |-> TRUE]
    /\ dirty = FALSE
    /\ table = [asked |-> {a}, loaded |-> {}, shown |-> Nowhere]

-----------------------------------------------------------------------------
(* The administrator                                                       *)

Type(s) ==
  /\ s # text
  /\ text' = s /\ dirty' = TRUE
  /\ UNCHANGED <<url, behind, timer, committed, known, seen, table>>

\* The buttons count from the page of the answer on display, which keepPreviousData leaves
\* there while the next one loads.
Turn(p) ==
  /\ table.shown # Nowhere /\ p \in 1 .. Pages[table.shown.search]
  /\ p = table.shown.page + 1 \/ p + 1 = table.shown.page
  /\ url' = [url EXCEPT !.page = p] /\ dirty' = TRUE
  /\ UNCHANGED <<behind, text, timer, committed, known, seen, table>>

\* A changed parameter drops the page from the address.
Updated(s) == [search |-> s, page |-> 1]

\* A new sort or range.
Filter ==
  /\ url' = Updated(url.search) /\ dirty' = TRUE
  /\ UNCHANGED <<behind, text, timer, committed, known, seen, table>>

\* The click comes to a page that is rendered; one in the instant between a replacement of
\* the address and its render would go unseen by the first effect.
Navigate(a) ==
  /\ ~dirty
  /\ url' = a /\ dirty' = TRUE
  /\ UNCHANGED <<text, timer, committed, known, seen, table>>

FollowMenu == url # Home /\ behind' = url /\ Navigate(Home)
Back == behind # Nowhere /\ behind' = Nowhere /\ Navigate(behind)

-----------------------------------------------------------------------------
(* The page                                                                *)

\* The effect of useDebouncedValue: a new value starts its timer over.
\* (..Once: as if a timer that runs were left to run.)
ArmedOnce(value) ==
  IF value = timer.value \/ timer.runs THEN timer ELSE [value |-> value, runs |-> TRUE]
Armed(value) == IF value = timer.value THEN timer ELSE [value |-> value, runs |-> TRUE]

\* A render and its effects: the timer; an address that changed from outside takes the text
\* along; and a search that settled goes to the address, with the first page.  The last one
\* runs after every render, for setParam is another function each time.
Render ==
  /\ dirty
  /\ timer' = Armed(text)
  /\ LET outside == url.search # seen /\ url.search # known
         knows == IF outside THEN url.search ELSE known
         push == committed # knows
     IN /\ text' = IF outside THEN url.search ELSE text
        /\ known' = IF push THEN committed ELSE knows
        /\ url' = IF push THEN Updated(committed) ELSE url
        /\ dirty' = (push \/ text' # text)
  /\ seen' = url.search
  /\ table' = [table EXCEPT !.asked = @ \cup {url},
                            !.shown = IF url \in table.loaded THEN url ELSE @]
  /\ UNCHANGED <<behind, committed>>

Settle ==
  /\ timer.runs
  /\ timer' = [timer EXCEPT !.runs = FALSE]
  /\ dirty' = (dirty \/ committed # timer.value)
  /\ committed' = timer.value
  /\ UNCHANGED <<url, behind, text, known, seen, table>>

\* An answer is shown if it is of the query on the page.
Arrive(a) ==
  /\ a \in table.asked
  /\ table' = [asked |-> table.asked \ {a}, loaded |-> table.loaded \cup {a},
               shown |-> IF ~dirty /\ a = url THEN a ELSE table.shown]
  /\ UNCHANGED <<url, behind, text, timer, committed, known, seen, dirty>>

Next ==
  \/ \E s \in Texts : Type(s)
  \/ \E a \in Addresses : Turn(a.page)
  \/ Filter \/ FollowMenu \/ Back
  \/ Render \/ Settle \/ \E a \in Addresses : Arrive(a)

Spec == Init /\ [][Next]_searchVars

-----------------------------------------------------------------------------
(* Properties                                                              *)

TypeOK ==
  /\ {url} \cup table.asked \cup table.loaded \subseteq Addresses
  /\ {behind, table.shown} \subseteq Addresses \cup {Nowhere}
  /\ {text, committed, known, seen, timer.value} \subseteq Texts
  /\ timer.runs \in BOOLEAN /\ dirty \in BOOLEAN

Settled == ~dirty /\ ~timer.runs /\ url \notin table.asked

\* Once the page is at rest the four copies of the search agree, and the table shows the
\* query of the address: whatever was typed, turned or navigated in between, nothing that
\* was overtaken is applied late.
OneSearch ==
  Settled => /\ {text, committed, known, timer.value} = {url.search}
             /\ table.shown = url
=============================================================================
