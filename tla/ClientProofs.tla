---------------------------- MODULE ClientProofs ----------------------------
(***************************************************************************)
(* What the pages of the two clients promise, for every value of their     *)
(* constants: the devices of the account page, the search of the users'    *)
(* page, the boxes of the models' page, the sidebar, the chat page with    *)
(* its composer, the pages of its lists, and its scroll position.          *)
(***************************************************************************)
EXTENDS Integers, Sequences, SequenceTheorems, FiniteSets, FiniteSetTheorems,
        WellFoundedInduction, TLAPS

-----------------------------------------------------------------------------
(* The account page                                                        *)

CONSTANTS Here, Others, MaxSessions
VARIABLES created, device, live, access, list, fetch, revoke, page, past

Account == INSTANCE Devices

\* This browser has one session, the one of its cookie.
OneHere ==
  /\ access # Account!None => access <= created /\ device[access] = Here
  /\ \A s \in live : device[s] = Here => s = access
  /\ page = "nobody" => access = Account!None /\ fetch.at = "idle"
  /\ page = "user" => access # Account!None

\* What the page, its requests and the history name has been created.
Exist ==
  /\ \A s \in live \cup list.ids \cup past.revoked : s <= created
  /\ revoke.at # "idle" => revoke.id # Account!None /\ revoke.id <= created
  /\ fetch.at # "idle" =>
       fetch.by # Account!None /\ fetch.by <= created /\ device[fetch.by] = Here

\* A request for the list that has passed the guard is of the session of now, and so is
\* every one behind which nothing happened.
AskedNow ==
  /\ fetch.at = "guarded" /\ ~past.torn => fetch.by = access
  /\ fetch.at # "idle" /\ past.fresh => fetch.by = access

\* A list behind which nothing happened is true, once it is not about to be loaded again.
ListedNow ==
  /\ past.fresh /\ access \in live /\ fetch.at = "idle" /\ revoke.at # "answered" =>
       list.ids = live
  /\ past.fresh /\ ~past.torn => list.own = access

\* What the page may revoke, revokes, and revoked is of another device.
OthersOnly ==
  ~past.torn =>
    /\ \A s \in list.ids \ {list.own} : device[s] # Here
    /\ revoke.at # "idle" => device[revoke.id] # Here
    /\ \A s \in past.revoked : device[s] # Here

DevicesInv ==
  Account!TypeOK /\ OneHere /\ Exist /\ AskedNow /\ ListedNow /\ OthersOnly

LEMMA DevicesInit ==
  ASSUME Account!DevicesAssumption, Account!Init
  PROVE  DevicesInv
<1>1. Account!TypeOK
  BY DEF Account!DevicesAssumption, Account!Init, Account!TypeOK, Account!Sessions,
     Account!Devices, Account!Listing, Account!Idle, Account!None
<1>2. OneHere /\ Exist /\ AskedNow /\ ListedNow /\ OthersOnly
  BY DEF Account!DevicesAssumption, Account!Init, Account!Sessions, Account!Idle,
     Account!None, OneHere, Exist, AskedNow, ListedNow, OthersOnly
<1> QED
  BY <1>1, <1>2 DEF DevicesInv

\* What an action of a device does to the page: a session more, and the list is of before.
LEMMA DevicesCreate ==
  ASSUME Account!DevicesAssumption, DevicesInv,
         NEW d \in Account!Devices, NEW old \in SUBSET live, Account!Create(d, old),
         \/ d # Here /\ (\A s \in old : device[s] # Here) /\ access' = access
         \/ d = Here /\ old = {access} /\ access \in live /\ access' = created + 1
  PROVE  DevicesInv'
<1> USE DEF Account!Sessions, Account!None
<1>0. /\ created \in Nat /\ created < MaxSessions /\ MaxSessions \in Nat
      /\ created' = created + 1
      /\ live \subseteq Account!Sessions /\ live' = (live \ old) \cup {created + 1}
      /\ device \in [Account!Sessions -> Account!Devices]
      /\ device' = [device EXCEPT ![created + 1] = d]
      /\ created + 1 \in Account!Sessions
      /\ UNCHANGED <<list, fetch, revoke, page>>
  BY DEF DevicesInv, Account!DevicesAssumption, Account!TypeOK, Account!Create
<1>1. /\ past.torn \in BOOLEAN /\ past.revoked \in SUBSET Account!Sessions
      /\ past' \in [fresh : BOOLEAN, torn : BOOLEAN, revoked : SUBSET Account!Sessions]
      /\ ~past'.fresh /\ past'.revoked = past.revoked
      /\ past'.torn = (past.torn \/ (d = Here /\ fetch.at = "guarded"))
  BY DEF DevicesInv, Account!TypeOK, Account!Create
<1>2. \A s \in Account!Sessions : s <= created => device'[s] = device[s]
  BY <1>0
<1>3. device'[created + 1] = d
  BY <1>0
<1>4. Account!TypeOK'
  BY <1>0, <1>1 DEF DevicesInv, Account!TypeOK, Account!Devices, Account!Listing
<1>5. list \in Account!Listing /\ list.ids \subseteq Account!Sessions /\ revoke.id \in Account!Sessions \cup {0}
      /\ fetch.by \in Account!Sessions \cup {0} /\ access \in Account!Sessions \cup {0}
  BY DEF DevicesInv, Account!TypeOK, Account!Listing
<1>6. OneHere'
  BY <1>0, <1>2, <1>3, <1>5 DEF DevicesInv, OneHere, Exist
<1>7. Exist'
  BY <1>0, <1>1, <1>2, <1>5 DEF DevicesInv, Exist
<1>8. AskedNow'
  BY <1>0, <1>1 DEF DevicesInv, AskedNow
<1>9. ListedNow'
  BY <1>1 DEF ListedNow
<1>10. OthersOnly'
  BY <1>0, <1>1, <1>2, <1>5 DEF DevicesInv, OthersOnly, Exist
<1> QED
  BY <1>4, <1>6, <1>7, <1>8, <1>9, <1>10 DEF DevicesInv

LEMMA DevicesKeep ==
  ASSUME Account!DevicesAssumption, DevicesInv, [Account!Next]_(Account!devicesVars)
  PROVE  DevicesInv'
<1> USE DEF Account!Sessions, Account!None
<1>0. /\ created \in Nat /\ MaxSessions \in Nat
      /\ list.ids \subseteq Account!Sessions /\ live \subseteq Account!Sessions
      /\ past \in [fresh : BOOLEAN, torn : BOOLEAN, revoked : SUBSET Account!Sessions]
      /\ {fetch, revoke} \subseteq [at : {"idle", "sent", "guarded", "answered"},
                                    by : Account!Sessions \cup {0},
                                    id : Account!Sessions \cup {0}]
      /\ access \in Account!Sessions \cup {0}
  BY DEF DevicesInv, Account!TypeOK, Account!Listing, Account!DevicesAssumption
<1>1. ASSUME NEW d \in Account!Devices, Account!SignIn(d)
      PROVE  DevicesInv'
  BY <1>1, DevicesCreate, {} \in SUBSET live DEF Account!SignIn
<1>2. ASSUME NEW d \in Account!Devices, Account!Rotate(d)
      PROVE  DevicesInv'
  <2>1. PICK s \in Account!Of(d) : (d = Here => s = access) /\ Account!Create(d, {s})
    BY <1>2 DEF Account!Rotate
  <2>2. s \in live /\ device[s] = d /\ {s} \in SUBSET live
    BY DEF Account!Of
  <2> QED
    BY <1>2, <2>1, <2>2, DevicesCreate DEF Account!Rotate
<1>3. ASSUME NEW d \in Account!Devices, Account!SignOut(d)
      PROVE  DevicesInv'
  <2>1. /\ past' \in [fresh : BOOLEAN, torn : BOOLEAN, revoked : SUBSET Account!Sessions]
        /\ ~past'.fresh /\ past'.revoked = past.revoked /\ past'.torn = past.torn
    BY <1>0, <1>3 DEF Account!SignOut
  <2>2. Account!TypeOK'
    BY <1>3, <2>1 DEF DevicesInv, Account!SignOut, Account!TypeOK, Account!Devices, Account!Listing
  <2> QED
    BY <1>3, <2>1, <2>2 DEF DevicesInv, Account!SignOut, OneHere, Exist, AskedNow, ListedNow,
       OthersOnly
<1>4. ASSUME Account!Refetch
      PROVE  DevicesInv'
  <2>1. fetch' = [at |-> "sent", by |-> access, id |-> 0]
    BY <1>4 DEF Account!Refetch, Account!Loading, Account!Idle
  <2>2. Account!TypeOK'
    BY <1>4, <2>1 DEF DevicesInv, Account!Refetch, Account!TypeOK, Account!Devices, Account!Listing
  <2> QED
    BY <1>4, <2>1, <2>2 DEF DevicesInv, Account!Refetch, OneHere, Exist, AskedNow, ListedNow,
       OthersOnly
<1>5. ASSUME Account!PassGuard
      PROVE  DevicesInv'
  <2>1. \/ fetch.by \in live /\ fetch' = [fetch EXCEPT !.at = "guarded"]
        \/ fetch.by \notin live /\ fetch' = [at |-> "idle", by |-> 0, id |-> 0]
    BY <1>5 DEF Account!PassGuard, Account!Guarded, Account!Idle
  <2>0. fetch' \in [at : {"idle", "sent", "guarded", "answered"},
                    by : Account!Sessions \cup {0}, id : Account!Sessions \cup {0}]
    BY <1>0, <2>1
  <2>2. Account!TypeOK'
    BY <1>5, <2>0 DEF DevicesInv, Account!PassGuard, Account!TypeOK, Account!Devices, Account!Listing
  <2>3. OneHere' /\ Exist' /\ OthersOnly'
    BY <1>0, <1>5, <2>1 DEF DevicesInv, Account!PassGuard, OneHere, Exist, OthersOnly
  <2>4. AskedNow'
    BY <1>0, <1>5, <2>1 DEF DevicesInv, Account!PassGuard, OneHere, Exist, AskedNow
  <2>5. ListedNow'
    BY <1>0, <1>5, <2>1 DEF DevicesInv, Account!PassGuard, AskedNow, ListedNow
  <2> QED
    BY <2>2, <2>3, <2>4, <2>5 DEF DevicesInv
<1>6. ASSUME Account!ListSessions
      PROVE  DevicesInv'
  <2>1. /\ list' = [ids |-> live, own |-> fetch.by]
        /\ fetch' = [at |-> "idle", by |-> 0, id |-> 0]
        /\ past' \in [fresh : BOOLEAN, torn : BOOLEAN, revoked : SUBSET Account!Sessions]
        /\ past'.fresh /\ past'.revoked = past.revoked /\ past'.torn = past.torn
    BY <1>0, <1>6 DEF Account!ListSessions, Account!Idle
  <2>0. list' \in Account!Listing
    BY <1>0, <2>1 DEF Account!Listing
  <2>2. Account!TypeOK'
    BY <1>6, <2>0, <2>1 DEF DevicesInv, Account!ListSessions, Account!TypeOK, Account!Devices, Account!Listing
  <2>3. OneHere' /\ Exist' /\ AskedNow'
    BY <1>0, <1>6, <2>1 DEF DevicesInv, Account!ListSessions, OneHere, Exist, AskedNow
  <2>4. ListedNow'
    BY <1>0, <1>6, <2>1 DEF DevicesInv, Account!ListSessions, AskedNow, ListedNow
  <2>5. OthersOnly'
    BY <1>0, <1>6, <2>1 DEF DevicesInv, Account!ListSessions, OneHere, AskedNow, OthersOnly
  <2> QED
    BY <2>2, <2>3, <2>4, <2>5 DEF DevicesInv
<1>7. ASSUME NEW s \in Account!Sessions, Account!Revoke(s)
      PROVE  DevicesInv'
  <2>1. revoke' = [at |-> "sent", by |-> access, id |-> s] /\ s \in list.ids \ {list.own}
    BY <1>7 DEF Account!Revoke
  <2>2. Account!TypeOK'
    BY <1>0, <1>7, <2>1 DEF DevicesInv, Account!Revoke, Account!TypeOK, Account!Devices, Account!Listing
  <2> QED
    BY <1>0, <1>7, <2>1, <2>2 DEF DevicesInv, Account!Revoke, OneHere, Exist, AskedNow, ListedNow,
       OthersOnly
<1>8. ASSUME Account!PassRevokeGuard
      PROVE  DevicesInv'
  <2>1. \/ revoke' = [revoke EXCEPT !.at = "guarded"]
        \/ revoke' = [at |-> "idle", by |-> 0, id |-> 0]
    BY <1>8 DEF Account!PassRevokeGuard, Account!Idle
  <2>0. revoke' \in [at : {"idle", "sent", "guarded", "answered"},
                     by : Account!Sessions \cup {0}, id : Account!Sessions \cup {0}]
    BY <1>0, <2>1
  <2>2. Account!TypeOK'
    BY <1>8, <2>0 DEF DevicesInv, Account!PassRevokeGuard, Account!TypeOK, Account!Devices, Account!Listing
  <2> QED
    BY <1>0, <1>8, <2>1, <2>2 DEF DevicesInv, Account!PassRevokeGuard, OneHere, Exist, AskedNow,
       ListedNow, OthersOnly
<1>9. ASSUME Account!RevokeOwnedSession
      PROVE  DevicesInv'
  <2>1. /\ live' = live \ (live \cap {revoke.id}) /\ revoke' = [revoke EXCEPT !.at = "answered"]
        /\ past' \in [fresh : BOOLEAN, torn : BOOLEAN, revoked : SUBSET Account!Sessions]
        /\ past'.fresh = past.fresh /\ past'.torn = past.torn
        /\ past'.revoked = past.revoked \cup (live \cap {revoke.id})
    BY <1>0, <1>9 DEF Account!RevokeOwnedSession, Account!Revoked
  <2>2. Account!TypeOK'
    BY <1>0, <1>9, <2>1 DEF DevicesInv, Account!RevokeOwnedSession, Account!TypeOK, Account!Devices, Account!Listing
  <2>3. OneHere' /\ Exist'
    BY <1>0, <1>9, <2>1 DEF DevicesInv, Account!RevokeOwnedSession, OneHere, Exist
  <2>4. AskedNow' /\ ListedNow' /\ OthersOnly'
    BY <1>0, <1>9, <2>1 DEF DevicesInv, Account!RevokeOwnedSession, AskedNow, ListedNow, OthersOnly
  <2> QED
    BY <2>2, <2>3, <2>4 DEF DevicesInv
<1>10. ASSUME Account!Refresh
       PROVE  DevicesInv'
  <2>1. /\ revoke' = [at |-> "idle", by |-> 0, id |-> 0]
        /\ \/ page = "user" /\ fetch' = [at |-> "sent", by |-> access, id |-> 0]
           \/ page # "user" /\ fetch' = fetch
    BY <1>10 DEF Account!Refresh, Account!Idle, Account!Loading
  <2>2. Account!TypeOK'
    BY <1>0, <1>10, <2>1 DEF DevicesInv, Account!Refresh, Account!TypeOK, Account!Devices, Account!Listing
  <2>3. page \in {"user", "nobody"}
    BY DEF DevicesInv, Account!TypeOK
  <2> QED
    BY <1>0, <1>10, <2>1, <2>2, <2>3 DEF DevicesInv, Account!Refresh, OneHere, Exist, AskedNow,
       ListedNow, OthersOnly
<1>11. ASSUME Account!SignOutAll
       PROVE  DevicesInv'
  <2>1. fetch' = [at |-> "idle", by |-> 0, id |-> 0]
    BY <1>11 DEF Account!SignOutAll, Account!Idle
  <2>2. Account!TypeOK'
    BY <1>0, <1>11, <2>1 DEF DevicesInv, Account!SignOutAll, Account!TypeOK, Account!Devices, Account!Listing
  <2> QED
    BY <1>0, <1>11, <2>1, <2>2 DEF DevicesInv, Account!SignOutAll, OneHere, Exist, AskedNow,
       ListedNow, OthersOnly
<1>12. CASE UNCHANGED Account!devicesVars
  BY <1>12 DEF DevicesInv, Account!devicesVars, Account!TypeOK, OneHere, Exist, AskedNow,
     ListedNow, OthersOnly
<1> QED
  BY <1>1, <1>2, <1>3, <1>4, <1>5, <1>6, <1>7, <1>8, <1>9, <1>10, <1>11, <1>12
     DEF Account!Next

LEMMA DevicesSound ==
  ASSUME DevicesInv
  PROVE  Account!AccountSound
BY DEF DevicesInv, ListedNow, OthersOnly, Account!AccountSound, Account!DevicesListed,
   Account!OwnSessionKept, Account!AtRest

\* The list of the account page is true at rest, and the page never signs its own browser
\* out, unless that browser's session was rotated while a list was served
\* (auth.controller.ts, account-page.tsx).
THEOREM DevicesHold ==
  ASSUME Account!DevicesAssumption
  PROVE  Account!Spec => [](Account!TypeOK /\ Account!AccountSound)
<1>1. Account!Init => DevicesInv
  BY DevicesInit
<1>2. DevicesInv /\ [Account!Next]_(Account!devicesVars) => DevicesInv'
  BY DevicesKeep
<1>3. DevicesInv => Account!TypeOK /\ Account!AccountSound
  BY DevicesSound DEF DevicesInv
<1> QED
  BY <1>1, <1>2, <1>3, PTL DEF Account!Spec

-----------------------------------------------------------------------------
(* The search of the administrators' list of users                         *)

CONSTANTS Texts, Empty, Pages
VARIABLES url, behind, text, timer, committed, known, seen, dirty, table

Search == INSTANCE UsersSearch

SearchTypes ==
  /\ url \in Search!Addresses /\ behind \in Search!Addresses \cup {Search!Nowhere}
  /\ text \in Texts /\ committed \in Texts /\ known \in Texts /\ seen \in Texts
  /\ timer \in [value : Texts, runs : BOOLEAN] /\ dirty \in BOOLEAN
  /\ table \in [asked : SUBSET Search!Addresses, loaded : SUBSET Search!Addresses,
                shown : Search!Addresses \cup {Search!Nowhere}]

\* A search that settled has been committed.
Committed == ~timer.runs => committed = timer.value

\* After a render the copies of the search agree, and the query of the address is asked
\* or shown.
Rendered ==
  ~dirty => /\ text = timer.value
            /\ committed = known /\ seen = known /\ url.search = known
            /\ url \in table.asked \/ table.shown = url

\* An address of another search than the page knows is new to the next render.
Outside == url.search = known \/ (dirty /\ url.search # seen)

SearchInv == SearchTypes /\ Committed /\ Rendered /\ Outside

LEMMA HomePages ==
  ASSUME Search!TextsAssumption
  PROVE  /\ Search!Home \in Search!Addresses
         /\ \A s \in Texts : Search!Updated(s) \in Search!Addresses
         /\ \A a \in Search!Addresses : a.search \in Texts
<1>1. \A s \in Texts : 1 \in 1 .. Pages[s]
  BY DEF Search!TextsAssumption
<1>2. Empty \in Texts
  BY DEF Search!TextsAssumption
<1> QED
  BY <1>1, <1>2 DEF Search!Home, Search!Updated, Search!Addresses

LEMMA SearchInit ==
  ASSUME Search!Init
  PROVE  SearchInv
<1>1. PICK a \in Search!Addresses :
         /\ url = a /\ behind = Search!Nowhere
         /\ text = a.search /\ committed = a.search /\ known = a.search /\ seen = a.search
         /\ timer = [value |-> a.search, runs |-> TRUE]
         /\ dirty = FALSE
         /\ table = [asked |-> {a}, loaded |-> {}, shown |-> Search!Nowhere]
  BY DEF Search!Init
<1>2. a.search \in Texts
  BY DEF Search!Addresses
<1>3. SearchTypes
  BY <1>1, <1>2 DEF SearchTypes
<1> QED
  BY <1>1, <1>2, <1>3 DEF SearchInv, Committed, Rendered, Outside

LEMMA SearchKeeps ==
  ASSUME Search!TextsAssumption, SearchInv, [Search!Next]_(Search!searchVars)
  PROVE  SearchInv'
<1>0. SearchTypes /\ Committed /\ Rendered /\ Outside
  BY DEF SearchInv
<1>1. ASSUME NEW s \in Texts, Search!Type(s)
      PROVE  SearchInv'
  BY <1>0, <1>1 DEF SearchInv, SearchTypes, Committed, Rendered, Outside, Search!Type
<1>2. ASSUME NEW p \in {a.page : a \in Search!Addresses}, Search!Turn(p)
      PROVE  SearchInv'
  <2>1. url' = [url EXCEPT !.page = p] /\ url' \in Search!Addresses /\ url'.search = url.search
    BY <1>0, <1>2 DEF Search!Turn, SearchTypes, Search!Addresses
  <2> QED
    BY <1>0, <1>2, <2>1 DEF SearchInv, SearchTypes, Committed, Rendered, Outside, Search!Turn
<1>3. ASSUME Search!Filter
      PROVE  SearchInv'
  <2>1. url' \in Search!Addresses /\ url'.search = url.search
    BY <1>0, <1>3, HomePages DEF Search!Filter, SearchTypes, Search!Updated
  <2> QED
    BY <1>0, <1>3, <2>1 DEF SearchInv, SearchTypes, Committed, Rendered, Outside, Search!Filter
<1>4. ASSUME NEW a \in Search!Addresses, Search!Navigate(a),
             behind' \in Search!Addresses \cup {Search!Nowhere}
      PROVE  SearchInv'
  BY <1>0, <1>4, HomePages
     DEF SearchInv, SearchTypes, Committed, Rendered, Outside, Search!Navigate
<1>5. ASSUME Search!FollowMenu
      PROVE  SearchInv'
  BY <1>0, <1>4, <1>5, HomePages DEF SearchTypes, Search!FollowMenu
<1>6. ASSUME Search!Back
      PROVE  SearchInv'
  BY <1>0, <1>4, <1>6 DEF SearchTypes, Search!Back
<1>7. ASSUME Search!Render
      PROVE  SearchInv'
  <2> DEFINE outside == url.search # seen /\ url.search # known
             knows == IF outside THEN url.search ELSE known
             push == committed # knows
  <2>1. /\ text' = IF outside THEN url.search ELSE text
        /\ known' = IF push THEN committed ELSE knows
        /\ url' = IF push THEN Search!Updated(committed) ELSE url
        /\ dirty' = (push \/ text' # text)
        /\ seen' = url.search /\ committed' = committed /\ behind' = behind
    BY <1>7 DEF Search!Render
  <2>2. /\ timer' \in [value : Texts, runs : BOOLEAN] /\ timer'.value = text
        /\ timer'.runs \/ timer' = timer
    BY <1>0, <1>7 DEF Search!Render, Search!Armed, SearchTypes
  <2>3. /\ table' \in [asked : SUBSET Search!Addresses, loaded : SUBSET Search!Addresses,
                       shown : Search!Addresses \cup {Search!Nowhere}]
        /\ url \in table'.asked
    BY <1>0, <1>7 DEF Search!Render, SearchTypes
  <2>4. url.search \in Texts /\ url' \in Search!Addresses
    BY <1>0, <2>1, HomePages DEF SearchTypes
  <2>5. Search!Updated(committed).search = committed
    BY DEF Search!Updated
  <2>6. SearchTypes'
    BY <1>0, <2>1, <2>2, <2>3, <2>4 DEF SearchTypes
  <2>7. knows = url.search
    BY <1>0 DEF Outside
  <2> HIDE DEF outside, knows
  <2>8. Committed'
    BY <1>0, <2>1, <2>2 DEF Committed
  <2>9. Rendered' /\ Outside'
    BY <2>1, <2>2, <2>3, <2>5, <2>7 DEF Rendered, Outside
  <2> QED
    BY <2>6, <2>8, <2>9 DEF SearchInv
<1>8. ASSUME Search!Settle
      PROVE  SearchInv'
  <2>1. timer' \in [value : Texts, runs : BOOLEAN] /\ timer'.value = timer.value
    BY <1>0, <1>8 DEF Search!Settle, SearchTypes
  <2> QED
    BY <1>0, <1>8, <2>1 DEF SearchInv, SearchTypes, Committed, Rendered, Outside, Search!Settle
<1>9. ASSUME NEW a \in Search!Addresses, Search!Arrive(a)
      PROVE  SearchInv'
  <2>1. table' \in [asked : SUBSET Search!Addresses, loaded : SUBSET Search!Addresses,
                    shown : Search!Addresses \cup {Search!Nowhere}]
    BY <1>0, <1>9 DEF Search!Arrive, SearchTypes
  <2>2. ~dirty => url \in table'.asked \/ table'.shown = url
    BY <1>0, <1>9 DEF Search!Arrive, Rendered
  <2> QED
    BY <1>0, <1>9, <2>1, <2>2
       DEF SearchInv, SearchTypes, Committed, Rendered, Outside, Search!Arrive
<1>10. CASE UNCHANGED Search!searchVars
  BY <1>0, <1>10
     DEF SearchInv, SearchTypes, Committed, Rendered, Outside, Search!searchVars
<1> QED
  BY <1>1, <1>2, <1>3, <1>5, <1>6, <1>7, <1>8, <1>9, <1>10 DEF Search!Next

LEMMA SearchSound ==
  ASSUME SearchInv
  PROVE  Search!TypeOK /\ Search!OneSearch
<1>1. Search!TypeOK
  BY DEF SearchInv, SearchTypes, Search!TypeOK
<1>2. Search!OneSearch
  BY DEF SearchInv, Committed, Rendered, Search!OneSearch, Search!Settled
<1> QED
  BY <1>1, <1>2

LEMMA SearchTyped == ASSUME SearchInv PROVE Search!TypeOK
BY DEF SearchInv, SearchTypes, Search!TypeOK

\* At rest the text, its debounced copies and the address agree, and the table shows the
\* query of the address (users-page.tsx, use-debounced-value.ts).
THEOREM SearchHolds ==
  ASSUME Search!TextsAssumption
  PROVE  Search!Spec => [](Search!TypeOK /\ Search!OneSearch)
<1>1. Search!Init => SearchInv
  BY SearchInit
<1>2. SearchInv /\ [Search!Next]_(Search!searchVars) => SearchInv'
  BY SearchKeeps
<1>3. SearchInv => Search!TypeOK /\ Search!OneSearch
  BY SearchSound
<1> QED
  BY <1>1, <1>2, <1>3, PTL DEF Search!Spec

-----------------------------------------------------------------------------
(* The administrators' page of models                                      *)

CONSTANTS Models, Contexts, Odd, None, MaxSaves
VARIABLES stored, listed, row, typed, saves, refused, upset, crossed

Boxes == INSTANCE ModelsPage

Tables == [Models -> Contexts \cup {None}]
Loads == [on : BOOLEAN, by : 0 .. MaxSaves, read : Tables]
Saves == [kind : {"update", "create"}, model : Models, context : Contexts,
          base : Contexts \cup {None}, at : {"sent", "answered", "settling", "over"},
          ok : BOOLEAN]
Rows == [Models -> [text : Contexts \cup {Odd, None}, seen : Contexts \cup {None},
                    last : Contexts \cup {None}]]
BoxTypes ==
  /\ stored \in Tables /\ listed \in Tables /\ fetch \in Loads
  /\ row \in Rows
  /\ typed \subseteq Models /\ refused \subseteq Models /\ upset \subseteq Models
  /\ crossed \subseteq Models
  /\ saves \in Seq(Saves) /\ Len(saves) <= MaxSaves

\* A row has seen the list on the page; no model is unlisted again, and the box of a
\* listed one is never without a text.
RowsSeen ==
  \A m \in Models :
    /\ row[m].seen = listed[m]
    /\ listed[m] # None => stored[m] # None /\ row[m].text # None
    /\ fetch.read[m] # None => stored[m] # None

\* An update was sent from a row; what failed has been marked, and a creation that failed
\* ends at once.
SavesSent ==
  \A i \in DOMAIN saves :
    /\ saves[i].kind = "update" => saves[i].base # None
    /\ ~saves[i].ok => saves[i].model \in refused \cup upset
    /\ saves[i].at = "settling" /\ saves[i].kind = "create" => saves[i].ok

\* A stored context is listed, or its list is on the way, or an answer is in that will ask
\* for it.
ListComes ==
  \A m \in Models \ upset :
    \/ \E i \in DOMAIN saves : saves[i].model = m /\ saves[i].at = "answered" /\ saves[i].ok
    \/ fetch.on /\ (Boxes!Listed(fetch.read) = {} \/ fetch.read[m] = stored[m])
    \/ ~fetch.on /\ listed[m] = stored[m]

TypedAnew == \A m \in typed : row[m].last = None
UnlistedEmpty ==
  \A m \in Models \ (refused \cup upset) : listed[m] = None => row[m].text = None

SentOf(m) == {i \in DOMAIN saves : saves[i].model = m /\ saves[i].at = "sent"}

\* A box that was saved and shows another context than the list will see a new one: what is
\* stored is not what the list shows, or will not be, and no change is going to restore it.
NewComes ==
  \A m \in Models \ (typed \cup refused \cup upset \cup crossed) :
    row[m].text # listed[m] =>
      /\ \A i \in SentOf(m) : saves[i].context # listed[m]
      /\ stored[m] # listed[m] \/ SentOf(m) # {}

BoxInv ==
  /\ BoxTypes /\ RowsSeen /\ SavesSent /\ ListComes
  /\ TypedAnew /\ UnlistedEmpty /\ NewComes

\* How a change that was sent moves on.
Moved(s, t, i, a, b) ==
  /\ t \in Seq(Saves) /\ Len(t) = Len(s) /\ DOMAIN t = DOMAIN s
  /\ \A j \in DOMAIN s : j # i => t[j] = s[j]
  /\ \A j \in DOMAIN s : /\ t[j].kind = s[j].kind /\ t[j].model = s[j].model
                         /\ t[j].context = s[j].context /\ t[j].base = s[j].base
  /\ t[i].at = a /\ t[i].ok = b

LEMMA SaveMoves ==
  ASSUME NEW s \in Seq(Saves), NEW i \in DOMAIN s,
         NEW a \in {"sent", "answered", "settling", "over"}, NEW b \in BOOLEAN
  PROVE  /\ Moved(s, [s EXCEPT ![i].at = a, ![i].ok = b], i, a, b)
         /\ b = s[i].ok => Moved(s, [s EXCEPT ![i].at = a], i, a, b)
<1>1. s[i] \in Saves
  OBVIOUS
<1>2. PICK r : r = [s[i] EXCEPT !.at = a, !.ok = b]
  OBVIOUS
<1>3. r \in Saves /\ r.at = a /\ r.ok = b /\ r.kind = s[i].kind /\ r.model = s[i].model
      /\ r.context = s[i].context /\ r.base = s[i].base
  BY <1>1, <1>2 DEF Saves
<1>4. PICK t : t = [s EXCEPT ![i] = r]
  OBVIOUS
<1>5. /\ t = [s EXCEPT ![i].at = a, ![i].ok = b]
      /\ b = s[i].ok => t = [s EXCEPT ![i].at = a]
  BY <1>1, <1>2, <1>4 DEF Saves
<1>6. t \in Seq(Saves) /\ Len(t) = Len(s) /\ DOMAIN t = DOMAIN s
  BY <1>3, <1>4, ExceptSeq
<1>7. Moved(s, t, i, a, b)
  BY <1>3, <1>4, <1>6 DEF Moved
<1> QED
  BY <1>5, <1>7

LEMMA SaveAppended ==
  ASSUME NEW s \in Seq(Saves), NEW r \in Saves, NEW t, t = Append(s, r)
  PROVE  /\ t \in Seq(Saves) /\ Len(t) = Len(s) + 1
         /\ DOMAIN t = DOMAIN s \cup {Len(s) + 1}
         /\ \A j \in DOMAIN s : t[j] = s[j]
         /\ t[Len(s) + 1] = r
  BY AppendProperties

LEMMA BoxInit ==
  ASSUME Boxes!ContextsAssumption, Boxes!MaxSavesAssumption, Boxes!Init
  PROVE  BoxInv
<1>1. /\ stored \in Tables /\ listed = stored
      /\ fetch = [on |-> FALSE, by |-> 0, read |-> [m \in Models |-> None]]
      /\ row = [m \in Models |-> [text |-> stored[m], seen |-> stored[m], last |-> None]]
      /\ typed = {} /\ saves = <<>> /\ refused = {} /\ upset = {} /\ crossed = {}
  BY DEF Boxes!Init, Boxes!Idle, Tables
<1>2. 0 \in 0 .. MaxSaves /\ Len(saves) = 0 /\ DOMAIN saves = {} /\ saves \in Seq(Saves)
  BY <1>1 DEF Boxes!MaxSavesAssumption
<1>3. fetch \in Loads
  BY <1>1, <1>2 DEF Loads, Tables
<1>4. BoxTypes
  BY <1>1, <1>2, <1>3 DEF BoxTypes, Rows, Tables, Boxes!MaxSavesAssumption
<1> QED
  BY <1>1, <1>2, <1>4 DEF BoxInv, RowsSeen, SavesSent, ListComes, TypedAnew, UnlistedEmpty,
     NewComes

\* A box that is typed in, or follows the page: the database and the changes are as before.
LEMMA BoxTyped ==
  ASSUME Boxes!ContextsAssumption, BoxInv,
         NEW m \in Models, NEW c \in Contexts \cup {Odd}, Boxes!Type(m, c)
  PROVE  BoxInv'
<1>0. BoxTypes /\ RowsSeen /\ SavesSent /\ ListComes /\ TypedAnew /\ UnlistedEmpty /\ NewComes
  BY DEF BoxInv
<1>1. /\ row' = [row EXCEPT ![m].text = c, ![m].last = None]
      /\ typed' = typed \cup {m} /\ listed[m] # None /\ c # None
      /\ UNCHANGED <<stored, listed, fetch, saves, refused, upset, crossed>>
  BY DEF Boxes!Type, Boxes!Listed, Boxes!ContextsAssumption
<1>2. BoxTypes'
  BY <1>0, <1>1 DEF BoxTypes, Rows
<1>3. \A n \in Models : /\ row'[n].seen = row[n].seen
                        /\ n # m => row'[n] = row[n]
                        /\ n = m => row'[n].text = c /\ row'[n].last = None
  BY <1>0, <1>1 DEF BoxTypes, Rows
<1>4. RowsSeen'
  BY <1>0, <1>1, <1>3 DEF RowsSeen
<1>6. SavesSent' /\ ListComes'
  BY <1>0, <1>1 DEF SavesSent, ListComes, Boxes!Listed
<1>5. TypedAnew' /\ UnlistedEmpty' /\ NewComes'
  BY <1>0, <1>1, <1>3 DEF BoxTypes, Rows, TypedAnew, UnlistedEmpty, NewComes, SentOf
<1> QED
  BY <1>2, <1>4, <1>5, <1>6 DEF BoxInv

\* A change more, of what the page shows.
LEMMA BoxSaved ==
  ASSUME Boxes!ContextsAssumption, Boxes!MaxSavesAssumption, BoxInv,
         NEW m \in Models, Boxes!SaveContext(m)
  PROVE  BoxInv'
<1> DEFINE c == row[m].text
           goes == c \notin {Odd, listed[m], row[m].last}
           sent == [kind |-> "update", model |-> m, context |-> c, base |-> listed[m],
                    at |-> "sent", ok |-> TRUE]
<1>0. BoxTypes /\ RowsSeen /\ SavesSent /\ ListComes /\ TypedAnew /\ UnlistedEmpty /\ NewComes
  BY DEF BoxInv
<1>1. /\ listed[m] # None /\ Len(saves) < MaxSaves
      /\ saves' = IF goes THEN Append(saves, sent) ELSE saves
      /\ row' = IF goes THEN [row EXCEPT ![m].last = c]
                ELSE IF c = Odd THEN [row EXCEPT ![m].text = listed[m], ![m].last = None] ELSE row
      /\ crossed' = IF goes /\ Boxes!Restores(m) THEN crossed \cup {m} ELSE crossed
      /\ typed' = typed \ {m}
      /\ UNCHANGED <<stored, listed, fetch, refused, upset>>
  BY DEF Boxes!SaveContext, Boxes!Sent, Boxes!Reset, Boxes!Listed
<1>2. /\ row[m] \in [text : Contexts \cup {Odd, None}, seen : Contexts \cup {None},
                     last : Contexts \cup {None}]
      /\ listed[m] \in Contexts /\ c \in Contexts \cup {Odd} /\ c # None
      /\ saves \in Seq(Saves) /\ Len(saves) \in Nat /\ MaxSaves \in Nat
      /\ m \in typed => row[m].last = None
  BY <1>0, <1>1 DEF BoxTypes, Rows, Tables, RowsSeen, TypedAnew, Boxes!ContextsAssumption,
     Boxes!MaxSavesAssumption
<1>3. CASE goes
  <2>1. PICK r : r = sent
    OBVIOUS
  <2>2. /\ r \in Saves /\ r.kind = "update" /\ r.model = m /\ r.context = c
        /\ r.base = listed[m] /\ r.at = "sent" /\ r.ok
    BY <1>2, <1>3, <2>1 DEF Saves
  <2>3. /\ saves' \in Seq(Saves) /\ Len(saves') = Len(saves) + 1
        /\ DOMAIN saves' = DOMAIN saves \cup {Len(saves) + 1}
        /\ \A j \in DOMAIN saves : saves'[j] = saves[j]
        /\ saves'[Len(saves) + 1] = r
    BY <1>1, <1>2, <1>3, <2>1, <2>2, SaveAppended
  <2>4. /\ row' \in Rows
        /\ \A n \in Models : row'[n].text = row[n].text /\ row'[n].seen = row[n].seen
        /\ \A n \in Models \ {m} : row'[n] = row[n]
    BY <1>0, <1>1, <1>2, <1>3 DEF BoxTypes, Rows
  <2> HIDE DEF c, goes, sent
  <2>5. BoxTypes'
    BY <1>0, <1>1, <1>2, <2>3, <2>4 DEF BoxTypes, Rows
  <2>6. RowsSeen'
    BY <1>0, <1>1, <2>4 DEF RowsSeen
  <2>7. SavesSent'
    BY <1>0, <1>1, <1>2, <2>2, <2>3, None \notin Contexts DEF SavesSent, Boxes!ContextsAssumption
  <2>8. ListComes'
    BY <1>0, <1>1, <2>3 DEF ListComes, Boxes!Listed
  <2>9. TypedAnew' /\ UnlistedEmpty'
    BY <1>0, <1>1, <2>4 DEF BoxTypes, Rows, TypedAnew, UnlistedEmpty
  <2>10. NewComes'
    <3> SUFFICES ASSUME NEW n \in Models \ (typed' \cup refused' \cup upset' \cup crossed'),
                        row'[n].text # listed'[n]
                 PROVE  /\ \A i \in SentOf(n)' : saves'[i].context # listed'[n]
                        /\ stored'[n] # listed'[n] \/ SentOf(n)' # {}
      BY DEF NewComes
    <3>1. CASE n = m
      <4>1. ~Boxes!Restores(m)
        BY <1>1, <1>3, <3>1
      <4>2. \A i \in SentOf(n)' : i \in DOMAIN saves => saves'[i].context # listed'[n]
        BY <1>1, <2>3, <3>1, <4>1 DEF SentOf, Boxes!Restores
      <4>3. r.context # listed'[n]
        BY <1>1, <1>3, <2>2, <3>1 DEF goes
      <4>4. Len(saves) + 1 \in SentOf(n)'
        BY <2>2, <2>3, <3>1 DEF SentOf
      <4> QED
        BY <2>3, <4>2, <4>3, <4>4 DEF SentOf
    <3>2. CASE n # m
      <4>1. SentOf(n)' = SentOf(n)
        BY <2>2, <2>3, <3>2 DEF SentOf
      <4>2. \A i \in SentOf(n) : saves'[i] = saves[i]
        BY <2>3 DEF SentOf
      <4>3. n \in Models \ (typed \cup refused \cup upset \cup crossed)
        BY <1>1, <3>2
      <4>4. row[n].text # listed[n] /\ listed'[n] = listed[n] /\ stored'[n] = stored[n]
        BY <1>1, <2>4
      <4>5. /\ \A i \in SentOf(n) : saves[i].context # listed[n]
            /\ stored[n] # listed[n] \/ SentOf(n) # {}
        BY <1>0, <4>3, <4>4 DEF NewComes
      <4> QED
        BY <4>1, <4>2, <4>4, <4>5
    <3> QED
      BY <3>1, <3>2
  <2> QED
    BY <2>5, <2>6, <2>7, <2>8, <2>9, <2>10 DEF BoxInv
<1>4. CASE ~goes
  <2>1. /\ saves' = saves /\ crossed' = crossed
        /\ \A n \in Models : /\ row'[n].seen = row[n].seen
                             /\ n # m => row'[n] = row[n]
                             /\ row'[n] = row[n] \/ (n = m /\ row'[m].text = listed[m])
        /\ row' \in Rows
    BY <1>0, <1>1, <1>2, <1>4 DEF BoxTypes, Rows
  <2>2. row'[m].text = listed[m] \/ (row'[m] = row[m] /\ row[m].last = c)
    BY <1>0, <1>1, <1>2, <1>4 DEF BoxTypes, Rows
  <2>3. BoxTypes'
    BY <1>0, <1>1, <2>1 DEF BoxTypes, Rows
  <2>4. RowsSeen'
    BY <1>0, <1>1, <1>2, <2>1 DEF RowsSeen
  <2>7. SavesSent' /\ ListComes'
    BY <1>0, <1>1, <2>1 DEF SavesSent, ListComes, Boxes!Listed
  <2>5. TypedAnew' /\ UnlistedEmpty'
    BY <1>0, <1>1, <2>1 DEF BoxTypes, Rows, TypedAnew, UnlistedEmpty
  <2>6. NewComes'
    <3> SUFFICES ASSUME NEW n \in Models \ (typed' \cup refused' \cup upset' \cup crossed'),
                        row'[n].text # listed'[n]
                 PROVE  /\ \A i \in SentOf(n) : saves[i].context # listed[n]
                        /\ stored[n] # listed[n] \/ SentOf(n) # {}
      BY <1>1, <2>1 DEF NewComes, SentOf
    <3>1. row'[n] = row[n] /\ n \notin typed
      BY <1>1, <1>2, <2>1, <2>2
    <3> QED
      BY <1>0, <1>1, <2>1, <3>1 DEF NewComes
  <2> QED
    BY <2>3, <2>4, <2>5, <2>6, <2>7 DEF BoxInv
<1> QED
  BY <1>3, <1>4

LEMMA BoxAdded ==
  ASSUME Boxes!ContextsAssumption, Boxes!MaxSavesAssumption, BoxInv,
         NEW m \in Models, NEW c \in Contexts, Boxes!AddModel(m, c)
  PROVE  BoxInv'
<1>0. BoxTypes /\ RowsSeen /\ SavesSent /\ ListComes /\ TypedAnew /\ UnlistedEmpty /\ NewComes
  BY DEF BoxInv
<1>1. PICK r : r = [kind |-> "create", model |-> m, context |-> c, base |-> listed[m],
                    at |-> "sent", ok |-> TRUE]
  OBVIOUS
<1>2. /\ stored[m] = None /\ Len(saves) < MaxSaves
      /\ saves' = Append(saves, r)
      /\ UNCHANGED <<stored, listed, fetch, row, typed, refused, upset, crossed>>
  BY <1>1 DEF Boxes!AddModel, Boxes!Sent, Boxes!Listed
<1>3. /\ r \in Saves /\ r.kind = "create" /\ r.model = m /\ r.at = "sent" /\ r.ok
      /\ saves \in Seq(Saves) /\ Len(saves) \in Nat /\ MaxSaves \in Nat /\ listed[m] = None
  BY <1>0, <1>1, <1>2 DEF BoxTypes, Rows, Tables, Saves, RowsSeen, Boxes!MaxSavesAssumption
<1>4. /\ saves' \in Seq(Saves) /\ Len(saves') = Len(saves) + 1
      /\ DOMAIN saves' = DOMAIN saves \cup {Len(saves) + 1}
      /\ \A j \in DOMAIN saves : saves'[j] = saves[j]
      /\ saves'[Len(saves) + 1] = r
  BY <1>2, <1>3, SaveAppended
<1>5. BoxTypes'
  BY <1>0, <1>2, <1>3, <1>4 DEF BoxTypes, Rows
<1>6. RowsSeen' /\ TypedAnew' /\ UnlistedEmpty'
  BY <1>0, <1>2 DEF RowsSeen, TypedAnew, UnlistedEmpty
<1>7. SavesSent'
  BY <1>0, <1>2, <1>3, <1>4 DEF SavesSent
<1>8. ListComes'
  BY <1>0, <1>2, <1>4 DEF ListComes, Boxes!Listed
<1>9. NewComes'
  <2> SUFFICES ASSUME NEW n \in Models \ (typed \cup refused \cup upset \cup crossed),
                      row[n].text # listed[n]
               PROVE  /\ \A i \in SentOf(n)' : saves'[i].context # listed[n]
                      /\ stored[n] # listed[n] \/ SentOf(n)' # {}
    BY <1>2 DEF NewComes
  <2>1. n # m
    BY <1>0, <1>3 DEF UnlistedEmpty
  <2>2. SentOf(n)' = SentOf(n)
    BY <1>3, <1>4, <2>1 DEF SentOf
  <2>3. \A i \in SentOf(n) : saves'[i] = saves[i]
    BY <1>4 DEF SentOf
  <2> QED
    BY <1>0, <2>2, <2>3 DEF NewComes
<1> QED
  BY <1>5, <1>6, <1>7, <1>8, <1>9 DEF BoxInv

LEMMA BoxArrived ==
  ASSUME Boxes!MaxSavesAssumption, BoxInv, Boxes!Arrive
  PROVE  BoxInv'
<1>0. BoxTypes /\ RowsSeen /\ SavesSent /\ ListComes /\ TypedAnew /\ UnlistedEmpty /\ NewComes
  BY DEF BoxInv
<1>1. /\ fetch.on /\ Boxes!Listed(fetch.read) # {}
      /\ listed' = fetch.read /\ fetch' = [on |-> FALSE, by |-> 0, read |-> [m \in Models |-> None]]
      /\ row' = [m \in Models |->
                   IF row[m].seen = fetch.read[m] THEN row[m]
                   ELSE [row[m] EXCEPT !.text = fetch.read[m], !.seen = fetch.read[m]]]
      /\ typed' = {m \in typed : row'[m] = row[m]}
      /\ UNCHANGED <<stored, saves, refused, upset, crossed>>
  BY DEF Boxes!Arrive, Boxes!Idle
<1>2. fetch.read \in Tables /\ fetch' \in Loads /\ ~fetch'.on
      /\ \A m \in Models : fetch'.read[m] = None
  <2>1. fetch.read \in Tables /\ [m \in Models |-> None] \in Tables /\ 0 \in 0 .. MaxSaves
    BY <1>0 DEF BoxTypes, Rows, Loads, Tables, Boxes!MaxSavesAssumption
  <2>2. fetch' \in Loads /\ ~fetch'.on /\ fetch'.read = [m \in Models |-> None]
    BY <1>1, <2>1 DEF Loads
  <2> QED
    BY <2>1, <2>2
<1>3. /\ row' \in Rows
      /\ \A m \in Models :
           \/ row[m].seen = listed'[m] /\ row'[m] = row[m]
           \/ /\ row[m].seen # listed'[m] /\ row'[m].text = listed'[m]
              /\ row'[m].seen = listed'[m]
  <2> SUFFICES ASSUME NEW m \in Models
               PROVE  /\ row'[m] \in [text : Contexts \cup {Odd, None}, seen : Contexts \cup {None},
                                      last : Contexts \cup {None}]
                      /\ \/ row[m].seen = listed'[m] /\ row'[m] = row[m]
                         \/ /\ row[m].seen # listed'[m] /\ row'[m].text = listed'[m]
                            /\ row'[m].seen = listed'[m]
    BY <1>1 DEF Rows
  <2>1. /\ row[m] \in [text : Contexts \cup {Odd, None}, seen : Contexts \cup {None},
                       last : Contexts \cup {None}]
        /\ fetch.read[m] \in Contexts \cup {None}
    BY <1>0, <1>2 DEF BoxTypes, Rows, Tables
  <2> QED
    BY <1>1, <2>1
<1>4. BoxTypes'
  BY <1>0, <1>1, <1>2, <1>3 DEF BoxTypes, Rows
<1>5. RowsSeen'
  <2> SUFFICES ASSUME NEW m \in Models
               PROVE  /\ row'[m].seen = listed'[m]
                      /\ listed'[m] # None => stored[m] # None /\ row'[m].text # None
                      /\ fetch'.read[m] # None => stored[m] # None
    BY <1>1 DEF RowsSeen
  <2>1. /\ row[m].seen = listed[m]
        /\ listed[m] # None => row[m].text # None
        /\ fetch.read[m] # None => stored[m] # None
    BY <1>0 DEF RowsSeen
  <2>2. listed' = fetch.read /\ UNCHANGED stored
    BY <1>1
  <2>3. CASE row[m].seen = listed'[m] /\ row'[m] = row[m]
    BY <1>2, <2>1, <2>2, <2>3
  <2>4. CASE row'[m].text = listed'[m] /\ row'[m].seen = listed'[m]
    BY <1>2, <2>1, <2>2, <2>4
  <2> QED
    BY <1>3, <2>3, <2>4
<1>6. SavesSent'
  BY <1>0, <1>1 DEF SavesSent
<1>7. ListComes'
  BY <1>0, <1>1, <1>2 DEF ListComes
<1>8. TypedAnew'
  BY <1>0, <1>1 DEF TypedAnew
<1>10. UnlistedEmpty'
  <2> SUFFICES ASSUME NEW m \in Models \ (refused \cup upset), listed'[m] = None
               PROVE  row'[m].text = None
    BY <1>1 DEF UnlistedEmpty
  <2>1. row[m].seen = listed[m] /\ (listed[m] = None => row[m].text = None)
    BY <1>0 DEF RowsSeen, UnlistedEmpty
  <2>2. m \in Models
    OBVIOUS
  <2> QED
    BY <1>3, <2>1, <2>2
<1>9. NewComes'
  <2> SUFFICES ASSUME NEW n \in Models \ (typed' \cup refused \cup upset \cup crossed),
                      row'[n].text # listed'[n]
               PROVE  /\ \A i \in SentOf(n)' : saves'[i].context # listed'[n]
                      /\ stored'[n] # listed'[n] \/ SentOf(n)' # {}
    BY <1>1 DEF NewComes
  <2>0. SentOf(n)' = SentOf(n)
    BY <1>1 DEF SentOf
  <2>1. row'[n] = row[n] /\ listed'[n] = listed[n] /\ n \notin typed
    BY <1>0, <1>1, <1>3 DEF RowsSeen
  <2>2. /\ \A i \in SentOf(n) : saves[i].context # listed[n]
        /\ stored[n] # listed[n] \/ SentOf(n) # {}
    BY <1>0, <2>1 DEF NewComes
  <2> QED
    BY <1>1, <2>0, <2>1, <2>2
<1> QED
  BY <1>4, <1>5, <1>6, <1>7, <1>8, <1>9, <1>10 DEF BoxInv

\* A change that moves on, whatever its answer: what the rows show is as before, and what
\* it leaves to be proved is that the lists still come.
LEMMA BoxMoves ==
  ASSUME Boxes!ContextsAssumption, Boxes!MaxSavesAssumption, BoxInv, NEW i \in DOMAIN saves,
         NEW a \in {"answered", "settling", "over"}, NEW b \in BOOLEAN,
         \/ saves' = [saves EXCEPT ![i].at = a, ![i].ok = b]
         \/ saves' = [saves EXCEPT ![i].at = a] /\ b = saves[i].ok,
         fetch' \in Loads, fetch'.read = fetch.read \/ Boxes!Listed(fetch'.read) = {},
         refused \subseteq refused', refused' \subseteq Models,
         upset \subseteq upset', upset' \subseteq Models,
         ~b => saves[i].model \in refused' \cup upset',
         a = "settling" /\ saves[i].kind = "create" => b,
         \/ UNCHANGED stored /\ (saves[i].at # "sent" \/ saves[i].model \in refused' \cup upset')
         \/ /\ saves[i].at = "sent"
            /\ stored' = [stored EXCEPT ![saves[i].model] = saves[i].context],
         UNCHANGED <<listed, typed, crossed>>,
         row' \in Rows,
         \A m \in Models :
           /\ row'[m].seen = row[m].seen
           /\ row[m].text # None => row'[m].text # None
           /\ row[m].last = None => row'[m].last = None
           /\ m \notin refused' \cup upset' => row'[m] = row[m],
         ListComes'
  PROVE  BoxInv'
<1>0. BoxTypes /\ RowsSeen /\ SavesSent /\ TypedAnew /\ UnlistedEmpty /\ NewComes
  BY DEF BoxInv
<1>1. saves \in Seq(Saves) /\ saves[i] \in Saves
  BY <1>0 DEF BoxTypes, Rows
<1>2. /\ saves' \in Seq(Saves) /\ Len(saves') = Len(saves) /\ DOMAIN saves' = DOMAIN saves
      /\ \A j \in DOMAIN saves : j # i => saves'[j] = saves[j]
      /\ \A j \in DOMAIN saves :
           /\ saves'[j].kind = saves[j].kind /\ saves'[j].model = saves[j].model
           /\ saves'[j].context = saves[j].context /\ saves'[j].base = saves[j].base
      /\ saves'[i].at = a /\ saves'[i].ok = b
  <2>1. a \in {"sent", "answered", "settling", "over"}
    OBVIOUS
  <2>2. /\ Moved(saves, [saves EXCEPT ![i].at = a, ![i].ok = b], i, a, b)
        /\ b = saves[i].ok => Moved(saves, [saves EXCEPT ![i].at = a], i, a, b)
    BY <1>1, <2>1, SaveMoves
  <2>3. Moved(saves, saves', i, a, b)
    BY <2>2
  <2> QED
    BY <2>3 DEF Moved
<1>3. /\ saves[i].model \in Models /\ saves[i].context \in Contexts
      /\ saves[i].context # None
  BY <1>1 DEF Saves, Boxes!ContextsAssumption
<1>4. /\ stored' \in Tables
      /\ \A m \in Models : stored[m] # None => stored'[m] # None
      /\ \A m \in Models : \/ stored'[m] = stored[m]
                           \/ /\ m = saves[i].model /\ saves[i].at = "sent"
                              /\ stored'[m] = saves[i].context
  BY <1>0, <1>3 DEF BoxTypes, Rows, Tables
<1>5. BoxTypes'
  BY <1>0, <1>2, <1>4 DEF BoxTypes, Rows
<1>6. \A m \in Models : fetch'.read[m] # None => stored'[m] # None
  <2>1. ASSUME NEW m \in Models, Boxes!Listed(fetch'.read) = {}
        PROVE  fetch'.read[m] = None
    BY <2>1 DEF Boxes!Listed
  <2> QED
    BY <1>0, <1>4, <2>1 DEF RowsSeen
<1>7. RowsSeen'
  BY <1>0, <1>4, <1>6 DEF RowsSeen
<1>8. SavesSent'
  <2> SUFFICES ASSUME NEW j \in DOMAIN saves
               PROVE  /\ saves'[j].kind = "update" => saves'[j].base # None
                      /\ ~saves'[j].ok => saves'[j].model \in refused' \cup upset'
                      /\ saves'[j].at = "settling" /\ saves'[j].kind = "create" => saves'[j].ok
    BY <1>2 DEF SavesSent
  <2>1. CASE j = i
    BY <1>0, <1>2, <2>1 DEF SavesSent
  <2>2. CASE j # i
    BY <1>0, <1>2, <2>2 DEF SavesSent
  <2> QED
    BY <2>1, <2>2
<1>9. TypedAnew' /\ UnlistedEmpty'
  BY <1>0 DEF BoxTypes, TypedAnew, UnlistedEmpty
<1>10. NewComes'
  <2> SUFFICES ASSUME NEW m \in Models \ (typed \cup refused' \cup upset' \cup crossed),
                      row'[m].text # listed[m]
               PROVE  /\ \A j \in SentOf(m)' : saves'[j].context # listed[m]
                      /\ stored'[m] # listed[m] \/ SentOf(m)' # {}
    BY DEF NewComes
  <2>1. /\ \A j \in SentOf(m) : saves[j].context # listed[m]
        /\ stored[m] # listed[m] \/ SentOf(m) # {}
    BY <1>0 DEF NewComes
  <2>2. SentOf(m)' = SentOf(m) \ {i}
    BY <1>2 DEF SentOf
  <2>3. \A j \in SentOf(m) : saves'[j].context = saves[j].context
    BY <1>2 DEF SentOf
  <2>4. CASE i \notin SentOf(m)
    <3>1. SentOf(m)' = SentOf(m)
      BY <2>2, <2>4
    <3>2. stored'[m] = stored[m]
      BY <1>4, <2>4 DEF SentOf
    <3> QED
      BY <2>1, <2>3, <3>1, <3>2
  <2>5. CASE i \in SentOf(m)
    <3>1. saves[i].model = m /\ saves[i].at = "sent" /\ saves[i].context # listed[m]
      BY <2>1, <2>5 DEF SentOf
    <3>2. stored'[m] = saves[i].context
      BY <1>0, <3>1 DEF BoxTypes, Rows, Tables
    <3> QED
      BY <2>1, <2>2, <2>3, <3>1, <3>2
  <2> QED
    BY <2>4, <2>5
<1> QED
  BY <1>5, <1>7, <1>8, <1>9, <1>10 DEF BoxInv

\* An answer that was waited for is still waited for, if another change moves on.
LEMMA BoxWaits ==
  ASSUME BoxTypes, NEW i \in DOMAIN saves, NEW a, NEW b, Moved(saves, saves', i, a, b),
         saves[i].at = "answered" => ~saves[i].ok, NEW m,
         \E j \in DOMAIN saves : saves[j].model = m /\ saves[j].at = "answered" /\ saves[j].ok
  PROVE  \E j \in DOMAIN saves' :
           saves'[j].model = m /\ saves'[j].at = "answered" /\ saves'[j].ok
<1>1. PICK j \in DOMAIN saves : saves[j].model = m /\ saves[j].at = "answered" /\ saves[j].ok
  OBVIOUS
<1>2. j # i
  BY <1>1
<1>3. j \in DOMAIN saves' /\ saves'[j] = saves[j]
  BY <1>2 DEF Moved
<1> QED
  BY <1>1, <1>3

LEMMA BoxKeeps ==
  ASSUME Boxes!ContextsAssumption, Boxes!MaxSavesAssumption, BoxInv,
         [Boxes!Next]_(Boxes!pageVars)
  PROVE  BoxInv'
<1>0. BoxTypes /\ RowsSeen /\ SavesSent /\ ListComes /\ TypedAnew /\ UnlistedEmpty /\ NewComes
  BY DEF BoxInv
<1>1. \A i \in DOMAIN saves : saves[i] \in Saves
  BY <1>0 DEF BoxTypes
<1>2. ASSUME NEW i \in DOMAIN saves, Boxes!Serve(i)
      PROVE  BoxInv'
  <2>1. PICK b \in BOOLEAN :
          /\ saves[i].at = "sent" /\ stored' = [stored EXCEPT ![saves[i].model] = saves[i].context]
          /\ saves' = [saves EXCEPT ![i].at = "answered", ![i].ok = b]
          /\ upset' = IF b THEN upset ELSE upset \cup {saves[i].model}
          /\ UNCHANGED <<listed, fetch, row, typed, refused, crossed>>
    BY <1>2 DEF Boxes!Serve, Boxes!Answered
  <2>2. Moved(saves, [saves EXCEPT ![i].at = "answered", ![i].ok = b], i, "answered", b)
    BY <1>0, SaveMoves DEF BoxTypes
  <2>3. Moved(saves, saves', i, "answered", b)
    BY <2>1, <2>2
  <2>4. ListComes'
    <3> SUFFICES ASSUME NEW m \in Models \ upset'
                 PROVE  \/ \E j \in DOMAIN saves' : /\ saves'[j].model = m
                                                    /\ saves'[j].at = "answered" /\ saves'[j].ok
                        \/ fetch.on /\ (Boxes!Listed(fetch.read) = {} \/ fetch.read[m] = stored'[m])
                        \/ ~fetch.on /\ listed[m] = stored'[m]
      BY <2>1 DEF ListComes, Boxes!Listed
    <3>1. CASE m = saves[i].model
      BY <2>1, <2>3, <3>1 DEF Moved
    <3>2. CASE m # saves[i].model
      <4>1. stored'[m] = stored[m] /\ m \in Models \ upset
        BY <1>0, <2>1, <3>2 DEF BoxTypes, Tables
      <4> QED
        BY <1>0, <2>1, <2>3, <4>1, BoxWaits DEF ListComes
    <3> QED
      BY <3>1, <3>2
  <2>5. fetch' \in Loads /\ row' \in Rows /\ upset \subseteq upset' /\ upset' \subseteq Models
    BY <1>0, <1>1, <2>1 DEF BoxTypes, Saves
  <2>6. refused' \subseteq Models /\ (~b => saves[i].model \in refused' \cup upset')
    BY <1>0, <2>1 DEF BoxTypes
  <2> QED
    BY <2>1, <2>4, <2>5, <2>6, BoxMoves
<1>3. ASSUME NEW i \in DOMAIN saves, Boxes!Refuse(i)
      PROVE  BoxInv'
  <2>1. /\ saves[i].at = "sent"
        /\ saves' = [saves EXCEPT ![i].at = "answered", ![i].ok = FALSE]
        /\ refused' = refused \cup {saves[i].model}
        /\ UNCHANGED <<stored, listed, fetch, row, typed, upset, crossed>>
    BY <1>3 DEF Boxes!Refuse, Boxes!Answered
  <2>2. Moved(saves, [saves EXCEPT ![i].at = "answered", ![i].ok = FALSE], i, "answered", FALSE)
    BY <1>0, SaveMoves DEF BoxTypes
  <2>3. Moved(saves, saves', i, "answered", FALSE)
    BY <2>1, <2>2
  <2>4. ListComes'
    <3> SUFFICES ASSUME NEW m \in Models \ upset
                 PROVE  \/ \E j \in DOMAIN saves' : /\ saves'[j].model = m
                                                    /\ saves'[j].at = "answered" /\ saves'[j].ok
                        \/ fetch.on /\ (Boxes!Listed(fetch.read) = {} \/ fetch.read[m] = stored[m])
                        \/ ~fetch.on /\ listed[m] = stored[m]
      BY <2>1 DEF ListComes, Boxes!Listed
    <3> QED
      BY <1>0, <2>1, <2>3, BoxWaits DEF ListComes
  <2>5. /\ fetch' \in Loads /\ row' \in Rows /\ upset' \subseteq Models
        /\ refused \subseteq refused' /\ refused' \subseteq Models
    BY <1>0, <1>1, <2>1 DEF BoxTypes, Saves
  <2> QED
    BY <2>1, <2>4, <2>5, BoxMoves
<1>4. ASSUME NEW i \in DOMAIN saves, Boxes!Settle(i)
      PROVE  BoxInv'
  <2> DEFINE refresh == saves[i].ok \/ saves[i].kind = "update"
  <2>1. /\ saves[i].at = "answered"
        /\ fetch' = IF refresh THEN Boxes!Reloaded(i) ELSE fetch
        /\ saves' = [saves EXCEPT ![i].at = IF refresh THEN "settling" ELSE "over"]
        /\ UNCHANGED <<stored, listed, row, typed, refused, upset, crossed>>
    BY <1>4 DEF Boxes!Settle
  <2>2. /\ saves[i].ok \in BOOLEAN /\ saves[i].kind \in {"update", "create"}
        /\ i \in 0 .. MaxSaves /\ row' \in Rows /\ refused' \subseteq Models
        /\ upset' \subseteq Models /\ (~saves[i].ok => saves[i].model \in refused' \cup upset')
    BY <1>0, <1>1, <2>1 DEF BoxTypes, Saves, SavesSent, Boxes!MaxSavesAssumption
  <2>3. CASE refresh
    <3>1. [m \in Models |-> None] \in Tables
      BY DEF Tables
    <3>2. fetch' \in Loads /\ fetch'.on /\ fetch'.read = [m \in Models |-> None]
      <4>1. PICK idle : idle = Boxes!Idle
        OBVIOUS
      <4>2. idle \in Loads /\ idle.read = [m \in Models |-> None]
        BY <2>2, <3>1, <4>1 DEF Boxes!Idle, Loads, Boxes!MaxSavesAssumption
      <4>3. fetch' = [idle EXCEPT !.on = TRUE, !.by = i]
        BY <2>1, <2>3, <4>1 DEF Boxes!Reloaded, Boxes!Loading
      <4> QED
        BY <2>2, <4>2, <4>3 DEF Loads
    <3>3. Boxes!Listed(fetch'.read) = {}
      BY <3>2 DEF Boxes!Listed
    <3>4. ListComes'
      BY <3>2, <3>3 DEF ListComes, Boxes!Listed
    <3>5. saves' = [saves EXCEPT ![i].at = "settling"]
      BY <2>1, <2>3
    <3>6. saves[i].kind = "create" => saves[i].ok
      BY <2>3
    <3> QED
      BY <2>1, <2>2, <3>2, <3>3, <3>4, <3>5, <3>6, BoxMoves
  <2>4. CASE ~refresh
    <3>1. saves' = [saves EXCEPT ![i].at = "over"] /\ fetch' = fetch /\ ~saves[i].ok
      BY <2>1, <2>4
    <3>2. Moved(saves, [saves EXCEPT ![i].at = "over"], i, "over", saves[i].ok)
      BY <1>0, <2>2, SaveMoves DEF BoxTypes
    <3>3. Moved(saves, saves', i, "over", saves[i].ok)
      BY <3>1, <3>2
    <3>4. ListComes'
      <4> SUFFICES ASSUME NEW m \in Models \ upset
                   PROVE  \/ \E j \in DOMAIN saves' : /\ saves'[j].model = m
                                                      /\ saves'[j].at = "answered" /\ saves'[j].ok
                          \/ fetch.on /\ (Boxes!Listed(fetch.read) = {} \/ fetch.read[m] = stored[m])
                          \/ ~fetch.on /\ listed[m] = stored[m]
        BY <2>1, <3>1 DEF ListComes, Boxes!Listed
      <4> QED
        BY <1>0, <2>1, <3>1, <3>3, BoxWaits DEF ListComes
    <3>5. fetch' \in Loads
      BY <1>0, <3>1 DEF BoxTypes
    <3> QED
      BY <2>1, <2>2, <3>1, <3>4, <3>5, BoxMoves
  <2> QED
    BY <2>3, <2>4
<1>5. ASSUME NEW i \in DOMAIN saves, Boxes!End(i)
      PROVE  BoxInv'
  <2> DEFINE m == saves[i].model
             resets == ~saves[i].ok /\ Boxes!LastUpdate(i)
  <2>1. /\ saves[i].at = "settling" /\ saves' = [saves EXCEPT ![i].at = "over"]
        /\ row' = IF resets THEN [row EXCEPT ![m].text = saves[i].base, ![m].last = None] ELSE row
        /\ UNCHANGED <<stored, listed, fetch, typed, refused, upset, crossed>>
    BY <1>5 DEF Boxes!End, Boxes!Reset
  <2>2. /\ saves[i].ok \in BOOLEAN /\ m \in Models /\ saves[i].base \in Contexts \cup {None}
        /\ ~saves[i].ok => m \in refused \cup upset /\ saves[i].base # None
        /\ saves[i].kind = "create" => saves[i].ok
    BY <1>0, <1>1, <2>1 DEF Saves, SavesSent
  <2>3. Moved(saves, [saves EXCEPT ![i].at = "over"], i, "over", saves[i].ok)
    BY <1>0, <2>2, SaveMoves DEF BoxTypes
  <2>4. Moved(saves, saves', i, "over", saves[i].ok)
    BY <2>1, <2>3
  <2>5. ListComes'
    <3> SUFFICES ASSUME NEW n \in Models \ upset
                 PROVE  \/ \E j \in DOMAIN saves' : /\ saves'[j].model = n
                                                    /\ saves'[j].at = "answered" /\ saves'[j].ok
                        \/ fetch.on /\ (Boxes!Listed(fetch.read) = {} \/ fetch.read[n] = stored[n])
                        \/ ~fetch.on /\ listed[n] = stored[n]
      BY <2>1 DEF ListComes, Boxes!Listed
    <3> QED
      BY <1>0, <2>1, <2>4, BoxWaits DEF ListComes
  <2>6. /\ row' \in Rows
        /\ \A n \in Models :
             /\ row'[n].seen = row[n].seen
             /\ row[n].text # None => row'[n].text # None
             /\ row[n].last = None => row'[n].last = None
             /\ n \notin refused \cup upset => row'[n] = row[n]
    <3>1. row \in Rows
      BY <1>0 DEF BoxTypes
    <3>2. CASE resets
      BY <2>1, <2>2, <3>1, <3>2 DEF Rows
    <3>3. CASE ~resets
      BY <2>1, <3>1, <3>3
    <3> QED
      BY <3>2, <3>3
  <2>7. /\ fetch' \in Loads /\ refused' \subseteq Models /\ upset' \subseteq Models
    BY <1>0, <2>1 DEF BoxTypes
  <2> QED
    BY <2>1, <2>2, <2>5, <2>6, <2>7, BoxMoves
<1>6. ASSUME Boxes!ReadList
      PROVE  BoxInv'
  <2>1. /\ fetch.on /\ fetch' = [fetch EXCEPT !.read = stored]
        /\ UNCHANGED <<stored, listed, row, typed, saves, refused, upset, crossed>>
    BY <1>6 DEF Boxes!ReadList
  <2>2. fetch' \in Loads /\ fetch'.on /\ fetch'.read = stored
    BY <1>0, <2>1 DEF BoxTypes, Loads
  <2>3. BoxTypes'
    BY <1>0, <2>1, <2>2 DEF BoxTypes
  <2>4. RowsSeen' /\ SavesSent'
    BY <1>0, <2>1, <2>2 DEF RowsSeen, SavesSent
  <2>5. ListComes'
    BY <2>1, <2>2 DEF ListComes
  <2>6. TypedAnew' /\ UnlistedEmpty' /\ NewComes'
    BY <1>0, <2>1 DEF TypedAnew, UnlistedEmpty, NewComes, SentOf
  <2> QED
    BY <2>3, <2>4, <2>5, <2>6 DEF BoxInv
<1>7. ASSUME NEW m \in Models, NEW c \in Contexts, Boxes!Elsewhere(m, c)
      PROVE  BoxInv'
  <2>1. /\ stored' = [stored EXCEPT ![m] = c] /\ upset' = upset \cup {m}
        /\ UNCHANGED <<listed, fetch, row, typed, saves, refused, crossed>>
    BY <1>7 DEF Boxes!Elsewhere
  <2>2. /\ stored' \in Tables /\ c # None
        /\ \A n \in Models \ {m} : stored'[n] = stored[n]
        /\ stored'[m] = c
    BY <1>0, <2>1 DEF BoxTypes, Tables, Boxes!ContextsAssumption
  <2>3. BoxTypes'
    BY <1>0, <2>1, <2>2 DEF BoxTypes
  <2>4. RowsSeen' /\ SavesSent'
    BY <1>0, <2>1, <2>2 DEF RowsSeen, SavesSent
  <2>5. ListComes'
    BY <1>0, <2>1, <2>2 DEF ListComes, Boxes!Listed
  <2>6. TypedAnew' /\ UnlistedEmpty' /\ NewComes'
    BY <1>0, <2>1, <2>2 DEF TypedAnew, UnlistedEmpty, NewComes, SentOf
  <2> QED
    BY <2>3, <2>4, <2>5, <2>6 DEF BoxInv
<1>8. ASSUME Boxes!ListFails
      PROVE  BoxInv'
  <2>1. /\ fetch' = [on |-> FALSE, by |-> 0, read |-> [m \in Models |-> None]] /\ upset' = Models
        /\ UNCHANGED <<stored, listed, row, typed, saves, refused, crossed>>
    BY <1>8 DEF Boxes!ListFails, Boxes!Idle
  <2>2. [m \in Models |-> None] \in Tables /\ 0 \in 0 .. MaxSaves
    BY DEF Tables, Boxes!MaxSavesAssumption
  <2>3. fetch' \in Loads /\ fetch'.read = [m \in Models |-> None]
    BY <2>1, <2>2 DEF Loads
  <2>4. BoxTypes'
    BY <1>0, <2>1, <2>3 DEF BoxTypes
  <2>5. RowsSeen' /\ SavesSent'
    BY <1>0, <1>1, <2>1, <2>3 DEF RowsSeen, SavesSent, Saves
  <2>6. ListComes' /\ TypedAnew' /\ UnlistedEmpty' /\ NewComes'
    BY <1>0, <2>1 DEF ListComes, TypedAnew, UnlistedEmpty, NewComes
  <2> QED
    BY <2>4, <2>5, <2>6 DEF BoxInv
<1>9. CASE UNCHANGED Boxes!pageVars
  BY <1>0, <1>9 DEF BoxInv, Boxes!pageVars, BoxTypes, RowsSeen, SavesSent, ListComes,
     Boxes!Listed, TypedAnew, UnlistedEmpty, NewComes, SentOf
<1> QED
  BY <1>2, <1>3, <1>4, <1>5, <1>6, <1>7, <1>8, <1>9, BoxTyped, BoxSaved, BoxAdded, BoxArrived
     DEF Boxes!Next

LEMMA BoxSound ==
  ASSUME BoxInv
  PROVE  Boxes!TypeOK /\ Boxes!BoxesFollow
<1>0. BoxTypes /\ ListComes /\ NewComes
  BY DEF BoxInv
<1>1. Boxes!TypeOK
  BY <1>0 DEF BoxTypes, Tables, Loads, Rows, Saves, Boxes!TypeOK
<1>2. Boxes!BoxesFollow
  <2> SUFFICES ASSUME Boxes!AtRest, NEW m \in Models \ (refused \cup upset)
               PROVE  /\ listed[m] = stored[m]
                      /\ m \notin typed \cup crossed => row[m].text = listed[m]
    BY DEF Boxes!BoxesFollow
  <2>1. ~fetch.on /\ \A i \in DOMAIN saves : saves[i].at = "over"
    BY DEF Boxes!AtRest
  <2>2. listed[m] = stored[m]
    BY <1>0, <2>1 DEF ListComes
  <2>3. SentOf(m) = {}
    BY <2>1 DEF SentOf
  <2> QED
    BY <1>0, <2>2, <2>3 DEF NewComes
<1> QED
  BY <1>1, <1>2

LEMMA BoxesTyped == ASSUME BoxInv PROVE Boxes!TypeOK
BY DEF BoxInv, BoxTypes, Boxes!TypeOK, Tables, Loads, Saves, Rows

\* Once every answer is in the list of models shows what is stored, and so do the boxes that
\* nobody is typing in, but for those saved over a change to what the list showed
\* (models-page.tsx, useUpdateModel).
THEOREM BoxesHold ==
  ASSUME Boxes!ContextsAssumption, Boxes!MaxSavesAssumption
  PROVE  Boxes!Spec => [](Boxes!TypeOK /\ Boxes!BoxesFollow)
<1>1. Boxes!Init => BoxInv
  BY BoxInit
<1>2. BoxInv /\ [Boxes!Next]_(Boxes!pageVars) => BoxInv'
  BY BoxKeeps
<1>3. BoxInv => Boxes!TypeOK /\ Boxes!BoxesFollow
  BY BoxSound
<1> QED
  BY <1>1, <1>2, <1>3, PTL DEF Boxes!Spec

-----------------------------------------------------------------------------
(* The sidebar                                                             *)

CONSTANTS Chats, Titles, Gone, Home, MaxChanges
VARIABLES shown, changes, hurried, opened

Side == INSTANCE Sidebar

Names == [Chats -> Titles \cup {Gone}]
Fetches == [at : {"idle", "sent", "read"}, by : 0 .. MaxChanges, read : Names]
Changes == [kind : {"rename", "delete"}, chat : Chats, title : Titles \cup {Gone},
            at : {"sent", "answered", "settling", "over"}, active : BOOLEAN]
SideTypes ==
  /\ stored \in Names /\ listed \in Names /\ fetch \in Fetches
  /\ shown \in Chats \cup {Home}
  /\ upset \subseteq Chats /\ hurried \subseteq Chats /\ opened \subseteq Chats
  /\ changes \in Seq(Changes) /\ Len(changes) <= MaxChanges

\* What is stored is listed, or its list is on the way, or an answer is in that will ask
\* for it.
NamesCome ==
  \A c \in Chats \ upset :
    \/ \E i \in DOMAIN changes : changes[i].chat = c /\ changes[i].at = "answered"
    \/ fetch.at = "sent"
    \/ fetch.at = "read" /\ fetch.read[c] = stored[c]
    \/ fetch.at = "idle" /\ listed[c] = stored[c]

Deletion(i) == changes[i].kind = "delete"
Deletions == \A i \in DOMAIN changes : Deletion(i) <=> changes[i].title = Gone

\* The change of a chat that was sent last; it has been served by the time its answer is
\* in.  A new title is sent alone, and a deletion is served as the last change of its chat.
LastSent(l) == \A j \in DOMAIN changes : changes[j].chat = changes[l].chat => j <= l
HasLast ==
  \A i \in DOMAIN changes : \E l \in DOMAIN changes :
    changes[l].chat = changes[i].chat /\ LastSent(l)
GivenLast ==
  \A l \in DOMAIN changes : LastSent(l) /\ changes[l].chat \notin hurried \cup upset =>
    /\ changes[l].at # "sent" => stored[changes[l].chat] = changes[l].title
    /\ changes[l].kind = "rename" =>
         \A j \in DOMAIN changes :
           changes[j].chat = changes[l].chat /\ j # l => changes[j].at = "over"

\* A deletion of the chat on the page is not over, and will leave the page.
Leaves ==
  \A i \in DOMAIN changes :
    Deletion(i) /\ changes[i].chat \notin upset \cup opened /\ shown = changes[i].chat =>
      changes[i].at # "over" /\ changes[i].active
Opening ==
  \A i \in DOMAIN changes :
    Deletion(i) /\ changes[i].at \in {"sent", "answered"} /\ shown = changes[i].chat =>
      changes[i].active

\* A chat that is gone and was seen since has been deleted here.
DeletedHere ==
  \A c \in Chats :
    stored[c] = Gone /\ (listed[c] # Gone \/ fetch.read[c] # Gone \/ shown = c) =>
      \E i \in DOMAIN changes : Deletion(i) /\ changes[i].chat = c

SideInv ==
  /\ SideTypes /\ NamesCome /\ Deletions /\ HasLast /\ GivenLast
  /\ Leaves /\ Opening /\ DeletedHere

\* How a change that was sent moves on.
Passed(s, t, i, a) ==
  /\ t \in Seq(Changes) /\ Len(t) = Len(s) /\ DOMAIN t = DOMAIN s
  /\ \A j \in DOMAIN s : j # i => t[j] = s[j]
  /\ \A j \in DOMAIN s : /\ t[j].kind = s[j].kind /\ t[j].chat = s[j].chat
                         /\ t[j].title = s[j].title /\ t[j].active = s[j].active
  /\ t[i].at = a

LEMMA ChangeMoves ==
  ASSUME NEW s \in Seq(Changes), NEW i \in DOMAIN s,
         NEW a \in {"sent", "answered", "settling", "over"}
  PROVE  Passed(s, [s EXCEPT ![i].at = a], i, a)
<1>1. s[i] \in Changes
  OBVIOUS
<1>2. PICK r : r = [s[i] EXCEPT !.at = a]
  OBVIOUS
<1>3. r \in Changes /\ r.at = a /\ r.kind = s[i].kind /\ r.chat = s[i].chat
      /\ r.title = s[i].title /\ r.active = s[i].active
  BY <1>1, <1>2 DEF Changes
<1>4. PICK t : t = [s EXCEPT ![i] = r]
  OBVIOUS
<1>5. t = [s EXCEPT ![i].at = a]
  BY <1>1, <1>2, <1>4 DEF Changes
<1>6. t \in Seq(Changes) /\ Len(t) = Len(s) /\ DOMAIN t = DOMAIN s
  BY <1>3, <1>4, ExceptSeq
<1>7. Passed(s, t, i, a)
  BY <1>3, <1>4, <1>6 DEF Passed
<1> QED
  BY <1>5, <1>7

LEMMA SideInit ==
  ASSUME Side!SidebarAssumption, Side!Init
  PROVE  SideInv
<1>1. /\ stored \in Names /\ listed = stored
      /\ fetch = [at |-> "idle", by |-> 0, read |-> [c \in Chats |-> Gone]]
      /\ shown \in {c \in Chats : stored[c] # Gone} \cup {Home}
      /\ changes = <<>> /\ upset = {} /\ hurried = {} /\ opened = {}
  BY DEF Side!Init, Side!Idle, Side!Table, Side!In, Names
<1>2. /\ 0 \in 0 .. MaxChanges /\ Len(changes) = 0 /\ DOMAIN changes = {}
      /\ changes \in Seq(Changes) /\ MaxChanges \in Nat /\ Home \notin Chats
  BY <1>1 DEF Side!SidebarAssumption
<1>3. fetch \in Fetches /\ fetch.at = "idle" /\ \A c \in Chats : fetch.read[c] = Gone
  BY <1>1, <1>2 DEF Fetches, Names
<1>4. SideTypes
  BY <1>1, <1>2, <1>3 DEF SideTypes
<1>5. DeletedHere
  BY <1>1, <1>2, <1>3 DEF DeletedHere
<1> QED
  BY <1>1, <1>2, <1>3, <1>4, <1>5 DEF SideInv, NamesCome, Deletions, HasLast, GivenLast,
     Leaves, Opening

\* A change more, of a chat of the sidebar.
LEMMA SideSent ==
  ASSUME Side!SidebarAssumption, SideInv, NEW c \in Chats, NEW title \in Titles \cup {Gone},
         NEW kind \in {"rename", "delete"}, kind = "delete" <=> title = Gone,
         Len(changes) < MaxChanges, Side!Send(kind, c, title),
         hurried' = IF kind = "rename" /\ Side!UnderWay(c) THEN hurried \cup {c} ELSE hurried,
         UNCHANGED <<stored, listed, fetch, shown, upset, opened>>
  PROVE  SideInv'
<1>0. /\ SideTypes /\ NamesCome /\ Deletions /\ HasLast /\ GivenLast
      /\ Leaves /\ Opening /\ DeletedHere
  BY DEF SideInv
<1>1. PICK r : r = [kind |-> kind, chat |-> c, title |-> title, at |-> "sent",
                    active |-> kind = "delete" /\ shown = c]
  OBVIOUS
<1>2. /\ r \in Changes /\ r.kind = kind /\ r.chat = c /\ r.title = title /\ r.at = "sent"
      /\ r.kind = "delete" /\ shown = c => r.active
  BY <1>1 DEF Changes
<1>3. changes' = Append(changes, r)
  BY <1>1 DEF Side!Send
<1>4. PICK n \in Nat : n = Len(changes) + 1 /\ n <= MaxChanges
  BY <1>0 DEF SideTypes, Side!SidebarAssumption
<1>5. /\ changes' \in Seq(Changes) /\ Len(changes') = n
      /\ DOMAIN changes' = DOMAIN changes \cup {n} /\ n \notin DOMAIN changes
      /\ \A j \in DOMAIN changes : j < n /\ changes'[j] = changes[j]
      /\ changes'[n] = r
  <2>1. changes \in Seq(Changes) /\ Len(changes) \in Nat
    BY <1>0 DEF SideTypes
  <2> QED
    BY <1>2, <1>3, <1>4, <2>1, AppendProperties
<1>6. SideTypes'
  BY <1>0, <1>4, <1>5 DEF SideTypes
<1>7. NamesCome'
  <2> SUFFICES ASSUME NEW d \in Chats \ upset
               PROVE  \/ \E i \in DOMAIN changes' : changes'[i].chat = d /\ changes'[i].at = "answered"
                      \/ fetch.at = "sent"
                      \/ fetch.at = "read" /\ fetch.read[d] = stored[d]
                      \/ fetch.at = "idle" /\ listed[d] = stored[d]
    BY DEF NamesCome
  <2> QED
    BY <1>0, <1>5 DEF NamesCome
<1>8. Deletions'
  BY <1>0, <1>2, <1>5 DEF Deletions, Deletion
<1>9. /\ LastSent(n)'
      /\ \A l \in DOMAIN changes : LastSent(l)' <=> LastSent(l) /\ changes[l].chat # c
  BY <1>2, <1>5 DEF LastSent
<1>10. HasLast'
  <2> SUFFICES ASSUME NEW i \in DOMAIN changes'
               PROVE  \E l \in DOMAIN changes' : changes'[l].chat = changes'[i].chat /\ LastSent(l)'
    BY DEF HasLast
  <2>1. CASE changes'[i].chat = c
    BY <1>2, <1>5, <1>9, <2>1
  <2>2. CASE changes'[i].chat # c
    <3>1. i \in DOMAIN changes /\ changes[i].chat # c
      BY <1>2, <1>5, <2>2
    <3>2. PICK l \in DOMAIN changes : changes[l].chat = changes[i].chat /\ LastSent(l)
      BY <1>0, <3>1 DEF HasLast
    <3> QED
      BY <1>5, <1>9, <3>1, <3>2
  <2> QED
    BY <2>1, <2>2
<1>11. GivenLast'
  <2> SUFFICES ASSUME NEW l \in DOMAIN changes', LastSent(l)',
                      changes'[l].chat \notin hurried' \cup upset
               PROVE  /\ changes'[l].at # "sent" => stored[changes'[l].chat] = changes'[l].title
                      /\ changes'[l].kind = "rename" =>
                           \A j \in DOMAIN changes' :
                             changes'[j].chat = changes'[l].chat /\ j # l => changes'[j].at = "over"
    BY DEF GivenLast
  <2>1. CASE l = n
    BY <1>2, <1>5, <2>1 DEF Side!UnderWay
  <2>2. CASE l \in DOMAIN changes
    <3>1. LastSent(l) /\ changes[l].chat # c /\ changes[l].chat \notin hurried \cup upset
      BY <1>5, <1>9, <2>2
    <3>2. /\ changes[l].at # "sent" => stored[changes[l].chat] = changes[l].title
          /\ changes[l].kind = "rename" =>
               \A j \in DOMAIN changes :
                 changes[j].chat = changes[l].chat /\ j # l => changes[j].at = "over"
      BY <1>0, <2>2, <3>1 DEF GivenLast
    <3> QED
      BY <1>2, <1>5, <2>2, <3>1, <3>2
  <2> QED
    BY <1>5, <2>1, <2>2
<1>12. Leaves' /\ Opening'
  <2> SUFFICES ASSUME NEW i \in DOMAIN changes', changes'[i].kind = "delete",
                      shown = changes'[i].chat
               PROVE  /\ changes'[i].chat \notin upset \cup opened =>
                           changes'[i].at # "over" /\ changes'[i].active
                      /\ changes'[i].at \in {"sent", "answered"} => changes'[i].active
    BY DEF Leaves, Opening, Deletion
  <2>1. CASE i = n
    BY <1>2, <1>5, <2>1
  <2>2. CASE i \in DOMAIN changes
    BY <1>0, <1>5, <2>2 DEF Leaves, Opening, Deletion
  <2> QED
    BY <1>5, <2>1, <2>2
<1>13. DeletedHere'
  <2> SUFFICES ASSUME NEW d \in Chats, stored[d] = Gone,
                      listed[d] # Gone \/ fetch.read[d] # Gone \/ shown = d
               PROVE  \E i \in DOMAIN changes' : changes'[i].kind = "delete" /\ changes'[i].chat = d
    BY DEF DeletedHere, Deletion
  <2> QED
    BY <1>0, <1>5 DEF DeletedHere, Deletion
<1> QED
  BY <1>6, <1>7, <1>8, <1>10, <1>11, <1>12, <1>13 DEF SideInv

\* A change that moves on, whatever its answer.
LEMMA SideMoves ==
  ASSUME Side!SidebarAssumption, SideInv, NEW i \in DOMAIN changes,
         NEW a \in {"answered", "settling", "over"}, changes' = [changes EXCEPT ![i].at = a],
         changes[i].at = "answered" => a # "answered",
         changes[i].at = "over" => a = "over", changes[i].at = "settling" => a = "over",
         fetch' \in Fetches,
         fetch'.read = fetch.read \/ \A c \in Chats : fetch'.read[c] = Gone,
         upset \subseteq upset', upset' \subseteq Chats,
         \/ UNCHANGED stored /\ (changes[i].at # "sent" \/ changes[i].chat \in upset')
         \/ /\ changes[i].at = "sent" /\ stored[changes[i].chat] # Gone
            /\ stored' = [stored EXCEPT ![changes[i].chat] = changes[i].title],
         shown' \in {shown, Home},
         a = "over" /\ Deletion(i) /\ changes[i].chat \notin upset' \cup opened =>
           shown' # changes[i].chat,
         UNCHANGED <<listed, hurried, opened>>,
         NamesCome'
  PROVE  SideInv'
<1>0. /\ SideTypes /\ Deletions /\ HasLast /\ GivenLast
      /\ Leaves /\ Opening /\ DeletedHere
  BY DEF SideInv
<1>1. /\ changes' \in Seq(Changes) /\ Len(changes') = Len(changes)
      /\ DOMAIN changes' = DOMAIN changes
      /\ \A j \in DOMAIN changes : j # i => changes'[j] = changes[j]
      /\ \A j \in DOMAIN changes :
           /\ changes'[j].kind = changes[j].kind /\ changes'[j].chat = changes[j].chat
           /\ changes'[j].title = changes[j].title /\ changes'[j].active = changes[j].active
      /\ changes'[i].at = a
  <2>1. a \in {"sent", "answered", "settling", "over"} /\ changes \in Seq(Changes)
    BY <1>0 DEF SideTypes
  <2>2. Passed(changes, [changes EXCEPT ![i].at = a], i, a)
    BY <2>1, ChangeMoves
  <2>3. Passed(changes, changes', i, a)
    BY <2>2
  <2> QED
    BY <2>3 DEF Passed
<1>2. \A j \in DOMAIN changes :
        /\ changes[j].chat \in Chats /\ changes[j].title \in Titles \cup {Gone}
        /\ changes[j].kind \in {"rename", "delete"}
        /\ changes[j].at \in {"sent", "answered", "settling", "over"}
  <2>1. \A j \in DOMAIN changes : changes[j] \in Changes
    BY <1>0 DEF SideTypes
  <2> QED
    BY <2>1 DEF Changes
<1>3. /\ stored' \in Names /\ Home \notin Chats
      /\ \A c \in Chats : \/ stored'[c] = stored[c]
                          \/ /\ c = changes[i].chat /\ changes[i].at = "sent"
                             /\ stored[c] # Gone /\ stored'[c] = changes[i].title
      /\ changes[i].at = "sent" /\ changes[i].chat \notin upset' =>
           stored'[changes[i].chat] = changes[i].title
  BY <1>0, <1>2 DEF SideTypes, Names, Side!SidebarAssumption
<1>4. SideTypes'
  BY <1>0, <1>1, <1>3 DEF SideTypes
<1>5. Deletions'
  BY <1>0, <1>1 DEF Deletions, Deletion
<1>6. \A l \in DOMAIN changes : LastSent(l)' <=> LastSent(l)
  BY <1>1 DEF LastSent
<1>7. HasLast'
  BY <1>0, <1>1, <1>6 DEF HasLast
<1>8. GivenLast'
  <2> SUFFICES ASSUME NEW l \in DOMAIN changes, LastSent(l),
                      changes[l].chat \notin hurried \cup upset'
               PROVE  /\ changes'[l].at # "sent" => stored'[changes[l].chat] = changes[l].title
                      /\ changes[l].kind = "rename" =>
                           \A j \in DOMAIN changes :
                             changes[j].chat = changes[l].chat /\ j # l => changes'[j].at = "over"
    BY <1>1, <1>6 DEF GivenLast
  <2>1. /\ changes[l].at # "sent" => stored[changes[l].chat] = changes[l].title
        /\ changes[l].kind = "rename" =>
             \A j \in DOMAIN changes :
               changes[j].chat = changes[l].chat /\ j # l => changes[j].at = "over"
    BY <1>0 DEF GivenLast
  <2>2. changes'[l].at # "sent" => stored'[changes[l].chat] = changes[l].title
    <3>1. CASE l = i
      BY <1>2, <1>3, <2>1, <3>1
    <3>2. CASE l # i
      <4>1. CASE changes[l].at = "sent"
        BY <1>1, <3>2, <4>1
      <4>2. CASE changes[l].at # "sent" /\ changes[i].chat = changes[l].chat /\ changes[i].at = "sent"
        <5>1. changes[l].title = Gone
          BY <1>0, <1>2, <2>1, <3>2, <4>2 DEF Deletions, Deletion
        <5> QED
          BY <1>2, <1>3, <2>1, <4>2, <5>1
      <4>3. CASE changes[l].at # "sent" /\ ~(changes[i].chat = changes[l].chat /\ changes[i].at = "sent")
        BY <1>2, <1>3, <2>1, <4>3
      <4> QED
        BY <4>1, <4>2, <4>3
    <3> QED
      BY <3>1, <3>2
  <2>3. \A j \in DOMAIN changes : changes[j].at = "over" => changes'[j].at = "over"
    BY <1>1
  <2> QED
    BY <2>1, <2>2, <2>3
<1>9. Leaves'
  <2> SUFFICES ASSUME NEW j \in DOMAIN changes, Deletion(j),
                      changes[j].chat \notin upset' \cup opened, shown' = changes[j].chat
               PROVE  changes'[j].at # "over" /\ changes'[j].active
    BY <1>1 DEF Leaves, Deletion
  <2>1. shown = changes[j].chat
    BY <1>2, <1>3
  <2> QED
    BY <1>0, <1>1, <2>1 DEF Leaves
<1>10. Opening'
  <2> SUFFICES ASSUME NEW j \in DOMAIN changes, Deletion(j),
                      changes'[j].at \in {"sent", "answered"}, shown' = changes[j].chat
               PROVE  changes'[j].active
    BY <1>1 DEF Opening, Deletion
  <2>1. shown = changes[j].chat
    BY <1>2, <1>3
  <2>2. changes[j].at \in {"sent", "answered", "settling", "over"}
    BY <1>2
  <2>3. changes[j].at \in {"sent", "answered"}
    BY <1>1, <2>2
  <2> QED
    BY <1>0, <1>1, <2>1, <2>3 DEF Opening
<1>11. DeletedHere'
  <2> SUFFICES ASSUME NEW c \in Chats, stored'[c] = Gone,
                      listed[c] # Gone \/ fetch'.read[c] # Gone \/ shown' = c
               PROVE  \E j \in DOMAIN changes : Deletion(j) /\ changes[j].chat = c
    BY <1>1 DEF DeletedHere, Deletion
  <2>1. CASE stored[c] = Gone
    <3>1. fetch'.read[c] # Gone => fetch.read[c] # Gone
      OBVIOUS
    <3>2. shown' = c => shown = c
      BY <1>3
    <3> QED
      BY <1>0, <2>1, <3>1, <3>2 DEF DeletedHere
  <2>2. CASE stored[c] # Gone
    BY <1>0, <1>3, <2>2 DEF Deletions
  <2> QED
    BY <2>1, <2>2
<1> QED
  BY <1>4, <1>5, <1>7, <1>8, <1>9, <1>10, <1>11 DEF SideInv

\* An answer that was waited for is still waited for, if another change moves on.
LEMMA SideWaits ==
  ASSUME SideInv, NEW i \in DOMAIN changes, NEW a \in {"answered", "settling", "over"},
         changes' = [changes EXCEPT ![i].at = a], changes[i].at # "answered", NEW c,
         \E j \in DOMAIN changes : changes[j].chat = c /\ changes[j].at = "answered"
  PROVE  \E j \in DOMAIN changes' : changes'[j].chat = c /\ changes'[j].at = "answered"
<1>1. PICK j \in DOMAIN changes : changes[j].chat = c /\ changes[j].at = "answered"
  OBVIOUS
<1>2. j # i /\ j \in DOMAIN changes' /\ changes'[j] = changes[j]
  BY <1>1
<1> QED
  BY <1>1, <1>2

\* A link of the sidebar, followed.
LEMMA SideFollowed ==
  ASSUME Side!SidebarAssumption, SideInv,
         NEW p \in Chats \cup {Home}, Side!Follow(p)
  PROVE  SideInv'
<1>0. /\ SideTypes /\ NamesCome /\ Deletions /\ HasLast /\ GivenLast
      /\ Leaves /\ Opening /\ DeletedHere
  BY DEF SideInv
<1>1. /\ p \in Chats => listed[p] # Gone
      /\ Home \notin Chats /\ shown' = p /\ p # shown
      /\ changes' = [i \in DOMAIN changes |-> [changes[i] EXCEPT !.active = Side!Active(i, p)]]
      /\ opened' = opened \cup {c \in {p} : \E i \in DOMAIN changes :
                       /\ changes[i].kind = "delete" /\ changes[i].chat = c
                       /\ changes[i].at \in {"settling", "over"}}
      /\ UNCHANGED <<stored, listed, fetch, upset, hurried>>
  BY DEF Side!Follow, Side!In, Side!SidebarAssumption
<1>2. \A i \in DOMAIN changes : changes[i] \in Changes
  BY <1>0 DEF SideTypes
<1>3. \A i \in DOMAIN changes :
        /\ Side!Active(i, p) \in BOOLEAN
        /\ p = changes[i].chat /\ p \in Chats /\ changes[i].at \in {"sent", "answered"} =>
             Side!Active(i, p) = TRUE
  BY <1>1, <1>2 DEF Side!Active, Side!In, Changes
<1>4. \A i \in DOMAIN changes :
        /\ changes'[i] \in Changes /\ changes'[i].active = Side!Active(i, p)
        /\ changes'[i].kind = changes[i].kind /\ changes'[i].chat = changes[i].chat
        /\ changes'[i].title = changes[i].title /\ changes'[i].at = changes[i].at
  BY <1>1, <1>2, <1>3 DEF Changes
<1>5. DOMAIN changes' = DOMAIN changes /\ changes' \in Seq(Changes) /\ Len(changes') = Len(changes)
  <2>1. PICK n \in Nat : n = Len(changes) /\ DOMAIN changes = 1 .. n
    BY <1>0 DEF SideTypes
  <2>2. changes' \in [1 .. n -> Changes]
    BY <1>1, <1>4, <2>1
  <2> QED
    BY <2>1, <2>2, SeqDef
<1>6. SideTypes'
  <2>1. opened' \subseteq Chats
    BY <1>0, <1>1, <1>2 DEF SideTypes, Changes
  <2> QED
    BY <1>0, <1>1, <1>5, <2>1 DEF SideTypes
<1>12. shown' = p /\ UNCHANGED <<stored, listed, fetch, upset, hurried>>
  BY <1>1
<1>7. NamesCome'
  <2> SUFFICES ASSUME NEW c \in Chats \ upset
               PROVE  \/ \E i \in DOMAIN changes' : changes'[i].chat = c /\ changes'[i].at = "answered"
                      \/ fetch.at = "sent"
                      \/ fetch.at = "read" /\ fetch.read[c] = stored[c]
                      \/ fetch.at = "idle" /\ listed[c] = stored[c]
    BY <1>12 DEF NamesCome
  <2> QED
    BY <1>0, <1>4, <1>5 DEF NamesCome
<1>8. Deletions' /\ HasLast' /\ GivenLast'
  <2>1. Deletions'
    BY <1>0, <1>4, <1>5 DEF Deletions, Deletion
  <2>2. \A l \in DOMAIN changes : LastSent(l)' <=> LastSent(l)
    BY <1>4, <1>5 DEF LastSent
  <2>3. HasLast'
    BY <1>0, <1>4, <1>5, <2>2 DEF HasLast
  <2>4. GivenLast'
    <3> SUFFICES ASSUME NEW l \in DOMAIN changes, LastSent(l),
                        changes[l].chat \notin hurried \cup upset
                 PROVE  /\ changes[l].at # "sent" => stored[changes[l].chat] = changes[l].title
                        /\ changes[l].kind = "rename" =>
                             \A j \in DOMAIN changes :
                               changes[j].chat = changes[l].chat /\ j # l => changes[j].at = "over"
      BY <1>4, <1>5, <1>12, <2>2 DEF GivenLast
    <3> QED
      BY <1>0 DEF GivenLast
  <2> QED
    BY <2>1, <2>3, <2>4
<1>9. Opening'
  <2> SUFFICES ASSUME NEW i \in DOMAIN changes, Deletion(i),
                      changes[i].at \in {"sent", "answered"}, p = changes[i].chat
               PROVE  changes'[i].active
    BY <1>4, <1>5, <1>12 DEF Opening, Deletion
  <2>1. changes[i].chat \in Chats
    BY <1>2 DEF Changes
  <2> QED
    BY <1>3, <1>4, <2>1
<1>10. Leaves'
  <2> SUFFICES ASSUME NEW i \in DOMAIN changes, Deletion(i), p = changes[i].chat,
                      changes[i].chat \notin upset \cup opened'
               PROVE  changes[i].at # "over" /\ changes'[i].active
    BY <1>4, <1>5, <1>12 DEF Leaves, Deletion
  <2>1. changes[i].chat \in Chats /\ changes[i].at \in {"sent", "answered", "settling", "over"}
    BY <1>2 DEF Changes
  <2>2. changes[i].at \in {"sent", "answered"}
    BY <1>1, <2>1 DEF Deletion
  <2> QED
    BY <1>3, <1>4, <2>1, <2>2
<1>11. DeletedHere'
  <2> SUFFICES ASSUME NEW c \in Chats, stored[c] = Gone,
                      listed[c] # Gone \/ fetch.read[c] # Gone \/ p = c
               PROVE  \E i \in DOMAIN changes : Deletion(i) /\ changes[i].chat = c
    BY <1>1, <1>4, <1>5 DEF DeletedHere, Deletion
  <2> QED
    BY <1>0, <1>1 DEF DeletedHere
<1> QED
  BY <1>6, <1>7, <1>8, <1>9, <1>10, <1>11 DEF SideInv

\* The list that is loaded: what is sent and served is as before.
LEMMA SideLoads ==
  ASSUME SideInv, fetch' \in Fetches, listed' \in Names, upset' \in {upset, Chats},
         NamesCome',
         \A c \in Chats : listed'[c] # Gone \/ fetch'.read[c] # Gone =>
           listed[c] # Gone \/ fetch.read[c] # Gone \/ stored[c] # Gone,
         UNCHANGED <<stored, shown, changes, hurried, opened>>
  PROVE  SideInv'
<1>0. /\ SideTypes /\ NamesCome /\ Deletions /\ HasLast /\ GivenLast
      /\ Leaves /\ Opening /\ DeletedHere
  BY DEF SideInv
<1>1. upset \subseteq upset' /\ upset' \subseteq Chats
  BY <1>0 DEF SideTypes
<1>2. SideTypes'
  BY <1>0, <1>1 DEF SideTypes
<1>3. Deletions' /\ HasLast' /\ Opening'
  BY <1>0 DEF Deletions, Deletion, HasLast, LastSent, Opening
<1>4. GivenLast'
  BY <1>0, <1>1 DEF GivenLast, LastSent
<1>5. Leaves'
  BY <1>0, <1>1 DEF Leaves, Deletion
<1>6. DeletedHere'
  BY <1>0 DEF DeletedHere, Deletion
<1> QED
  BY <1>2, <1>3, <1>4, <1>5, <1>6 DEF SideInv

LEMMA SideKeeps ==
  ASSUME Side!SidebarAssumption, SideInv, [Side!Next]_(Side!sidebarVars)
  PROVE  SideInv'
<1>0. SideTypes /\ NamesCome /\ Leaves
  BY DEF SideInv
<1>1. \A i \in DOMAIN changes :
        changes[i].chat \in Chats /\ i \in 0 .. MaxChanges
  <2>1. \A i \in DOMAIN changes : changes[i] \in Changes /\ i \in 1 .. Len(changes)
    BY <1>0 DEF SideTypes
  <2>2. Len(changes) \in Nat /\ MaxChanges \in Nat /\ Len(changes) <= MaxChanges
    BY <1>0 DEF SideTypes, Side!SidebarAssumption
  <2> QED
    BY <2>1, <2>2 DEF Changes
<1>2. \A c \in Chats : Side!Idle.read[c] = Gone
  BY DEF Side!Idle
<1>3. Side!Idle \in Fetches /\ Side!Idle.at = "idle" /\ Side!Idle.read \in Names
  <2>1. [c \in Chats |-> Gone] \in Names /\ 0 \in 0 .. MaxChanges
    BY DEF Names, Side!SidebarAssumption
  <2> QED
    BY <2>1 DEF Side!Idle, Fetches
<1>4. \A i \in 0 .. MaxChanges : /\ Side!Loading(i) \in Fetches /\ Side!Loading(i).at = "sent"
                                 /\ Side!Loading(i).read = Side!Idle.read
  BY <1>3 DEF Side!Loading, Fetches
<1>5. ASSUME NEW c \in Chats, NEW title \in Titles, Side!Rename(c, title)
      PROVE  SideInv'
  <2>1. title # Gone
    BY DEF Side!SidebarAssumption
  <2> QED
    BY <1>5, <2>1, SideSent DEF Side!Rename
<1>6. ASSUME NEW c \in Chats, Side!Delete(c)
      PROVE  SideInv'
  BY <1>6, SideSent DEF Side!Delete
<1>7. ASSUME NEW i \in DOMAIN changes, Side!Serve(i)
      PROVE  SideInv'
  <2>1. /\ changes[i].at = "sent" /\ stored[changes[i].chat] # Gone
        /\ stored' = [stored EXCEPT ![changes[i].chat] = changes[i].title]
        /\ \/ changes' = [changes EXCEPT ![i].at = "answered"] /\ upset' = upset
           \/ changes' = [changes EXCEPT ![i].at = "over"] /\ upset' = upset \cup {changes[i].chat}
        /\ UNCHANGED <<listed, fetch, shown, hurried, opened>>
    BY <1>7 DEF Side!Serve, Side!Answered, Side!In
  <2>2. PICK a \in {"answered", "over"} :
          /\ changes' = [changes EXCEPT ![i].at = a]
          /\ upset \subseteq upset' /\ upset' \subseteq Chats
          /\ changes[i].chat \notin upset' => a = "answered"
    BY <1>0, <1>1, <2>1 DEF SideTypes
  <2>3. NamesCome'
    <3> SUFFICES ASSUME NEW c \in Chats \ upset'
                 PROVE  \/ \E j \in DOMAIN changes' : changes'[j].chat = c /\ changes'[j].at = "answered"
                        \/ fetch.at = "sent"
                        \/ fetch.at = "read" /\ fetch.read[c] = stored'[c]
                        \/ fetch.at = "idle" /\ listed[c] = stored'[c]
      BY <2>1 DEF NamesCome
    <3>1. CASE c = changes[i].chat
      <4>1. changes[i] \in Changes /\ i \in DOMAIN changes
        BY <1>0 DEF SideTypes
      <4>2. i \in DOMAIN changes' /\ changes'[i].chat = changes[i].chat /\ changes'[i].at = "answered"
        BY <2>2, <3>1, <4>1 DEF Changes
      <4> QED
        BY <3>1, <4>2
    <3>2. CASE c # changes[i].chat
      <4>1. stored'[c] = stored[c] /\ c \in Chats \ upset
        BY <1>0, <2>1, <2>2, <3>2 DEF SideTypes, Names
      <4>2. (\E j \in DOMAIN changes : changes[j].chat = c /\ changes[j].at = "answered") =>
              \E j \in DOMAIN changes' : changes'[j].chat = c /\ changes'[j].at = "answered"
        BY <2>1, <2>2, SideWaits
      <4> QED
        BY <1>0, <4>1, <4>2 DEF NamesCome
    <3> QED
      BY <3>1, <3>2
  <2>4. fetch' \in Fetches
    BY <1>0, <2>1 DEF SideTypes
  <2> QED
    BY <2>1, <2>2, <2>3, <2>4, SideMoves
<1>8. ASSUME NEW i \in DOMAIN changes, Side!Refuse(i)
      PROVE  SideInv'
  <2>1. /\ changes[i].at = "sent" /\ changes' = [changes EXCEPT ![i].at = "over"]
        /\ upset' = upset \cup {changes[i].chat}
        /\ UNCHANGED <<stored, listed, fetch, shown, hurried, opened>>
    BY <1>8 DEF Side!Refuse, Side!Answered
  <2>2. NamesCome'
    <3> SUFFICES ASSUME NEW c \in Chats \ upset
                 PROVE  \/ \E j \in DOMAIN changes' : changes'[j].chat = c /\ changes'[j].at = "answered"
                        \/ fetch.at = "sent"
                        \/ fetch.at = "read" /\ fetch.read[c] = stored[c]
                        \/ fetch.at = "idle" /\ listed[c] = stored[c]
      BY <2>1 DEF NamesCome
    <3>1. (\E j \in DOMAIN changes : changes[j].chat = c /\ changes[j].at = "answered") =>
            \E j \in DOMAIN changes' : changes'[j].chat = c /\ changes'[j].at = "answered"
      BY <2>1, SideWaits
    <3> QED
      BY <1>0, <3>1 DEF NamesCome
  <2>3. fetch' \in Fetches /\ upset \subseteq upset' /\ upset' \subseteq Chats
    BY <1>0, <1>1, <2>1 DEF SideTypes
  <2> QED
    BY <2>1, <2>2, <2>3, SideMoves
<1>9. ASSUME NEW i \in DOMAIN changes, Side!OnSuccess(i)
      PROVE  SideInv'
  <2>1. /\ changes[i].at = "answered" /\ changes' = [changes EXCEPT ![i].at = "settling"]
        /\ fetch' = Side!Loading(i)
        /\ UNCHANGED <<stored, listed, shown, upset, hurried, opened>>
    BY <1>9 DEF Side!OnSuccess, Side!Answered
  <2>2. fetch' \in Fetches /\ fetch'.at = "sent" /\ \A c \in Chats : fetch'.read[c] = Gone
    BY <1>1, <1>2, <1>4, <2>1
  <2>3. NamesCome'
    BY <2>2 DEF NamesCome
  <2>4. upset \subseteq upset' /\ upset' \subseteq Chats
    BY <1>0, <2>1 DEF SideTypes
  <2> QED
    BY <2>1, <2>2, <2>3, <2>4, SideMoves
<1>10. ASSUME NEW i \in DOMAIN changes, Side!End(i)
       PROVE  SideInv'
  <2>1. /\ changes[i].at = "settling" /\ changes' = [changes EXCEPT ![i].at = "over"]
        /\ shown' = IF changes[i].active THEN Home ELSE shown
        /\ UNCHANGED <<stored, listed, fetch, upset, hurried, opened>>
    BY <1>10 DEF Side!End
  <2>2. NamesCome'
    <3> SUFFICES ASSUME NEW c \in Chats \ upset
                 PROVE  \/ \E j \in DOMAIN changes' : changes'[j].chat = c /\ changes'[j].at = "answered"
                        \/ fetch.at = "sent"
                        \/ fetch.at = "read" /\ fetch.read[c] = stored[c]
                        \/ fetch.at = "idle" /\ listed[c] = stored[c]
      BY <2>1 DEF NamesCome
    <3>1. (\E j \in DOMAIN changes : changes[j].chat = c /\ changes[j].at = "answered") =>
            \E j \in DOMAIN changes' : changes'[j].chat = c /\ changes'[j].at = "answered"
      BY <2>1, SideWaits
    <3> QED
      BY <1>0, <3>1 DEF NamesCome
  <2>3. fetch' \in Fetches /\ upset \subseteq upset' /\ upset' \subseteq Chats
    BY <1>0, <2>1 DEF SideTypes
  <2>4. Deletion(i) /\ changes[i].chat \notin upset' \cup opened => shown' # changes[i].chat
    BY <1>0, <1>1, <2>1 DEF Leaves, Side!SidebarAssumption
  <2> QED
    BY <2>1, <2>2, <2>3, <2>4, SideMoves
<1>11. ASSUME Side!Refetch
       PROVE  SideInv'
  <2>1. /\ fetch' = Side!Loading(0)
        /\ UNCHANGED <<stored, listed, shown, changes, upset, hurried, opened>>
    BY <1>11 DEF Side!Refetch
  <2>2. 0 \in 0 .. MaxChanges
    BY DEF Side!SidebarAssumption
  <2>3. fetch' \in Fetches /\ fetch'.at = "sent" /\ \A c \in Chats : fetch'.read[c] = Gone
    BY <1>2, <1>4, <2>1, <2>2
  <2>4. NamesCome'
    BY <2>3 DEF NamesCome
  <2>5. listed' \in Names
    BY <1>0, <2>1 DEF SideTypes
  <2> QED
    BY <2>1, <2>3, <2>4, <2>5, SideLoads
<1>12. ASSUME Side!ReadList
       PROVE  SideInv'
  <2>1. /\ fetch' = [fetch EXCEPT !.at = "read", !.read = stored]
        /\ UNCHANGED <<stored, listed, shown, changes, upset, hurried, opened>>
    BY <1>12 DEF Side!ReadList
  <2>2. fetch' \in Fetches /\ fetch'.at = "read" /\ fetch'.read = stored /\ listed' \in Names
    BY <1>0, <2>1 DEF SideTypes, Fetches
  <2>3. NamesCome'
    BY <2>1, <2>2 DEF NamesCome
  <2> QED
    BY <2>1, <2>2, <2>3, SideLoads
<1>13. ASSUME Side!Arrive
       PROVE  SideInv'
  <2>1. /\ fetch.at = "read" /\ listed' = fetch.read /\ fetch' = Side!Idle
        /\ UNCHANGED <<stored, shown, changes, upset, hurried, opened>>
    BY <1>13 DEF Side!Arrive
  <2>2. fetch' \in Fetches /\ fetch'.at = "idle" /\ listed' \in Names
    BY <1>0, <1>3, <2>1 DEF SideTypes, Fetches
  <2>3. NamesCome'
    BY <1>0, <2>1, <2>2 DEF NamesCome
  <2>4. \A c \in Chats : fetch'.read[c] = Gone
    BY <1>2, <2>1
  <2> QED
    BY <2>1, <2>2, <2>3, <2>4, SideLoads
<1>14. ASSUME Side!ListFails
       PROVE  SideInv'
  <2>1. /\ fetch' = Side!Idle /\ upset' = Chats
        /\ UNCHANGED <<stored, listed, shown, changes, hurried, opened>>
    BY <1>14 DEF Side!ListFails
  <2>2. fetch' \in Fetches /\ listed' \in Names /\ \A c \in Chats : fetch'.read[c] = Gone
    BY <1>0, <1>2, <1>3, <2>1 DEF SideTypes
  <2>3. NamesCome'
    BY <2>1 DEF NamesCome
  <2> QED
    BY <2>1, <2>2, <2>3, SideLoads
<1>15. CASE UNCHANGED Side!sidebarVars
  <2>1. UNCHANGED <<stored, listed, fetch, shown, changes, upset, hurried, opened>>
    BY <1>15 DEF Side!sidebarVars
  <2>2. fetch' \in Fetches /\ listed' \in Names /\ NamesCome'
    BY <1>0, <2>1 DEF SideTypes, NamesCome
  <2> QED
    BY <2>1, <2>2, SideLoads
<1> QED
  BY <1>5, <1>6, <1>7, <1>8, <1>9, <1>10, <1>11, <1>12, <1>13, <1>14, <1>15, SideFollowed
     DEF Side!Next

LEMMA SideSound ==
  ASSUME SideInv
  PROVE  Side!TypeOK /\ Side!SidebarFollows
<1>0. /\ SideTypes /\ NamesCome /\ HasLast /\ GivenLast /\ Leaves /\ DeletedHere
  BY DEF SideInv
<1>1. Side!TypeOK
  BY <1>0 DEF SideTypes, Names, Fetches, Changes, Side!TypeOK, Side!Table
<1>2. ASSUME Side!AtRest
      PROVE  fetch.at = "idle" /\ \A i \in DOMAIN changes : changes[i].at = "over"
  BY <1>2 DEF Side!AtRest
<1>3. Side!ListFollows
  <2> SUFFICES ASSUME Side!AtRest, NEW c \in Chats \ upset
               PROVE  /\ listed[c] = stored[c]
                      /\ c \notin hurried /\ (\E i \in DOMAIN changes : changes[i].chat = c)
                           => stored[c] = Side!LastGiven(c)
    BY DEF Side!ListFollows
  <2>1. listed[c] = stored[c]
    BY <1>0, <1>2 DEF NamesCome
  <2>2. ASSUME c \notin hurried, \E i \in DOMAIN changes : changes[i].chat = c
        PROVE  stored[c] = Side!LastGiven(c)
    <3> DEFINE Last(i) == /\ changes[i].chat = c
                          /\ \A j \in DOMAIN changes : changes[j].chat = c => j <= i
    <3>1. \E i \in DOMAIN changes : Last(i)
      BY <1>0, <2>2 DEF HasLast, LastSent
    <3>2. PICK l \in DOMAIN changes : l = CHOOSE i \in DOMAIN changes : Last(i)
      BY <3>1
    <3>3. Last(l)
      BY <3>1, <3>2
    <3>4. Side!LastGiven(c) = changes[l].title
      BY <3>2 DEF Side!LastGiven
    <3>5. LastSent(l) /\ changes[l].chat = c /\ changes[l].at # "sent"
      BY <1>2, <3>3 DEF LastSent
    <3> QED
      BY <1>0, <2>2, <3>4, <3>5 DEF GivenLast
  <2> QED
    BY <2>1, <2>2
<1>4. Side!DeletedIsLeft
  <2> SUFFICES ASSUME Side!AtRest, shown \notin upset \cup opened \cup {Home}, stored[shown] = Gone
               PROVE  FALSE
    BY DEF Side!DeletedIsLeft
  <2>1. shown \in Chats
    BY <1>0 DEF SideTypes
  <2>2. PICK i \in DOMAIN changes : Deletion(i) /\ changes[i].chat = shown
    BY <1>0, <2>1 DEF DeletedHere
  <2> QED
    BY <1>0, <1>2, <2>2 DEF Leaves
<1> QED
  BY <1>1, <1>3, <1>4 DEF Side!SidebarFollows

LEMMA SideTyped == ASSUME SideInv PROVE Side!TypeOK
BY DEF SideInv, SideTypes, Side!TypeOK, Names, Fetches, Changes, Side!Table

\* Once every answer is in the sidebar shows the titles that are stored, which are those
\* that were sent last, and the page has left the chats that were deleted
\* (chat-sidebar.tsx, useRenameChat, useDeleteChat).
THEOREM SidebarHolds ==
  ASSUME Side!SidebarAssumption
  PROVE  Side!Spec => [](Side!TypeOK /\ Side!SidebarFollows)
<1>1. Side!Init => SideInv
  BY SideInit
<1>2. SideInv /\ [Side!Next]_(Side!sidebarVars) => SideInv'
  BY SideKeeps
<1>3. SideInv => Side!TypeOK /\ Side!SidebarFollows
  BY SideSound
<1> QED
  BY <1>1, <1>2, <1>3, PTL DEF Side!Spec

-----------------------------------------------------------------------------
(* The chat page                                                           *)

CONSTANTS Sends, Rooms, Opened
VARIABLES scope, going, mounted, chats, composed, restored, drafts, step, from, place,
          controller, aborted, begun, heard, pending, overlapped

Web == INSTANCE WebChat WITH Chats <- Rooms, text <- composed

Streams == [of : Sends \cup {Web!None}, status : {"none", "streaming", "done", "error"},
            ids : Sends \cup {Web!None}, text : SUBSET Sends, summarizing : BOOLEAN]

WebTypes ==
  /\ scope \in Web!Keys /\ going \in Web!Keys \cup {Web!None} /\ chats \subseteq Rooms
  /\ mounted \in BOOLEAN /\ overlapped \in BOOLEAN
  /\ composed \in Sends \cup {Web!None} /\ restored \in Sends \cup {Web!None}
  /\ drafts \in [Web!Keys -> Sends \cup {Web!None}]
  /\ step \in [Sends -> Web!Steps]
  /\ from \in [Sends -> Web!Keys \cup {Web!None}]
  /\ place \in [Sends -> Rooms \cup {Web!None}]
  /\ controller \in Sends \cup {Web!None}
  /\ aborted \subseteq Sends /\ begun \subseteq Sends
  /\ heard \in [Sends -> {"nothing", "started", "ended", "refused"}]
  /\ pending \in Streams

\* A page that is gone shows nothing; a send under way has left a page.
Left ==
  /\ ~mounted => pending = Web!NoPending /\ restored = Web!None
  /\ \A s \in Sends : step[s] \in Web!UnderWay => from[s] \in Web!Keys

\* Sends that do not overlap: what is pending is of the one under way, whose controller
\* the hook holds until it settles, and no text has been given back meanwhile.
OneSend ==
  /\ \A r, s \in Sends : step[r] \in Web!UnderWay /\ step[s] \in Web!UnderWay => r = s
  /\ \A s \in Sends :
       /\ step[s] \in {"creating", "listing"} => pending = Web!NoPending
       /\ step[s] \in Web!InFlight \cup {"refetching"} =>
            pending = Web!NoPending \/ pending.of = s
       /\ step[s] \in Web!InFlight => controller = s
  /\ pending.text \subseteq {pending.of} /\ pending.ids \in {Web!None, pending.of}

\* A text that was given back is a draft, and in front of the reader: the navigation that
\* is still to come will carry it.
GivenBack ==
  \A s \in Sends : step[s] = "rejected" =>
    /\ \A r \in Sends : step[r] \notin Web!UnderWay
    /\ \E k \in Web!Keys : drafts[k] = s
    /\ mounted => composed = s
    /\ going # Web!None => ~mounted \/ restored = s
    /\ restored \in {Web!None, s}

WebInv ==
  /\ WebTypes /\ Left /\ Web!BusyIsReal
  /\ ~overlapped => OneSend /\ GivenBack

LEMMA WebInit ==
  ASSUME Web!WebChatAssumption, Web!Init
  PROVE  WebInv
<1>1. WebTypes
  BY DEF Web!WebChatAssumption, Web!Init, WebTypes, Streams, Web!Keys, Web!NoPending,
     Web!Steps, Web!UnderWay, Web!InFlight
<1>2. \A s \in Sends : step[s] = "unwritten"
  BY DEF Web!Init
<1>3. Left /\ Web!BusyIsReal
  BY <1>2 DEF Web!Init, Left, Web!BusyIsReal, Web!NoPending, Web!UnderWay, Web!InFlight
<1>4. OneSend /\ GivenBack
  BY <1>2 DEF Web!Init, OneSend, GivenBack, Web!NoPending, Web!UnderWay, Web!InFlight
<1> QED
  BY <1>1, <1>3, <1>4 DEF WebInv

LEMMA WebSound ==
  ASSUME WebInv
  PROVE  Web!TypeOK /\ Web!BusyIsReal /\ Web!AloneInOrder
<1>1. Web!TypeOK
  BY DEF WebInv, WebTypes, Streams, Web!TypeOK
<1>2. Web!BusyIsReal
  BY DEF WebInv
<1>3. ASSUME ~overlapped, Web!isBusy, step[pending.of] \in Web!InFlight
      PROVE  controller = pending.of
  <2>1. pending.status = "streaming" /\ pending # Web!NoPending
    BY <1>3 DEF Web!isBusy, Web!NoPending
  <2>2. PICK s \in Sends : step[s] \in Web!InFlight \cup {"refetching"}
    BY <1>2, <2>1 DEF Web!BusyIsReal
  <2>3. pending.of = s
    BY <1>3, <2>1, <2>2 DEF WebInv, OneSend
  <2> QED
    BY <1>3, <2>3 DEF WebInv, OneSend
<1>4. ASSUME ~overlapped, NEW s \in Sends, step[s] = "rejected"
      PROVE  IF mounted THEN composed = s ELSE \E k \in Web!Keys : drafts[k] = s
  BY <1>4 DEF WebInv, GivenBack
<1>5. ~overlapped => pending.text \subseteq {pending.of} /\ pending.ids \in {Web!None, pending.of}
  BY DEF WebInv, OneSend
<1> QED
  BY <1>1, <1>2, <1>3, <1>4, <1>5 DEF Web!AloneInOrder

\* What a step makes of the pending stream: it is gone, or still of the same send, and
\* holds what it held or what was heard of s.
Heard(p, q, s) ==
  /\ q \in Streams
  /\ q = Web!NoPending \/ (q.of = p.of /\ p # Web!NoPending)
  /\ q.text \subseteq p.text \cup {s} /\ q.ids \in {Web!None, p.ids, s}

LEMMA NothingPending ==
  /\ Web!NoPending \in Streams
  /\ Web!NoPending.of = Web!None /\ Web!NoPending.status = "none"
  /\ Web!NoPending.text = {} /\ Web!NoPending.ids = Web!None
BY DEF Web!NoPending, Streams

\* Whatever the hook does with the pending stream of s, it stays in that relation.
LEMMA Hearing ==
  ASSUME NEW p \in Streams, NEW s \in Sends, p # Web!NoPending
  PROVE  /\ Heard(p, p, s) /\ Heard(p, Web!NoPending, s)
         /\ \A st \in {"done", "error"} : Heard(p, [p EXCEPT !.status = st], s)
         /\ Heard(p, [p EXCEPT !.ids = s], s)
         /\ Heard(p, [p EXCEPT !.summarizing = TRUE], s)
         /\ Heard(p, [p EXCEPT !.summarizing = FALSE, !.text = @ \cup {s}], s)
<1>1. Heard(p, p, s)
  BY DEF Heard
<1>2. Heard(p, Web!NoPending, s)
  BY NothingPending DEF Heard, Streams
<1>3. ASSUME NEW st \in {"done", "error"} PROVE Heard(p, [p EXCEPT !.status = st], s)
  BY <1>3 DEF Heard, Streams
<1>4. Heard(p, [p EXCEPT !.ids = s], s)
  BY DEF Heard, Streams
<1>5. Heard(p, [p EXCEPT !.summarizing = TRUE], s)
  BY DEF Heard, Streams
<1>6. Heard(p, [p EXCEPT !.summarizing = FALSE, !.text = @ \cup {s}], s)
  <2> DEFINE q == [p EXCEPT !.summarizing = FALSE, !.text = p.text \cup {s}]
  <2>1. q \in Streams
    BY DEF Streams
  <2>2. q.of = p.of /\ q.ids = p.ids /\ q.text = p.text \cup {s}
    BY DEF Streams
  <2> QED
    BY <2>1, <2>2 DEF Heard
<1> QED
  BY <1>1, <1>2, <1>3, <1>4, <1>5, <1>6

\* A send that starts is what is pending, on a page that is there.
LEMMA Starting ==
  ASSUME NEW s \in Sends
  PROVE  LET p == [Web!NoPending EXCEPT !.of = s, !.status = "streaming"] IN
         p \in Streams /\ p.of = s /\ p.text = {} /\ p.ids = Web!None
BY DEF Web!NoPending, Streams

LEMMA StepNames ==
  /\ Web!InFlight = {"asking", "posting", "reading"}
  /\ Web!UnderWay = {"asking", "posting", "reading", "creating", "listing", "refetching"}
  /\ Web!Steps = Web!UnderWay \cup {"unwritten", "draft", "accepted", "rejected", "parked",
                                    "discarded"}
BY DEF Web!InFlight, Web!UnderWay, Web!Steps

LEMMA HearingOne ==
  ASSUME OneSend, NEW s \in Sends, step[s] \in Web!InFlight \cup {"refetching"},
         Heard(pending, pending', s)
  PROVE  /\ pending' = Web!NoPending \/ pending'.of = s
         /\ pending'.text \subseteq {pending'.of}
         /\ pending'.ids \in {Web!None, pending'.of}
<1>1. CASE pending' = Web!NoPending
  BY <1>1, NothingPending
<1>2. CASE pending'.of = pending.of /\ pending # Web!NoPending
  <2>1. pending.of = s
    BY <1>2 DEF OneSend
  <2> QED
    BY <1>2, <2>1 DEF OneSend, Heard
<1> QED
  BY <1>1, <1>2 DEF Heard

LEMMA SettlesKeeps ==
  ASSUME WebInv, NEW s \in Sends, NEW failed \in BOOLEAN, step[s] \in Web!InFlight,
         Web!Settles(s, failed)
  PROVE  WebInv'
<1>0. WebTypes /\ Left /\ Web!BusyIsReal
  BY DEF WebInv
<1>1. /\ step' = [step EXCEPT ![s] = "refetching"] /\ controller' = Web!None
      /\ UNCHANGED <<scope, going, mounted, chats, composed, restored, drafts, from, place,
                     aborted, begun, heard, overlapped>>
  BY DEF Web!Settles, Web!page, Web!composer
<1>2. /\ Heard(pending, pending', s)
      /\ pending'.status \in {pending.status, "error"}
      /\ ~mounted => pending' = pending
  <2>1. pending' = pending \/ (/\ mounted /\ pending # Web!NoPending
                               /\ pending' = [pending EXCEPT !.status = "error"])
    BY DEF Web!Settles, Web!SetPending
  <2>2. pending \in Streams
    BY <1>0 DEF WebTypes
  <2>3. CASE pending' = pending
    BY <2>2, <2>3, Hearing, NothingPending DEF Heard
  <2>4. CASE mounted /\ pending # Web!NoPending /\ pending' = [pending EXCEPT !.status = "error"]
    <3>1. pending'.status = "error"
      BY <2>2, <2>4 DEF Streams
    <3>2. Heard(pending, pending', s)
      BY <2>2, <2>4, Hearing
    <3> QED
      BY <2>4, <3>1, <3>2
  <2> QED
    BY <2>1, <2>3, <2>4
<1>3. \A r \in Sends : step'[r] = IF r = s THEN "refetching" ELSE step[r]
  BY <1>0, <1>1 DEF WebTypes
<1>4. WebTypes'
  BY <1>0, <1>1, <1>2, StepNames DEF WebTypes, Heard
<1>5. Left'
  BY <1>0, <1>1, <1>2, <1>3, StepNames DEF Left
<1>6. Web!BusyIsReal'
  BY <1>3 DEF Web!BusyIsReal
<1>7. ASSUME ~overlapped PROVE OneSend' /\ GivenBack'
  <2>0. OneSend /\ GivenBack
    BY <1>7 DEF WebInv
  <2>1. /\ pending' = Web!NoPending \/ pending'.of = s
        /\ pending'.text \subseteq {pending'.of}
        /\ pending'.ids \in {Web!None, pending'.of}
    BY <1>2, <2>0, HearingOne
  <2>2. \A r \in Sends : step'[r] \in Web!UnderWay => r = s
    BY <1>3, <2>0, StepNames DEF OneSend
  <2>3. OneSend'
    BY <1>3, <2>1, <2>2, StepNames DEF OneSend
  <2>4. GivenBack'
    BY <1>1, <1>3, <2>0, StepNames DEF GivenBack
  <2> QED
    BY <2>3, <2>4
<1> QED
  BY <1>1, <1>4, <1>5, <1>6, <1>7 DEF WebInv

LEMMA HearsKeeps ==
  ASSUME WebInv, NEW s \in Sends, NEW lifecycle \in {"started", "ended", "refused"}, NEW p,
         pending # Web!NoPending => /\ Heard(pending, p, s)
                                    /\ p.status \in {pending.status, "done", "error"},
         Web!Hears(s, lifecycle, p)
  PROVE  WebInv'
<1>0. WebTypes /\ Left /\ Web!BusyIsReal
  BY DEF WebInv
<1>1. /\ step[s] = "reading" /\ heard' = [heard EXCEPT ![s] = lifecycle]
      /\ UNCHANGED <<scope, going, mounted, chats, composed, restored, drafts, step, from,
                     place, controller, aborted, begun, overlapped>>
  BY DEF Web!Hears, Web!page, Web!composer
<1>2. /\ Heard(pending, pending', s)
      /\ ~mounted => pending' = pending
  <2>1. pending' = pending \/ (mounted /\ pending # Web!NoPending /\ pending' = p)
    BY DEF Web!Hears, Web!SetPending
  <2>2. pending \in Streams
    BY <1>0 DEF WebTypes
  <2> QED
    BY <2>1, <2>2, Hearing, NothingPending DEF Heard
<1>4. WebTypes'
  BY <1>0, <1>1, <1>2, StepNames DEF WebTypes, Heard
<1>5. Left'
  BY <1>0, <1>1, <1>2 DEF Left
<1>6. Web!BusyIsReal'
  BY <1>1, StepNames DEF Web!BusyIsReal
<1>7. ASSUME ~overlapped PROVE OneSend' /\ GivenBack'
  <2>0. OneSend /\ GivenBack
    BY <1>7 DEF WebInv
  <2>1. /\ pending' = Web!NoPending \/ pending'.of = s
        /\ pending'.text \subseteq {pending'.of}
        /\ pending'.ids \in {Web!None, pending'.of}
    BY <1>1, <1>2, <2>0, HearingOne, StepNames
  <2>2. \A r \in Sends : step'[r] \in Web!UnderWay => r = s
    BY <1>1, <2>0, StepNames DEF OneSend
  <2>3. OneSend'
    BY <1>1, <2>0, <2>1, <2>2, StepNames DEF OneSend
  <2>4. GivenBack'
    BY <1>1, <2>0 DEF GivenBack
  <2> QED
    BY <2>3, <2>4
<1> QED
  BY <1>1, <1>4, <1>5, <1>6, <1>7 DEF WebInv

\* The five events of a stream that the hook applies.
LEMMA EventsKeep ==
  ASSUME WebInv, NEW s \in Sends,
         \/ Web!HearStarted(s) \/ Web!HearSummarizing(s) \/ Web!HearDelta(s)
         \/ Web!HearDone(s) \/ Web!HearError(s)
  PROVE  WebInv'
<1>0. pending \in Streams
  BY DEF WebInv, WebTypes
<1> DEFINE Sound(p) == pending # Web!NoPending =>
                         /\ Heard(pending, p, s)
                         /\ p.status \in {pending.status, "done", "error"}
<1>1. CASE Web!HearStarted(s)
  <2>1. Sound([pending EXCEPT !.ids = s])
    BY <1>0, Hearing DEF Streams
  <2> QED
    BY <1>1, <2>1, HearsKeeps DEF Web!HearStarted
<1>2. CASE Web!HearSummarizing(s)
  <2>1. Sound([pending EXCEPT !.summarizing = TRUE])
    BY <1>0, Hearing DEF Streams
  <2> QED
    BY <1>2, <2>1, HearsKeeps DEF Web!HearSummarizing
<1>3. CASE Web!HearDelta(s)
  <2>1. Sound([pending EXCEPT !.summarizing = FALSE, !.text = @ \cup {s}])
    BY <1>0, Hearing DEF Streams
  <2> QED
    BY <1>3, <2>1, HearsKeeps DEF Web!HearDelta
<1>4. CASE Web!HearDone(s)
  <2>1. Sound([pending EXCEPT !.status = "done"])
    BY <1>0, Hearing DEF Streams
  <2> QED
    BY <1>4, <2>1, HearsKeeps DEF Web!HearDone
<1>5. CASE Web!HearError(s)
  <2>1. Sound([pending EXCEPT !.status = "error"])
    BY <1>0, Hearing DEF Streams
  <2> QED
    BY <1>5, <2>1, HearsKeeps DEF Web!HearError
<1> QED
  BY <1>1, <1>2, <1>3, <1>4, <1>5

LEMMA WriteKeeps ==
  ASSUME Web!WebChatAssumption, WebInv, NEW s \in Sends, Web!Write(s)
  PROVE  WebInv'
<1>0. WebTypes /\ Left /\ Web!BusyIsReal
  BY DEF WebInv
<1>1. /\ mounted /\ step[s] = "unwritten" /\ composed' = s /\ restored' = Web!None
      /\ drafts' = [drafts EXCEPT ![scope] = s]
      /\ UNCHANGED <<scope, going, mounted, chats, from, place, controller, aborted, begun,
                     heard, pending, overlapped>>
  BY DEF Web!Write, Web!page, Web!stream
<1>2. /\ step' = [r \in Sends |->
                    IF r = s THEN "draft"
                    ELSE IF r = composed /\ step[r] = "rejected" THEN "discarded"
                    ELSE step[r]]
      /\ DOMAIN step' = Sends
  BY DEF Web!Write
<1>3. \A r \in Sends : step'[r] = IF r = s THEN "draft"
                                  ELSE IF r = composed /\ step[r] = "rejected" THEN "discarded"
                                  ELSE step[r]
  BY <1>2
<1>4. step' \in [Sends -> Web!Steps]
  BY <1>0, <1>2, StepNames DEF WebTypes
<1>5. \A r \in Sends : \A k \in Web!UnderWay : step'[r] = k <=> step[r] = k
  BY <1>1, <1>3, StepNames
<1>6. WebTypes'
  BY <1>0, <1>1, <1>4 DEF WebTypes
<1>7. Left'
  BY <1>0, <1>1, <1>5, StepNames DEF Left
<1>8. Web!BusyIsReal'
  BY <1>0, <1>1, <1>5, StepNames DEF Web!BusyIsReal
<1>9. ASSUME ~overlapped PROVE OneSend' /\ GivenBack'
  <2>0. OneSend /\ GivenBack
    BY <1>9 DEF WebInv
  <2>1. OneSend'
    BY <1>1, <1>5, <2>0, StepNames DEF OneSend
  <2>2. \A r \in Sends : step'[r] # "rejected"
    BY <1>1, <1>3, <2>0 DEF GivenBack
  <2> QED
    BY <2>1, <2>2 DEF GivenBack
<1> QED
  BY <1>1, <1>6, <1>7, <1>8, <1>9 DEF WebInv

LEMMA SubmitKeeps ==
  ASSUME Web!WebChatAssumption, WebInv, NEW s \in Sends, Web!Submit(s)
  PROVE  WebInv'
<1>0. WebTypes /\ Left /\ Web!BusyIsReal
  BY DEF WebInv
<1>1. /\ mounted /\ composed = s /\ step[s] = "draft"
      /\ composed' = Web!None /\ restored' = Web!None
      /\ drafts' = [drafts EXCEPT ![scope] = Web!None]
      /\ from' = [from EXCEPT ![s] = scope]
      /\ overlapped' = (overlapped \/ \E r \in Sends : step[r] \in Web!UnderWay)
      /\ UNCHANGED <<scope, going, mounted, chats, aborted, begun, heard>>
  BY DEF Web!Submit, Web!page
<1>2. \/ /\ step' = [step EXCEPT ![s] = "creating"] /\ pending' = Web!NoPending
         /\ UNCHANGED <<place, controller>>
      \/ /\ scope \in Rooms /\ step' = [step EXCEPT ![s] = "asking"]
         /\ place' = [place EXCEPT ![s] = scope] /\ controller' = s
         /\ pending' = [Web!NoPending EXCEPT !.of = s, !.status = "streaming"]
  BY <1>0, <1>1 DEF Web!Submit, Web!StartSend, Web!SetPending, WebTypes, Web!Keys
<1>3. PICK k \in {"creating", "asking"} : step' = [step EXCEPT ![s] = k]
  BY <1>2
<1>4. \A r \in Sends : step'[r] = IF r = s THEN k ELSE step[r]
  BY <1>0, <1>3 DEF WebTypes
<1>5. /\ pending' \in Streams
      /\ pending'.text \subseteq {pending'.of} /\ pending'.ids \in {Web!None, pending'.of}
      /\ pending' = Web!NoPending \/ pending'.of = s
  BY <1>2, Starting, NothingPending
<1>6. WebTypes'
  <2>1. /\ composed' \in Sends \cup {Web!None} /\ restored' \in Sends \cup {Web!None}
        /\ drafts' \in [Web!Keys -> Sends \cup {Web!None}]
        /\ from' \in [Sends -> Web!Keys \cup {Web!None}]
    BY <1>0, <1>1 DEF WebTypes
  <2>2. step' \in [Sends -> Web!Steps]
    BY <1>0, <1>3, StepNames DEF WebTypes
  <2>3. place' \in [Sends -> Rooms \cup {Web!None}] /\ controller' \in Sends \cup {Web!None}
    BY <1>0, <1>2 DEF WebTypes
  <2>4. overlapped' \in BOOLEAN
    BY <1>1
  <2> QED
    BY <1>0, <1>1, <1>5, <2>1, <2>2, <2>3, <2>4 DEF WebTypes
<1>7. Left'
  BY <1>0, <1>1, <1>4 DEF Left, WebTypes
<1>8. Web!BusyIsReal'
  <2>1. CASE pending' = Web!NoPending
    BY <2>1, NothingPending DEF Web!BusyIsReal
  <2>2. CASE step' = [step EXCEPT ![s] = "asking"]
    <3>1. step'[s] = "asking"
      BY <1>0, <2>2 DEF WebTypes
    <3> QED
      BY <3>1, StepNames DEF Web!BusyIsReal
  <2> QED
    BY <1>2, <2>1, <2>2
<1>9. ASSUME ~overlapped' PROVE OneSend' /\ GivenBack'
  <2>0. ~overlapped /\ \A r \in Sends : step[r] \notin Web!UnderWay
    BY <1>1, <1>9
  <2>1. GivenBack
    BY <2>0 DEF WebInv
  <2>2. \A r \in Sends : step'[r] \in Web!UnderWay => r = s
    BY <1>4, <2>0
  <2>3. /\ step'[s] = "creating" => pending' = Web!NoPending
        /\ step'[s] = "asking" => controller' = s
        /\ step'[s] \in {"creating", "asking"}
    <3>1. CASE step' = [step EXCEPT ![s] = "creating"] /\ pending' = Web!NoPending
      BY <1>0, <3>1 DEF WebTypes
    <3>2. CASE step' = [step EXCEPT ![s] = "asking"] /\ controller' = s
      BY <1>0, <3>2 DEF WebTypes
    <3> QED
      BY <1>2, <3>1, <3>2
  <2>4. OneSend'
    BY <1>5, <2>2, <2>3, StepNames DEF OneSend
  <2>5. \A r \in Sends : step'[r] # "rejected"
    BY <1>1, <1>4, <2>1 DEF GivenBack
  <2> QED
    BY <2>4, <2>5 DEF GivenBack
<1> QED
  BY <1>6, <1>7, <1>8, <1>9 DEF WebInv

\* A send that ends leaves no other under way, as long as none overlap, so that what it
\* gives back stays in front of the reader.
LEMMA GiveBackKeeps ==
  ASSUME Web!WebChatAssumption, WebInv, NEW s \in Sends, Web!GiveBack(s),
         step[s] \in {"creating", "refetching"},
         UNCHANGED <<scope, going, mounted, chats, from, place, controller, aborted, begun,
                     heard, overlapped>>,
         pending' \in Streams, pending' = pending \/ pending' = Web!NoPending,
         Web!BusyIsReal'
  PROVE  WebInv'
<1>0. WebTypes /\ Left /\ Web!BusyIsReal
  BY DEF WebInv
<1>1. /\ step' = [step EXCEPT ![s] = "rejected"] /\ drafts' = [drafts EXCEPT ![from[s]] = s]
      /\ mounted => composed' = s /\ restored' = s
      /\ ~mounted => composed' = composed /\ restored' = restored
  BY DEF Web!GiveBack
<1>2. from[s] \in Web!Keys
  BY <1>0, StepNames DEF Left
<1>3. \A r \in Sends : step'[r] = IF r = s THEN "rejected" ELSE step[r]
  BY <1>0, <1>1 DEF WebTypes
<1>4. drafts'[from[s]] = s
  BY <1>0, <1>1, <1>2 DEF WebTypes
<1>5. WebTypes'
  <2>1. step' \in [Sends -> Web!Steps] /\ drafts' \in [Web!Keys -> Sends \cup {Web!None}]
    BY <1>0, <1>1, <1>2, StepNames DEF WebTypes
  <2>2. composed' \in Sends \cup {Web!None} /\ restored' \in Sends \cup {Web!None}
    BY <1>0, <1>1 DEF WebTypes
  <2> QED
    BY <1>0, <2>1, <2>2 DEF WebTypes
<1>6. Left'
  BY <1>0, <1>1, <1>3, StepNames DEF Left
<1>7. ASSUME ~overlapped PROVE OneSend' /\ GivenBack'
  <2>0. OneSend /\ GivenBack
    BY <1>7 DEF WebInv
  <2>1. \A r \in Sends : step'[r] \notin Web!UnderWay
    BY <1>3, <2>0, StepNames DEF OneSend
  <2>2. OneSend'
    BY <2>0, <2>1, NothingPending, StepNames DEF OneSend
  <2>3. \A r \in Sends : step'[r] = "rejected" => r = s
    BY <1>3, <2>0, StepNames DEF GivenBack
  <2>4. ~mounted => restored' \in {Web!None, s}
    BY <1>0, <1>1 DEF Left
  <2>5. GivenBack'
    BY <1>1, <1>2, <1>4, <2>1, <2>3, <2>4 DEF GivenBack
  <2> QED
    BY <2>2, <2>5
<1> QED
  BY <1>5, <1>6, <1>7 DEF WebInv

LEMMA RefetchedKeeps ==
  ASSUME Web!WebChatAssumption, WebInv, NEW s \in Sends, Web!Refetched(s)
  PROVE  WebInv'
<1>0. WebTypes /\ Left /\ Web!BusyIsReal
  BY DEF WebInv
<1>1. /\ step[s] = "refetching"
      /\ UNCHANGED <<scope, going, mounted, chats, from, place, controller, aborted, begun,
                     heard, overlapped>>
  BY DEF Web!Refetched, Web!page
<1>2. /\ pending' \in Streams /\ (pending' = pending \/ pending' = Web!NoPending)
      /\ pending'.status \notin {"streaming", "done"}
      /\ ~mounted => pending' = pending
  <2>1. pending' = IF mounted THEN (IF pending.status = "error" THEN pending ELSE Web!NoPending)
                   ELSE pending
    BY DEF Web!Refetched, Web!SetPending, Web!Cleared
  <2> QED
    BY <1>0, <2>1, NothingPending DEF WebTypes, Left
<1>3. Web!BusyIsReal'
  BY <1>2 DEF Web!BusyIsReal
<1>4. CASE Web!GiveBack(s)
  BY <1>1, <1>2, <1>4, <1>3, GiveBackKeeps
<1>5. CASE step' = [step EXCEPT ![s] = "accepted"] /\ UNCHANGED Web!composer
  <2>1. /\ step' = [step EXCEPT ![s] = "accepted"]
        /\ UNCHANGED <<composed, restored, drafts>>
    BY <1>5 DEF Web!composer
  <2>2. \A r \in Sends : step'[r] = IF r = s THEN "accepted" ELSE step[r]
    BY <1>0, <2>1 DEF WebTypes
  <2>3. WebTypes'
    BY <1>0, <1>1, <1>2, <2>1, StepNames DEF WebTypes
  <2>4. Left'
    BY <1>0, <1>1, <1>2, <2>1, <2>2, StepNames DEF Left
  <2>6. ASSUME ~overlapped PROVE OneSend' /\ GivenBack'
    <3>0. OneSend /\ GivenBack
      BY <2>6 DEF WebInv
    <3>1. \A r \in Sends : step'[r] \notin Web!UnderWay
      BY <1>1, <2>2, <3>0, StepNames DEF OneSend
    <3>2. OneSend'
      BY <1>2, <3>0, <3>1, NothingPending, StepNames DEF OneSend
    <3>3. GivenBack'
      BY <1>1, <2>1, <2>2, <3>0, StepNames DEF GivenBack
    <3> QED
      BY <3>2, <3>3
  <2> QED
    BY <1>1, <1>3, <2>3, <2>4, <2>6 DEF WebInv
<1> QED
  BY <1>4, <1>5 DEF Web!Refetched

LEMMA CreatingKeeps ==
  ASSUME Web!WebChatAssumption, WebInv, NEW s \in Sends,
         Web!CreateFails(s) \/ (\E chat \in Rooms : Web!Created(s, chat)) \/ Web!Listed(s)
  PROVE  WebInv'
<1>0. WebTypes /\ Left /\ Web!BusyIsReal
  BY DEF WebInv
<1>1. CASE Web!CreateFails(s)
  <2>1. /\ step[s] = "creating" /\ Web!GiveBack(s)
        /\ UNCHANGED <<scope, going, mounted, chats, from, place, controller, aborted, begun,
                       heard, pending, overlapped>>
    BY <1>1 DEF Web!CreateFails, Web!page, Web!stream
  <2>2. \A r \in Sends : r # s => step'[r] = step[r]
    BY <1>0, <2>1 DEF Web!GiveBack, WebTypes
  <2>3. Web!BusyIsReal'
    BY <1>0, <2>1, <2>2, StepNames DEF Web!BusyIsReal
  <2> QED
    BY <1>0, <2>1, <2>3, GiveBackKeeps DEF WebTypes
<1>2. ASSUME NEW chat \in Rooms, Web!Created(s, chat)
      PROVE  WebInv'
  <2>1. /\ step[s] = "creating" /\ chats' = chats \cup {chat}
        /\ place' = [place EXCEPT ![s] = chat] /\ step' = [step EXCEPT ![s] = "listing"]
        /\ UNCHANGED <<scope, going, mounted, composed, restored, drafts, from, controller,
                       aborted, begun, heard, pending, overlapped>>
    BY <1>2 DEF Web!Created, Web!composer, Web!stream
  <2>2. \A r \in Sends : step'[r] = IF r = s THEN "listing" ELSE step[r]
    BY <1>0, <2>1 DEF WebTypes
  <2>3. WebTypes'
    BY <1>0, <2>1, StepNames DEF WebTypes
  <2>4. Left'
    BY <1>0, <2>1, <2>2, StepNames DEF Left
  <2>5. Web!BusyIsReal'
    BY <1>0, <2>1, <2>2, StepNames DEF Web!BusyIsReal
  <2>6. ASSUME ~overlapped PROVE OneSend' /\ GivenBack'
    <3>0. OneSend /\ GivenBack
      BY <2>6 DEF WebInv
    <3>1. \A r \in Sends : step'[r] \in Web!UnderWay => step[r] \in Web!UnderWay
      BY <2>1, <2>2, StepNames
    <3>2. OneSend'
      BY <2>1, <2>2, <3>0, <3>1, StepNames DEF OneSend
    <3>3. GivenBack'
      BY <2>1, <2>2, <3>0, <3>1, StepNames DEF GivenBack
    <3> QED
      BY <3>2, <3>3
  <2> QED
    BY <2>1, <2>3, <2>4, <2>5, <2>6 DEF WebInv
<1>3. CASE Web!Listed(s)
  <2>1. /\ step[s] = "listing" /\ going' = (IF mounted THEN place[s] ELSE going)
        /\ step' = [step EXCEPT ![s] = "asking"]
        /\ place' = [place EXCEPT ![s] = place[s]] /\ controller' = s
        /\ UNCHANGED <<scope, mounted, chats, composed, restored, drafts, from, aborted, begun,
                       heard, overlapped>>
    BY <1>3 DEF Web!Listed, Web!StartSend, Web!composer
  <2>2. /\ mounted => pending' = [Web!NoPending EXCEPT !.of = s, !.status = "streaming"]
        /\ ~mounted => pending' = pending
    BY <1>3 DEF Web!Listed, Web!StartSend, Web!SetPending
  <2>3. \A r \in Sends : step'[r] = IF r = s THEN "asking" ELSE step[r]
    BY <1>0, <2>1 DEF WebTypes
  <2>4. /\ pending' \in Streams
        /\ pending' = Web!NoPending \/ pending'.of = s
        /\ pending'.text \subseteq {pending'.of} /\ pending'.ids \in {Web!None, pending'.of}
    BY <1>0, <2>2, Starting, NothingPending DEF Left
  <2>5. WebTypes'
    <3>1. going' \in Web!Keys \cup {Web!None} /\ place' \in [Sends -> Rooms \cup {Web!None}]
      BY <1>0, <2>1 DEF WebTypes, Web!Keys
    <3>2. step' \in [Sends -> Web!Steps]
      BY <1>0, <2>1, StepNames DEF WebTypes
    <3> QED
      BY <1>0, <2>1, <2>4, <3>1, <3>2 DEF WebTypes
  <2>6. Left'
    BY <1>0, <2>1, <2>2, <2>3, StepNames DEF Left
  <2>7. Web!BusyIsReal'
    BY <2>3, StepNames DEF Web!BusyIsReal
  <2>8. ASSUME ~overlapped PROVE OneSend' /\ GivenBack'
    <3>0. OneSend /\ GivenBack
      BY <2>8 DEF WebInv
    <3>1. \A r \in Sends : step'[r] \in Web!UnderWay => r = s
      BY <2>1, <2>3, <3>0, StepNames DEF OneSend
    <3>2. OneSend'
      BY <2>1, <2>3, <2>4, <3>1, StepNames DEF OneSend
    <3>3. \A r \in Sends : step'[r] # "rejected"
      BY <2>1, <2>3, <3>0, StepNames DEF GivenBack
    <3> QED
      BY <3>2, <3>3 DEF GivenBack
  <2> QED
    BY <2>1, <2>5, <2>6, <2>7, <2>8 DEF WebInv
<1> QED
  BY <1>1, <1>2, <1>3

\* The composer gets another key: a text that was given back moves with it.
LEMMA KeyChanges ==
  ASSUME Web!WebChatAssumption, WebInv, NEW k \in Web!Keys, Web!ChangeKey(k), mounted,
         UNCHANGED <<mounted, chats, from, place, controller, aborted, begun, heard, pending,
                     overlapped>>,
         \/ /\ going # Web!None /\ UNCHANGED step
         \/ step' = [s \in Sends |-> IF step[s] = "rejected" THEN "parked" ELSE step[s]]
  PROVE  WebInv'
<1>0. WebTypes /\ Left /\ Web!BusyIsReal
  BY DEF WebInv
<1>1. /\ scope' = k /\ going' = Web!None /\ restored' = Web!None
      /\ composed' = (IF restored = Web!None THEN drafts[k] ELSE restored)
      /\ drafts' = (IF restored = Web!None THEN drafts ELSE [drafts EXCEPT ![k] = restored])
  BY DEF Web!ChangeKey, Web!Carried
<1>2. /\ step' \in [Sends -> Web!Steps]
      /\ \A s \in Sends : /\ step'[s] = "rejected" => step[s] = "rejected" /\ going # Web!None
                          /\ step[s] # "rejected" => step'[s] = step[s]
                          /\ step'[s] \in Web!UnderWay => step[s] = step'[s]
  <2>1. CASE going # Web!None /\ UNCHANGED step
    BY <1>0, <2>1 DEF WebTypes
  <2>2. CASE step' = [s \in Sends |-> IF step[s] = "rejected" THEN "parked" ELSE step[s]]
    <3>1. \A s \in Sends : step'[s] = IF step[s] = "rejected" THEN "parked" ELSE step[s]
      BY <2>2
    <3>2. step' \in [Sends -> Web!Steps]
      BY <1>0, <2>2, StepNames DEF WebTypes
    <3> QED
      BY <3>1, <3>2, StepNames
  <2> QED
    BY <2>1, <2>2
<1>3. WebTypes'
  <2>1. /\ composed' \in Sends \cup {Web!None}
        /\ drafts' \in [Web!Keys -> Sends \cup {Web!None}]
    BY <1>0, <1>1 DEF WebTypes
  <2> QED
    BY <1>0, <1>1, <1>2, <2>1 DEF WebTypes
<1>4. Left'
  BY <1>0, <1>2 DEF Left
<1>5. Web!BusyIsReal'
  BY <1>0, <1>2, StepNames DEF Web!BusyIsReal
<1>6. ASSUME ~overlapped PROVE OneSend' /\ GivenBack'
  <2>0. OneSend /\ GivenBack
    BY <1>6 DEF WebInv
  <2>1. OneSend'
    BY <1>2, <2>0, StepNames DEF OneSend
  <2>2. ASSUME NEW s \in Sends, step'[s] = "rejected"
        PROVE  composed' = s /\ drafts'[k] = s
    <3>1. restored = s /\ s # Web!None
      BY <1>2, <2>0, <2>2 DEF GivenBack, Web!WebChatAssumption
    <3> QED
      BY <1>0, <1>1, <3>1 DEF WebTypes
  <2>3. GivenBack'
    BY <1>1, <1>2, <2>0, <2>2, StepNames DEF GivenBack
  <2> QED
    BY <2>1, <2>3
<1> QED
  BY <1>3, <1>4, <1>5, <1>6 DEF WebInv

\* What leaves the composer alone and the sends where they are.
LEMMA HookKeeps ==
  ASSUME Web!WebChatAssumption, WebInv,
         Web!Stop \/ Web!Dismiss \/ (\E s \in Sends : Web!ServerBegins(s))
  PROVE  WebInv'
<1>0. WebTypes /\ Left /\ Web!BusyIsReal
  BY DEF WebInv
<1>1. /\ aborted' \subseteq Sends /\ begun' \subseteq Sends
      /\ pending' = pending \/ pending' = Web!NoPending
      /\ UNCHANGED <<scope, going, mounted, chats, composed, restored, drafts, step, from,
                     place, controller, heard, overlapped>>
  BY <1>0 DEF Web!Stop, Web!Dismiss, Web!ServerBegins, Web!Abort, Web!page, Web!composer,
     WebTypes
<1>2. WebTypes' /\ Left'
  BY <1>0, <1>1, NothingPending DEF WebTypes, Left
<1>3. Web!BusyIsReal'
  BY <1>0, <1>1, NothingPending DEF Web!BusyIsReal
<1>4. ASSUME ~overlapped PROVE OneSend' /\ GivenBack'
  <2>0. OneSend /\ GivenBack
    BY <1>4 DEF WebInv
  <2>1. OneSend'
    BY <1>1, <2>0, NothingPending DEF OneSend
  <2>2. GivenBack'
    BY <1>1, <2>0 DEF GivenBack
  <2> QED
    BY <2>1, <2>2
<1> QED
  BY <1>1, <1>2, <1>3, <1>4 DEF WebInv

\* The call gets on: from the CSRF token to the POST, and to its response.
LEMMA CallKeeps ==
  ASSUME Web!WebChatAssumption, WebInv, NEW s \in Sends,
         Web!CsrfAnswers(s) \/ Web!ResponseOk(s) \/ Web!CallFails(s) \/ Web!StreamCloses(s)
  PROVE  WebInv'
<1>1. CASE \E failed \in BOOLEAN : step[s] \in Web!InFlight /\ Web!Settles(s, failed)
  BY <1>1, SettlesKeeps
<1>2. ASSUME NEW a \in {"posting", "reading"}, step[s] \in {"asking", "posting"},
             step' = [step EXCEPT ![s] = a],
             UNCHANGED <<Web!page, Web!composer, from, place, Web!stream, overlapped>>
      PROVE  WebInv'
  <2>0. WebTypes /\ Left /\ Web!BusyIsReal
    BY DEF WebInv
  <2>1. UNCHANGED <<scope, going, mounted, chats, composed, restored, drafts, from, place,
                    controller, aborted, begun, heard, pending, overlapped>>
    BY <1>2 DEF Web!page, Web!composer, Web!stream
  <2>2. \A r \in Sends : step'[r] = IF r = s THEN a ELSE step[r]
    BY <1>2, <2>0 DEF WebTypes
  <2>3. WebTypes'
    BY <1>2, <2>0, <2>1, StepNames DEF WebTypes
  <2>4. Left'
    BY <1>2, <2>0, <2>1, <2>2, StepNames DEF Left
  <2>5. Web!BusyIsReal'
    BY <2>2, StepNames DEF Web!BusyIsReal
  <2>6. ASSUME ~overlapped PROVE OneSend' /\ GivenBack'
    <3>0. OneSend /\ GivenBack
      BY <2>6 DEF WebInv
    <3>1. \A r \in Sends : /\ step'[r] \in Web!UnderWay => step[r] \in Web!UnderWay
                           /\ step'[r] \in Web!InFlight => step[r] \in Web!InFlight
      BY <1>2, <2>2, StepNames
    <3>2. OneSend'
      BY <1>2, <2>1, <2>2, <3>0, <3>1, StepNames DEF OneSend
    <3>3. GivenBack'
      BY <1>2, <2>1, <2>2, <3>0, <3>1, StepNames DEF GivenBack
    <3> QED
      BY <3>2, <3>3
  <2> QED
    BY <2>1, <2>3, <2>4, <2>5, <2>6 DEF WebInv
<1> QED
  BY <1>1, <1>2, StepNames DEF Web!CsrfAnswers, Web!ResponseOk, Web!CallFails, Web!StreamCloses

LEMMA UnmountKeeps ==
  ASSUME Web!WebChatAssumption, WebInv, Web!Unmount
  PROVE  WebInv'
<1>0. WebTypes /\ Left /\ Web!BusyIsReal
  BY DEF WebInv
<1>1. /\ mounted' = FALSE /\ aborted' \subseteq Sends /\ composed' = Web!None
      /\ restored' = Web!None /\ pending' = Web!NoPending /\ going' = Web!None
      /\ UNCHANGED <<scope, chats, drafts, step, from, place, controller, begun, heard,
                     overlapped>>
  BY <1>0 DEF Web!Unmount, Web!Abort, WebTypes
<1>2. WebTypes' /\ Left'
  BY <1>0, <1>1, NothingPending DEF WebTypes, Left
<1>3. Web!BusyIsReal'
  BY <1>1, NothingPending DEF Web!BusyIsReal
<1>4. ASSUME ~overlapped PROVE OneSend' /\ GivenBack'
  <2>0. OneSend /\ GivenBack
    BY <1>4 DEF WebInv
  <2>1. OneSend'
    BY <1>1, <2>0, NothingPending DEF OneSend
  <2>2. GivenBack'
    BY <1>1, <2>0 DEF GivenBack
  <2> QED
    BY <2>1, <2>2
<1> QED
  BY <1>1, <1>2, <1>3, <1>4 DEF WebInv

LEMMA WebKeeps ==
  ASSUME Web!WebChatAssumption, WebInv, [Web!Next]_(Web!webVars)
  PROVE  WebInv'
<1>1. ASSUME NEW k \in Web!Keys, Web!Navigate(k) PROVE WebInv'
  BY <1>1, KeyChanges DEF Web!Navigate, Web!stream
<1>2. CASE Web!CommitNavigation
  <2>1. going \in Web!Keys
    BY <1>2 DEF Web!CommitNavigation, WebInv, WebTypes
  <2> QED
    BY <1>2, <2>1, KeyChanges DEF Web!CommitNavigation, Web!stream
<1>3. CASE UNCHANGED Web!webVars
  <2>1. UNCHANGED <<scope, going, mounted, chats, composed, restored, drafts, step, from,
                    place, controller, aborted, begun, heard, pending, overlapped>>
    BY <1>3 DEF Web!webVars
  <2> QED
    BY <2>1 DEF WebInv, WebTypes, Left, Web!BusyIsReal, OneSend, GivenBack
<1> QED
  BY <1>1, <1>2, <1>3, WriteKeeps, SubmitKeeps, CreatingKeeps, CallKeeps, HookKeeps,
     EventsKeep, RefetchedKeeps, UnmountKeeps DEF Web!Next

LEMMA WebTyped == ASSUME WebInv PROVE Web!TypeOK
BY DEF WebInv, WebTypes, Web!TypeOK, Streams

\* The composer is busy as long as the answer it shows runs, and as long as sends do not
\* overlap, Stop reaches the answer that is shown, the answer holds its own text alone, and
\* a text the API did not accept is given back and stays (composer.tsx, chat-page.tsx,
\* use-chat-stream.ts).
THEOREM SendsHold ==
  ASSUME Web!WebChatAssumption
  PROVE  Web!Spec => [](Web!TypeOK /\ Web!BusyIsReal /\ Web!AloneInOrder)
<1>1. Web!Init => WebInv
  BY WebInit
<1>2. WebInv /\ [Web!Next]_(Web!webVars) => WebInv'
  BY WebKeeps
<1>3. WebInv => Web!TypeOK /\ Web!BusyIsReal /\ Web!AloneInOrder
  BY WebSound
<1> QED
  BY <1>1, <1>2, <1>3, PTL DEF Web!Spec

-----------------------------------------------------------------------------
(* Least and greatest members                                              *)

Less == {ss \in Nat \X Nat : ss[1] < ss[2]}

\* What the theorems on well-founded relations say of the natural numbers, as facts about
\* sets: the provers cannot instantiate an operator.
LEMMA LessWF == IsWellFoundedOn(Less, Nat)
BY NatLessThanWellFounded DEF OpToRel, Less

\* A set of natural numbers has a least one.
LEMMA SmallestOf ==
  ASSUME NEW T \in SUBSET Nat, T # {}
  PROVE  \E x \in T : \A y \in T : x <= y
<1>1. \E x \in T : \A y \in T : ~(<<y, x>> \in Less)
  <2> HIDE DEF Less
  <2> QED BY WFMin, LessWF
<1>2. PICK x \in T : \A y \in T : ~(<<y, x>> \in Less)
  BY <1>1
<1>3. \A y \in T : ~(y < x)
  BY <1>2 DEF Less
<1> QED
  BY <1>3

\* A set of numbers with a bound has a greatest one.
LEMMA GreatestOf ==
  ASSUME NEW S \in SUBSET Int, S # {}, NEW b \in Int, \A x \in S : x <= b
  PROVE  \E x \in S : \A y \in S : y <= x
<1> DEFINE T == {n \in Nat : b - n \in S}
<1>1. T \in SUBSET Nat /\ T # {}
  <2>1. PICK x \in S : TRUE
    OBVIOUS
  <2>2. b - x \in Nat /\ b - (b - x) = x
    OBVIOUS
  <2> QED
    BY <2>1, <2>2
<1>2. PICK n \in T : \A m \in T : n <= m
  <2> HIDE DEF T
  <2> QED BY <1>1, SmallestOf
<1>3. b - n \in S
  BY <1>2
<1>4. ASSUME NEW y \in S PROVE y <= b - n
  <2>1. b - y \in T
    <3>1. b - y \in Nat /\ b - (b - y) = y
      OBVIOUS
    <3> QED
      BY <3>1
  <2>2. n <= b - y
    BY <1>2, <2>1
  <2> QED
    BY <1>2, <2>2
<1> QED
  BY <1>3, <1>4

-----------------------------------------------------------------------------
(* Lists read page by page                                                 *)

CONSTANTS MaxRows, MaxTouches, Asked, DefaultPageSize, MaxPageSize
VARIABLES kind, limit, time, archived, added, touches, pages, fetching, origin

Lists == INSTANCE ChatPages WITH created <- added, fetch <- fetching, shown <- origin

\* The row that the next page of a list comes after.
CursorOf(ps) == IF ps = <<>> THEN Lists!Top ELSE ps[Len(ps)].next
RowsOf(ps) == UNION {ps[k].rows : k \in DOMAIN ps}

\* Times are of the past, and pages hold rows that were added.
Known(ps) ==
  \A k \in DOMAIN ps : ps[k].rows \subseteq 1 .. added /\ ps[k].next <= added
Dated ==
  /\ DOMAIN time \subseteq 1 .. added /\ \A r \in DOMAIN time : time[r] <= added + touches
  /\ Known(pages) /\ Known(fetching.pages)

\* Messages are never touched.
Conversation ==
  kind = "messages" =>
    /\ touches = 0 /\ archived = {}
    /\ DOMAIN time = 1 .. added /\ \A r \in 1 .. added : time[r] = r

\* What a fetch goes on from.
GoesOn ==
  /\ fetching.mode = "none" => fetching = Lists!NoFetch
  /\ fetching.mode = "next" =>
       /\ pages # <<>> /\ fetching.pages = <<>> /\ fetching.past = origin
       /\ fetching.cursor = CursorOf(pages) /\ fetching.cursor # Lists!Top
  /\ fetching.mode = "refetch" =>
       /\ fetching.cursor = CursorOf(fetching.pages)
       /\ fetching.cursor = Lists!Top => fetching.pages = <<>>

\* What every list of pages has kept, read to its end or not.  A chat that stayed where it
\* was is on the pages or still to come ...
Reaches(ps, story) ==
  kind = "chats" /\ ps # <<>> /\ "gone" \notin story.cursors =>
    \A r \in Lists!Visible \ story.changed :
      \/ r \in RowsOf(ps)
      \/ /\ CursorOf(ps) # Lists!Top
         /\ CursorOf(ps) \in DOMAIN time => time[r] < time[CursorOf(ps)]
\* ... what is on the pages does not come again ...
Parts(ps, story) ==
  kind = "chats" /\ ps # <<>> /\ story.cursors = {} =>
    /\ \A k, l \in DOMAIN ps : ps[k].rows \cap ps[l].rows # {} => k = l
    /\ CursorOf(ps) # Lists!Top /\ CursorOf(ps) \notin story.changed =>
         /\ CursorOf(ps) \in Lists!Visible
         /\ \A p \in RowsOf(ps) \cap DOMAIN time : time[CursorOf(ps)] <= time[p]
\* ... and messages come one after the other, down to the cursor.
Descends(ps) ==
  kind = "messages" /\ ps # <<>> =>
    /\ \A k, l \in DOMAIN ps :
         k < l => \A q \in ps[k].rows, r \in ps[l].rows : r < q
    /\ \A p, q \in RowsOf(ps), r \in 1 .. added : p < r /\ r < q => r \in RowsOf(ps)
    /\ CursorOf(ps) # Lists!Top =>
         CursorOf(ps) \in RowsOf(ps) /\ \A p \in RowsOf(ps) : CursorOf(ps) <= p
    /\ CursorOf(ps) = Lists!Top =>
         \A q \in RowsOf(ps), r \in 1 .. added : r < q => r \in RowsOf(ps)

Walk(ps, story) == Reaches(ps, story) /\ Parts(ps, story) /\ Descends(ps)

ListsInv ==
  /\ Lists!TypeOK /\ Dated /\ Conversation /\ GoesOn
  /\ Walk(pages, origin)
  /\ fetching.mode = "refetch" => Walk(fetching.pages, fetching.past)

PageBounds == Lists!BoundsAssumption /\ Lists!PageSizeAssumption

LEMMA ListsCount == \A S : Lists!Cardinality(S) = Cardinality(S)
BY DEF Lists!Cardinality, Cardinality

LEMMA ListsInit ==
  ASSUME PageBounds, Lists!Init
  PROVE  ListsInv
<1> USE DEF PageBounds, Lists!BoundsAssumption, Lists!PageSizeAssumption, Lists!Init
<1>1. limit \in 1 .. MaxPageSize
  <2>1. PICK asked \in Asked : limit = Lists!PageSize(asked)
    OBVIOUS
  <2> QED
    BY <2>1 DEF Lists!PageSize
<1>2. added \in Nat /\ MaxRows \in Nat /\ added <= MaxRows
  OBVIOUS
<1>3. DOMAIN time = 1 .. added /\ \A r \in 1 .. added : time[r] = r
  OBVIOUS
<1>4. DOMAIN time \subseteq Lists!Rows /\ time \in [DOMAIN time -> Nat]
  BY <1>2 DEF Lists!Rows
<1>5. Lists!Fresh \in Lists!Past
  BY DEF Lists!Fresh, Lists!Past
<1>6. fetching \in [mode : {"none", "next", "refetch"}, pages : Seq(Lists!Pages),
                    cursor : Lists!Rows \cup {Lists!Top}, past : Lists!Past]
  BY <1>5 DEF Lists!NoFetch
<1>7. Lists!TypeOK
  BY <1>1, <1>2, <1>4, <1>5, <1>6 DEF Lists!TypeOK
<1>8. Dated /\ Conversation /\ GoesOn
  BY <1>2, <1>3 DEF Dated, Known, Conversation, GoesOn, Lists!NoFetch
<1>9. Walk(pages, origin) /\ fetching.mode # "refetch"
  BY DEF Walk, Reaches, Parts, Descends, Lists!NoFetch
<1> QED
  BY <1>7, <1>8, <1>9 DEF ListsInv

\* Reading newest first.
LEMMA RowsFinite ==
  ASSUME PageBounds, Lists!TypeOK, NEW S \in SUBSET DOMAIN time
  PROVE  IsFiniteSet(S) /\ Cardinality(S) \in Nat
<1>1. IsFiniteSet(1 .. MaxRows)
  BY FS_Interval DEF PageBounds, Lists!BoundsAssumption
<1>2. S \subseteq 1 .. MaxRows
  BY DEF Lists!TypeOK, Lists!Rows
<1> QED
  BY <1>1, <1>2, FS_Subset, FS_CardinalityType

LEMMA TakeCounts ==
  ASSUME PageBounds, Lists!TypeOK, Dated, NEW S \in SUBSET DOMAIN time, NEW n \in Nat \ {0}
  PROVE  /\ Lists!Take(S, n) \subseteq S
         /\ \A r \in S \ Lists!Take(S, n), p \in Lists!Take(S, n) : time[r] < time[p]
         /\ Cardinality(S) <= n => Lists!Take(S, n) = S
         /\ S # {} => Lists!Take(S, n) # {}
<1>0. \A r \in S : time[r] \in Nat
  BY DEF Lists!TypeOK
<1>1. Lists!Take(S, n) = {r \in S : Cardinality(Lists!Newer(r, S)) < n}
  BY ListsCount DEF Lists!Take
<1>2. ASSUME NEW r \in S
      PROVE  /\ Lists!Newer(r, S) \subseteq S /\ r \notin Lists!Newer(r, S)
             /\ IsFiniteSet(Lists!Newer(r, S)) /\ Cardinality(Lists!Newer(r, S)) \in Nat
  <2>1. Lists!Newer(r, S) \subseteq S /\ r \notin Lists!Newer(r, S)
    BY <1>0 DEF Lists!Newer
  <2> QED
    BY <2>1, RowsFinite
<1>3. ASSUME NEW r \in S \ Lists!Take(S, n), NEW p \in Lists!Take(S, n)
      PROVE  time[r] < time[p]
  <2>1. p \in S /\ Cardinality(Lists!Newer(p, S)) < n
        /\ ~(Cardinality(Lists!Newer(r, S)) < n)
    BY <1>1
  <2>2. SUFFICES ASSUME time[p] <= time[r] PROVE FALSE
    BY <1>0, <2>1
  <2>3. Lists!Newer(r, S) \subseteq Lists!Newer(p, S)
    BY <1>0, <2>1, <2>2 DEF Lists!Newer
  <2>4. Cardinality(Lists!Newer(r, S)) <= Cardinality(Lists!Newer(p, S))
    BY <1>2, <2>1, <2>3, FS_Subset
  <2> QED
    BY <1>2, <2>1, <2>4
<1>4. ASSUME Cardinality(S) <= n, NEW r \in S PROVE Cardinality(Lists!Newer(r, S)) < n
  <2>1. IsFiniteSet(S) /\ Cardinality(S) \in Nat
    BY RowsFinite
  <2>2. Lists!Newer(r, S) # S
    BY <1>2
  <2>3. Cardinality(Lists!Newer(r, S)) < Cardinality(S)
    BY <1>2, <2>1, <2>2, FS_Subset
  <2> QED
    BY <1>2, <1>4, <2>1, <2>3
<1>5. ASSUME S # {} PROVE Lists!Take(S, n) # {}
  <2> DEFINE T == {time[r] : r \in S}
  <2>1. T \in SUBSET Int /\ T # {}
    BY <1>0, <1>5
  <2>2. added + touches \in Int /\ \A x \in T : x <= added + touches
    BY DEF Lists!TypeOK, Dated
  <2>3. PICK b \in T : \A x \in T : x <= b
    <3> HIDE DEF T
    <3> QED
      BY <2>1, <2>2, GreatestOf
  <2>4. PICK r \in S : time[r] = b
    OBVIOUS
  <2>5. \A q \in S : time[q] <= time[r]
    BY <2>3, <2>4
  <2>6. Lists!Newer(r, S) = {}
    BY <1>0, <2>5 DEF Lists!Newer
  <2> QED
    BY <1>1, <2>6, FS_EmptySet
<1> QED
  BY <1>1, <1>3, <1>4, <1>5

\* The oldest of some rows, which becomes the next cursor.
LEMMA OldestIs ==
  ASSUME Lists!TypeOK, NEW S \in SUBSET DOMAIN time, S # {}
  PROVE  Lists!Oldest(S) \in S /\ \A q \in S : time[Lists!Oldest(S)] <= time[q]
<1> DEFINE T == {time[r] : r \in S}
<1>1. T \in SUBSET Nat /\ T # {}
  BY DEF Lists!TypeOK
<1>2. PICK b \in T : \A x \in T : b <= x
  <2> HIDE DEF T
  <2> QED
    BY <1>1, SmallestOf
<1>3. \E r \in S : \A q \in S : time[r] <= time[q]
  BY <1>2
<1> QED
  BY <1>3 DEF Lists!Oldest

\* A page, as what follows says of it.
LEMMA PageIs ==
  ASSUME PageBounds, Lists!TypeOK, Dated, NEW c
  PROVE  LET S == Lists!After(c)  leaf == Lists!Page(c)
         IN /\ leaf.rows \subseteq S
            /\ \A r \in S \ leaf.rows, p \in leaf.rows : time[r] < time[p]
            /\ leaf.next = Lists!Top => leaf.rows = S
            /\ leaf.next # Lists!Top =>
                 leaf.next \in leaf.rows /\ \A q \in leaf.rows : time[leaf.next] <= time[q]
            /\ leaf \in Lists!Pages
<1> DEFINE S == Lists!After(c)  leaf == Lists!Page(c)  T == Lists!Take(S, limit)
<1>1. S \in SUBSET DOMAIN time /\ Lists!Visible \subseteq DOMAIN time
  BY DEF Lists!After, Lists!Visible
<1>2. limit \in Nat \ {0} /\ DOMAIN time \subseteq Lists!Rows
      /\ \A r \in DOMAIN time : r \in Nat /\ r # Lists!Top
  BY DEF Lists!TypeOK, Lists!Rows, Lists!Top, PageBounds, Lists!BoundsAssumption,
     Lists!PageSizeAssumption
<1>3. leaf.rows = T /\ leaf.next = Lists!NextCursor(S)
  BY DEF Lists!Page
<1>4. Lists!NextCursor(S) = IF Cardinality(S) > limit THEN Lists!Oldest(T) ELSE Lists!Top
  BY ListsCount DEF Lists!NextCursor
<1>5. IsFiniteSet(S) /\ Cardinality(S) \in Nat
  BY <1>1, RowsFinite
<1> HIDE DEF S, T
<1>6. /\ T \subseteq S
      /\ \A r \in S \ T, p \in T : time[r] < time[p]
      /\ Cardinality(S) <= limit => T = S
      /\ S # {} => T # {}
  BY <1>1, <1>2, TakeCounts DEF T
<1>7. T # {} => Lists!Oldest(T) \in T /\ \A q \in T : time[Lists!Oldest(T)] <= time[q]
  BY <1>1, <1>6, OldestIs
<1>8. Cardinality(S) > limit => T # {}
  <2>1. S = {} => Cardinality(S) = 0
    BY FS_EmptySet
  <2> QED
    BY <1>2, <1>6, <2>1
<1>9. /\ leaf.next = Lists!Top => leaf.rows = S
      /\ leaf.next # Lists!Top =>
           leaf.next \in leaf.rows /\ \A q \in leaf.rows : time[leaf.next] <= time[q]
  <2>1. CASE Cardinality(S) > limit
    BY <1>1, <1>2, <1>3, <1>4, <1>6, <1>7, <1>8, <2>1
  <2>2. CASE ~(Cardinality(S) > limit)
    BY <1>2, <1>3, <1>4, <1>5, <1>6, <2>2
  <2> QED
    BY <2>1, <2>2
<1>10. leaf \in Lists!Pages
  <2>1. leaf.rows \in SUBSET Lists!Rows /\ leaf.next \in Lists!Rows \cup {Lists!Top}
    BY <1>1, <1>2, <1>3, <1>6, <1>9
  <2>2. leaf = [rows |-> leaf.rows, next |-> leaf.next]
    BY DEF Lists!Page
  <2> QED
    BY <2>1, <2>2 DEF Lists!Pages
<1> QED
  BY <1>3, <1>6, <1>9, <1>10 DEF S

LEMMA AfterIs ==
  ASSUME PageBounds, Lists!TypeOK, NEW c
  PROVE  /\ Lists!After(c) \subseteq Lists!Visible
         /\ c = Lists!Top => Lists!After(c) = Lists!Visible
         /\ c # Lists!Top =>
              /\ \A q \in Lists!After(c) : c \in DOMAIN time /\ time[q] < time[c]
              /\ c \in Lists!Visible =>
                   \A r \in Lists!Visible : time[r] < time[c] => r \in Lists!After(c)
<1>1. Lists!Visible \subseteq DOMAIN time /\ \A r \in DOMAIN time : time[r] \in Nat
  BY DEF Lists!TypeOK, Lists!Visible
<1> DEFINE since == {r \in Lists!Visible : c \in DOMAIN time /\ time[r] <= time[c]}
<1>2. c # Lists!Top => Lists!After(c) = {r \in since : Lists!Newer(r, since) # {}}
  BY DEF Lists!After
<1>3. ASSUME c # Lists!Top, NEW q \in Lists!After(c)
      PROVE  c \in DOMAIN time /\ time[q] < time[c]
  <2>1. q \in since /\ Lists!Newer(q, since) # {}
    BY <1>2, <1>3
  <2>2. PICK p \in since : time[p] > time[q]
    BY <2>1 DEF Lists!Newer
  <2> QED
    BY <1>1, <2>1, <2>2
<1>4. ASSUME c # Lists!Top, c \in Lists!Visible, NEW r \in Lists!Visible, time[r] < time[c]
      PROVE  r \in Lists!After(c)
  <2>1. c \in since /\ r \in since
    BY <1>1, <1>4
  <2>2. c \in Lists!Newer(r, since)
    BY <1>1, <1>4, <2>1 DEF Lists!Newer
  <2> QED
    BY <1>2, <1>4, <2>1, <2>2
<1> QED
  BY <1>2, <1>3, <1>4 DEF Lists!After

LEMMA AppendedIs ==
  ASSUME NEW ps \in Seq(Lists!Pages), NEW leaf \in Lists!Pages
  PROVE  LET qs == Append(ps, leaf)
         IN /\ qs \in Seq(Lists!Pages) /\ qs # <<>> /\ CursorOf(qs) = leaf.next
            /\ Len(qs) = Len(ps) + 1 /\ Len(ps) \in Nat
            /\ DOMAIN ps = 1 .. Len(ps) /\ DOMAIN qs = 1 .. Len(ps) + 1
            /\ qs[Len(ps) + 1] = leaf /\ \A k \in 1 .. Len(ps) : qs[k] = ps[k]
            /\ RowsOf(qs) = RowsOf(ps) \cup leaf.rows
<1> DEFINE qs == Append(ps, leaf)
<1>1. /\ qs \in Seq(Lists!Pages) /\ qs # <<>> /\ Len(qs) = Len(ps) + 1 /\ Len(ps) \in Nat
      /\ DOMAIN ps = 1 .. Len(ps) /\ DOMAIN qs = 1 .. Len(ps) + 1
      /\ qs[Len(ps) + 1] = leaf /\ \A k \in 1 .. Len(ps) : qs[k] = ps[k]
  OBVIOUS
<1> HIDE DEF qs
<1>2. CursorOf(qs) = leaf.next
  BY <1>1 DEF CursorOf
<1>3. RowsOf(qs) \subseteq RowsOf(ps) \cup leaf.rows
  <2>1. ASSUME NEW k \in 1 .. Len(ps) + 1 PROVE qs[k].rows \subseteq RowsOf(ps) \cup leaf.rows
    <3>1. CASE k = Len(ps) + 1
      BY <1>1, <3>1
    <3>2. CASE k # Len(ps) + 1
      <4>1. k \in 1 .. Len(ps)
        BY <1>1, <3>2
      <4> QED
        BY <1>1, <4>1 DEF RowsOf
    <3> QED
      BY <3>1, <3>2
  <2> QED
    BY <1>1, <2>1 DEF RowsOf
<1>4. RowsOf(ps) \cup leaf.rows \subseteq RowsOf(qs)
  <2>1. \A k \in 1 .. Len(ps) : k \in 1 .. Len(ps) + 1
    BY <1>1
  <2>2. Len(ps) + 1 \in 1 .. Len(ps) + 1
    BY <1>1
  <2> QED
    BY <1>1, <2>1, <2>2 DEF RowsOf
<1> QED
  BY <1>1, <1>2, <1>3, <1>4 DEF qs

\* The story of some pages once one more is read, after the cursor c.
After(story, c) == IF c = Lists!Top THEN Lists!Fresh ELSE Lists!Arrived(story, c)

LEMMA ArrivedIs ==
  ASSUME NEW story \in Lists!Past, NEW c \in Lists!Rows \cup {Lists!Top}
  PROVE  /\ After(story, c) \in Lists!Past
         /\ c = Lists!Top => After(story, c) = Lists!Fresh
         /\ c # Lists!Top =>
              /\ After(story, c).changed = story.changed
              /\ story.cursors \subseteq After(story, c).cursors
              /\ "gone" \notin After(story, c).cursors => c \in Lists!Visible
              /\ After(story, c).cursors = {} => story.cursors = {} /\ c \notin story.changed
BY DEF After, Lists!Arrived, Lists!Past, Lists!Fresh

LEMMA ReachesOn ==
  ASSUME PageBounds, Lists!TypeOK, Dated, NEW ps \in Seq(Lists!Pages), NEW story \in Lists!Past,
         Reaches(ps, story), CursorOf(ps) = Lists!Top => ps = <<>>,
         CursorOf(ps) \in Lists!Rows \cup {Lists!Top}
  PROVE  Reaches(Append(ps, Lists!Page(CursorOf(ps))), After(story, CursorOf(ps)))
<1> DEFINE c == CursorOf(ps)  leaf == Lists!Page(c)  qs == Append(ps, leaf)
           more == After(story, c)  S == Lists!After(c)
<1> SUFFICES ASSUME kind = "chats", "gone" \notin more.cursors,
                    NEW r \in Lists!Visible \ more.changed, r \notin RowsOf(qs)
             PROVE  /\ leaf.next # Lists!Top
                    /\ leaf.next \in DOMAIN time => time[r] < time[leaf.next]
  <2>1. leaf \in Lists!Pages
    BY PageIs
  <2>2. CursorOf(qs) = leaf.next
    BY <2>1, AppendedIs
  <2>3. Reaches(qs, more)
    <3> HIDE DEF qs, more, leaf
    <3> QED
      BY <2>2 DEF Reaches
  <2> QED
    BY <2>3
<1> HIDE DEF S
<1>1. /\ leaf.rows \subseteq S
      /\ \A q \in S \ leaf.rows, p \in leaf.rows : time[q] < time[p]
      /\ leaf.next = Lists!Top => leaf.rows = S
      /\ leaf.next # Lists!Top => leaf.next \in leaf.rows
      /\ leaf \in Lists!Pages
  BY PageIs DEF S
<1>2. /\ S \subseteq Lists!Visible
      /\ c = Lists!Top => S = Lists!Visible
      /\ c # Lists!Top /\ c \in Lists!Visible =>
           \A q \in Lists!Visible : time[q] < time[c] => q \in S
  BY AfterIs DEF S
<1>3. RowsOf(qs) = RowsOf(ps) \cup leaf.rows
  BY <1>1, AppendedIs
<1>4. r \in S
  <2>1. CASE c = Lists!Top
    BY <1>2, <2>1
  <2>2. CASE c # Lists!Top
    <3>1. c \in Lists!Visible /\ r \notin story.changed /\ "gone" \notin story.cursors
      BY <2>2, ArrivedIs
    <3>2. ps # <<>> /\ c \in DOMAIN time
      BY <2>2, <3>1 DEF CursorOf, Lists!Visible
    <3>3. time[r] < time[c]
      BY <1>3, <3>1, <3>2 DEF Reaches
    <3> QED
      BY <1>2, <2>2, <3>1, <3>3
  <2> QED
    BY <2>1, <2>2
<1> QED
  BY <1>1, <1>3, <1>4

LEMMA PartsOn ==
  ASSUME PageBounds, Lists!TypeOK, Dated, NEW ps \in Seq(Lists!Pages), NEW story \in Lists!Past,
         Parts(ps, story), CursorOf(ps) = Lists!Top => ps = <<>>,
         CursorOf(ps) \in Lists!Rows \cup {Lists!Top}
  PROVE  Parts(Append(ps, Lists!Page(CursorOf(ps))), After(story, CursorOf(ps)))
<1> DEFINE c == CursorOf(ps)  leaf == Lists!Page(c)  qs == Append(ps, leaf)
           more == After(story, c)  S == Lists!After(c)  n == Len(ps)
<1> HIDE DEF S, qs, leaf
<1>1. /\ leaf.rows \subseteq S
      /\ leaf.next # Lists!Top =>
           leaf.next \in leaf.rows /\ \A q \in leaf.rows : time[leaf.next] <= time[q]
      /\ leaf \in Lists!Pages
  BY PageIs DEF S, leaf
<1>2. /\ S \subseteq Lists!Visible /\ Lists!Visible \subseteq DOMAIN time
      /\ c # Lists!Top => \A q \in S : c \in DOMAIN time /\ time[q] < time[c]
      /\ \A q \in DOMAIN time : time[q] \in Nat
  BY AfterIs DEF S, Lists!Visible, Lists!TypeOK
<1>3. /\ qs # <<>> /\ CursorOf(qs) = leaf.next /\ n \in Nat
      /\ DOMAIN ps = 1 .. n /\ DOMAIN qs = 1 .. n + 1
      /\ qs[n + 1] = leaf /\ \A k \in 1 .. n : qs[k] = ps[k]
      /\ RowsOf(qs) = RowsOf(ps) \cup leaf.rows
  BY <1>1, AppendedIs DEF qs
<1> SUFFICES ASSUME kind = "chats", more.cursors = {}
             PROVE  /\ \A k, l \in DOMAIN qs : qs[k].rows \cap qs[l].rows # {} => k = l
                    /\ leaf.next # Lists!Top =>
                         /\ leaf.next \in Lists!Visible
                         /\ \A p \in RowsOf(qs) \cap DOMAIN time : time[leaf.next] <= time[p]
  BY <1>3 DEF Parts, qs, leaf
<1>4. /\ \A k, l \in 1 .. n : ps[k].rows \cap ps[l].rows # {} => k = l
      /\ \A p \in RowsOf(ps) \cap DOMAIN time : c # Lists!Top /\ time[c] <= time[p]
  <2>1. CASE ps = <<>>
    <3>1. DOMAIN ps = {} /\ 1 .. n = {}
      BY <2>1
    <3>2. RowsOf(ps) = {}
      BY <3>1 DEF RowsOf
    <3> QED
      BY <3>1, <3>2
  <2>2. CASE ps # <<>>
    <3>1. c # Lists!Top
      BY <2>2
    <3>2. story.cursors = {} /\ c \notin story.changed
      BY <3>1, ArrivedIs
    <3> QED
      BY <1>3, <2>2, <3>1, <3>2 DEF Parts
  <2> QED
    BY <2>1, <2>2
<1>5. \A q \in leaf.rows : q \notin RowsOf(ps)
  <2> SUFFICES ASSUME NEW q \in leaf.rows, q \in RowsOf(ps) PROVE FALSE
    OBVIOUS
  <2>1. q \in DOMAIN time /\ q \in S
    BY <1>1, <1>2
  <2>2. c # Lists!Top /\ time[c] <= time[q]
    BY <1>4, <2>1
  <2>3. c \in DOMAIN time /\ time[q] < time[c]
    BY <1>2, <2>1, <2>2
  <2> QED
    BY <1>2, <2>1, <2>2, <2>3
<1>6. \A k \in 1 .. n : ps[k].rows \cap leaf.rows = {}
  BY <1>3, <1>5 DEF RowsOf
<1>7. ASSUME NEW k \in DOMAIN qs, NEW l \in DOMAIN qs, qs[k].rows \cap qs[l].rows # {}
      PROVE  k = l
  <2>1. k = n + 1 \/ k \in 1 .. n
    BY <1>3
  <2>2. l = n + 1 \/ l \in 1 .. n
    BY <1>3
  <2>3. CASE k \in 1 .. n /\ l \in 1 .. n
    BY <1>3, <1>4, <1>7, <2>3
  <2>4. CASE k = n + 1 /\ l \in 1 .. n
    BY <1>3, <1>6, <1>7, <2>4
  <2>5. CASE k \in 1 .. n /\ l = n + 1
    BY <1>3, <1>6, <1>7, <2>5
  <2> QED
    BY <2>1, <2>2, <2>3, <2>4, <2>5
<1>8. ASSUME leaf.next # Lists!Top
      PROVE  /\ leaf.next \in Lists!Visible
             /\ \A p \in RowsOf(qs) \cap DOMAIN time : time[leaf.next] <= time[p]
  <2>1. leaf.next \in leaf.rows /\ leaf.next \in S /\ leaf.next \in DOMAIN time
    BY <1>1, <1>2, <1>8
  <2>2. ASSUME NEW p \in RowsOf(ps) \cap DOMAIN time PROVE time[leaf.next] <= time[p]
    <3>1. c # Lists!Top /\ time[c] <= time[p]
      BY <1>4
    <3>2. c \in DOMAIN time /\ time[leaf.next] < time[c]
      BY <1>2, <2>1, <3>1
    <3>3. time[c] \in Nat /\ time[p] \in Nat /\ time[leaf.next] \in Nat
      BY <1>2, <2>1, <3>2
    <3> QED
      BY <3>1, <3>2, <3>3
  <2> QED
    BY <1>1, <1>2, <1>3, <1>8, <2>1, <2>2
<1> QED
  BY <1>7, <1>8

LEMMA DescendsOn ==
  ASSUME PageBounds, Lists!TypeOK, Dated, Conversation, NEW ps \in Seq(Lists!Pages),
         Descends(ps), Known(ps), CursorOf(ps) = Lists!Top => ps = <<>>,
         CursorOf(ps) \in Lists!Rows \cup {Lists!Top}
  PROVE  Descends(Append(ps, Lists!Page(CursorOf(ps))))
<1> DEFINE c == CursorOf(ps)  leaf == Lists!Page(c)  qs == Append(ps, leaf)
           S == Lists!After(c)  n == Len(ps)
<1> SUFFICES ASSUME kind = "messages" PROVE Descends(qs)
  BY DEF Descends
<1>0. /\ Lists!Visible = 1 .. added /\ DOMAIN time = 1 .. added /\ added \in Nat
      /\ \A r \in 1 .. added : time[r] = r
  BY DEF Conversation, Lists!Visible, Lists!TypeOK
<1> HIDE DEF S, qs, leaf
<1>1. /\ leaf.rows \subseteq S
      /\ \A r \in S \ leaf.rows, p \in leaf.rows : time[r] < time[p]
      /\ leaf.next = Lists!Top => leaf.rows = S
      /\ leaf.next # Lists!Top =>
           leaf.next \in leaf.rows /\ \A q \in leaf.rows : time[leaf.next] <= time[q]
      /\ leaf \in Lists!Pages
  BY PageIs DEF S, leaf
<1>2. /\ S \subseteq 1 .. added
      /\ c = Lists!Top => S = 1 .. added
      /\ c # Lists!Top => \A q \in S : c \in DOMAIN time /\ time[q] < time[c]
      /\ c # Lists!Top /\ c \in 1 .. added =>
           \A r \in 1 .. added : time[r] < time[c] => r \in S
  BY <1>0, AfterIs DEF S
<1>3. /\ qs # <<>> /\ CursorOf(qs) = leaf.next /\ n \in Nat
      /\ DOMAIN ps = 1 .. n /\ DOMAIN qs = 1 .. n + 1
      /\ qs[n + 1] = leaf /\ \A k \in 1 .. n : qs[k] = ps[k]
      /\ RowsOf(qs) = RowsOf(ps) \cup leaf.rows
  BY <1>1, AppendedIs DEF qs
\* What the pages before it hold, and what it holds.
<1>4. RowsOf(ps) \subseteq 1 .. added
  BY DEF Known, RowsOf
<1>5. CASE ps = <<>>
  <2>1. c = Lists!Top /\ RowsOf(ps) = {} /\ n = 0
    BY <1>5 DEF CursorOf, RowsOf
  <2>2. S = 1 .. added /\ RowsOf(qs) = leaf.rows
    BY <1>2, <1>3, <2>1
  <2>3. \A k, l \in DOMAIN qs : ~(k < l)
    BY <1>3, <2>1
  <2>4. \A r \in 1 .. added, p \in leaf.rows : p < r => r \in leaf.rows
    BY <1>0, <1>1, <2>2
  <2>5. \A p \in leaf.rows : leaf.next # Lists!Top => leaf.next <= p
    BY <1>0, <1>1, <2>2
  <2>6. \A k, l \in DOMAIN qs :
          k < l => \A q \in qs[k].rows, r \in qs[l].rows : r < q
    BY <2>3
  <2>7. leaf.next # Lists!Top =>
          leaf.next \in RowsOf(qs) /\ \A p \in RowsOf(qs) : leaf.next <= p
    BY <1>1, <2>2, <2>5
  <2>8. leaf.next = Lists!Top => RowsOf(qs) = 1 .. added
    BY <1>1, <2>2
  <2>9. \A p, q \in RowsOf(qs), r \in 1 .. added : p < r /\ r < q => r \in RowsOf(qs)
    BY <2>2, <2>4
  <2> QED
    BY <1>3, <2>6, <2>7, <2>8, <2>9 DEF Descends
<1>6. CASE ps # <<>>
  <2>1. /\ c # Lists!Top /\ c \in RowsOf(ps) /\ \A p \in RowsOf(ps) : c <= p
        /\ \A p, q \in RowsOf(ps), r \in 1 .. added : p < r /\ r < q => r \in RowsOf(ps)
        /\ \A k, l \in 1 .. n : k < l => \A q \in ps[k].rows, r \in ps[l].rows : r < q
    BY <1>3, <1>6 DEF Descends
  <2>2. \A q \in 1 .. added : q \in S <=> q < c
    BY <1>0, <1>2, <1>4, <2>1
  <2>3. \A p \in leaf.rows : p \in 1 .. added /\ p < c
    BY <1>1, <1>2, <2>2
  <2>4. \A r \in 1 .. added, p \in leaf.rows : p < r /\ r < c => r \in leaf.rows
    BY <1>0, <1>1, <2>2, <2>3
  <2>5. \A r \in 1 .. added, q \in RowsOf(ps) : c <= r /\ r < q => r \in RowsOf(ps)
    <3> SUFFICES ASSUME NEW r \in 1 .. added, NEW q \in RowsOf(ps), c < r, r < q
                 PROVE  r \in RowsOf(ps)
      BY <1>0, <1>4, <2>1
    <3> QED
      BY <2>1
  <2>6. ASSUME NEW p \in RowsOf(qs), NEW q \in RowsOf(qs), NEW r \in 1 .. added, p < r, r < q
        PROVE  r \in RowsOf(qs)
    <3>1. CASE r < c
      <4>1. p \in leaf.rows
        BY <1>0, <1>3, <1>4, <2>1, <2>6, <3>1
      <4> QED
        BY <1>3, <2>4, <2>6, <3>1, <4>1
    <3>2. CASE c <= r
      <4>1. q \in RowsOf(ps)
        BY <1>0, <1>3, <1>4, <2>1, <2>3, <2>6, <3>2
      <4> QED
        BY <1>3, <2>5, <2>6, <3>2, <4>1
    <3> QED
      BY <1>0, <1>4, <2>1, <3>1, <3>2
  <2>7. ASSUME NEW k \in DOMAIN qs, NEW l \in DOMAIN qs, k < l,
               NEW q \in qs[k].rows, NEW r \in qs[l].rows
        PROVE  r < q
    <3>1. k \in 1 .. n /\ (l \in 1 .. n \/ l = n + 1)
      BY <1>3, <2>7
    <3>2. q \in ps[k].rows /\ q \in RowsOf(ps)
      BY <1>3, <2>7, <3>1 DEF RowsOf
    <3>3. CASE l = n + 1
      BY <1>0, <1>3, <1>4, <2>1, <2>3, <2>7, <3>2, <3>3
    <3>4. CASE l \in 1 .. n
      BY <1>3, <2>1, <2>7, <3>1, <3>2, <3>4
    <3> QED
      BY <3>1, <3>3, <3>4
  <2>8. leaf.next # Lists!Top =>
          leaf.next \in RowsOf(qs) /\ \A p \in RowsOf(qs) : leaf.next <= p
    <3> SUFFICES ASSUME leaf.next # Lists!Top, NEW p \in RowsOf(qs)
                 PROVE  leaf.next \in RowsOf(qs) /\ leaf.next <= p
      BY <1>1, <1>3
    <3>1. leaf.next \in leaf.rows /\ leaf.next \in 1 .. added /\ leaf.next < c
      BY <1>1, <2>3
    <3>2. p \in leaf.rows => leaf.next <= p
      BY <1>0, <1>1, <2>3, <3>1
    <3>3. p \in RowsOf(ps) => leaf.next <= p
      BY <1>0, <1>4, <2>1, <3>1
    <3> QED
      BY <1>3, <3>1, <3>2, <3>3
  <2>9. leaf.next = Lists!Top =>
          \A q \in RowsOf(qs), r \in 1 .. added : r < q => r \in RowsOf(qs)
    <3> SUFFICES ASSUME leaf.next = Lists!Top, NEW q \in RowsOf(qs), NEW r \in 1 .. added, r < q
                 PROVE  r \in RowsOf(qs)
      OBVIOUS
    <3>1. CASE r < c
      BY <1>1, <1>3, <2>2, <3>1
    <3>2. CASE c <= r
      <4>1. q \in RowsOf(ps)
        BY <1>0, <1>3, <1>4, <2>1, <2>3, <3>2
      <4> QED
        BY <1>3, <2>5, <3>2, <4>1
    <3> QED
      BY <1>0, <1>4, <2>1, <3>1, <3>2
  <2> QED
    BY <1>3, <2>6, <2>7, <2>8, <2>9 DEF Descends
<1> QED
  BY <1>5, <1>6

LEMMA WalkOn ==
  ASSUME PageBounds, Lists!TypeOK, Dated, Conversation, NEW ps \in Seq(Lists!Pages),
         NEW story \in Lists!Past, Walk(ps, story), Known(ps),
         CursorOf(ps) = Lists!Top => ps = <<>>,
         CursorOf(ps) \in Lists!Rows \cup {Lists!Top}
  PROVE  Walk(Append(ps, Lists!Page(CursorOf(ps))), After(story, CursorOf(ps)))
BY ReachesOn, PartsOn, DescendsOn DEF Walk

\* What becomes of some pages when the rows change under them.
Touched(r, story, more) == more.changed = story.changed \cup {r} /\ more.cursors = story.cursors

\* A change of the rows, as the pages see it: only the row r moves, comes or goes, to a time
\* that is later than all.
MovesOne(r) ==
  /\ added <= added' /\ added' \in Nat
  /\ \A q \in DOMAIN time' \ {r} : q \in DOMAIN time /\ time'[q] = time[q]
  /\ \A q \in DOMAIN time \ {r} : q \in DOMAIN time'
  /\ Lists!Visible' \ {r} = Lists!Visible \ {r}
  /\ r \in DOMAIN time' =>
       \/ r \in DOMAIN time /\ time'[r] = time[r]
       \/ \A q \in DOMAIN time : time[q] < time'[r]
  /\ r \in DOMAIN time \/ r > added
  /\ kind' = kind
  /\ kind = "messages" => added' = added + 1 /\ r = added'

LEMMA WalkChanged ==
  ASSUME PageBounds, Lists!TypeOK, Lists!TypeOK', Dated, Conversation', NEW r \in Nat \ {0}, MovesOne(r),
         NEW ps \in Seq(Lists!Pages), NEW story \in Lists!Past, NEW more \in Lists!Past,
         Touched(r, story, more), Known(ps), Walk(ps, story)
  PROVE  Walk(ps, more)'
<1> DEFINE c == CursorOf(ps)
<1>1. /\ \A q \in DOMAIN time : time[q] \in Nat
      /\ \A q \in DOMAIN time' : time'[q] \in Nat
      /\ Lists!Visible \subseteq DOMAIN time /\ Lists!Visible' \subseteq DOMAIN time'
      /\ added \in Nat /\ added' \in Nat /\ DOMAIN time \subseteq 1 .. added
  BY DEF Lists!TypeOK, Lists!Visible, Dated
<1>2. RowsOf(ps) \subseteq 1 .. added /\ c \in Nat /\ c <= added
  <2>1. ps # <<>> => Len(ps) \in DOMAIN ps /\ ps[Len(ps)] \in Lists!Pages
    OBVIOUS
  <2>2. \A k \in DOMAIN ps : ps[k].rows \subseteq 1 .. added /\ ps[k].next <= added
    BY DEF Known
  <2>3. c \in Nat /\ c <= added
    BY <1>1, <2>1, <2>2 DEF CursorOf, Lists!Pages, Lists!Rows, Lists!Top
  <2> QED
    BY <2>2, <2>3 DEF RowsOf
<1> HIDE DEF c
<1>3. Reaches(ps, more)'
  <2> SUFFICES ASSUME kind = "chats", ps # <<>>, "gone" \notin story.cursors,
                      NEW q \in Lists!Visible' \ more.changed, q \notin RowsOf(ps)
               PROVE  c # Lists!Top /\ (c \in DOMAIN time' => time'[q] < time'[c])
    BY DEF Reaches, Touched, MovesOne, c
  <2>1. q # r /\ q \in Lists!Visible \ story.changed
    BY DEF Touched, MovesOne
  <2>2. c # Lists!Top /\ (c \in DOMAIN time => time[q] < time[c])
    BY <2>1 DEF Walk, Reaches, c
  <2>3. q \in DOMAIN time /\ q \in DOMAIN time' /\ time'[q] = time[q]
    BY <1>1, <2>1 DEF MovesOne
  <2>4. ASSUME c \in DOMAIN time' PROVE time'[q] < time'[c]
    <3>1. CASE c # r
      BY <2>2, <2>3, <2>4, <3>1 DEF MovesOne
    <3>2. CASE c = r
      <4>1. c \in DOMAIN time
        BY <1>1, <1>2, <3>2 DEF MovesOne
      <4>2. time'[c] = time[c] \/ time[q] < time'[c]
        BY <2>3, <2>4, <3>2 DEF MovesOne
      <4> QED
        BY <2>2, <2>3, <4>1, <4>2
    <3> QED
      BY <3>1, <3>2
  <2> QED
    BY <2>2, <2>4
<1>4. Parts(ps, more)'
  <2> SUFFICES ASSUME kind = "chats", ps # <<>>, story.cursors = {}
               PROVE  /\ \A k, l \in DOMAIN ps : ps[k].rows \cap ps[l].rows # {} => k = l
                      /\ c # Lists!Top /\ c \notin more.changed =>
                           /\ c \in Lists!Visible'
                           /\ \A p \in RowsOf(ps) \cap DOMAIN time' : time'[c] <= time'[p]
    BY DEF Parts, Touched, MovesOne, c
  <2>1. /\ \A k, l \in DOMAIN ps : ps[k].rows \cap ps[l].rows # {} => k = l
        /\ c # Lists!Top /\ c \notin story.changed =>
             /\ c \in Lists!Visible
             /\ \A p \in RowsOf(ps) \cap DOMAIN time : time[c] <= time[p]
    BY DEF Walk, Parts, c
  <2>2. ASSUME c # Lists!Top, c \notin more.changed
        PROVE  /\ c \in Lists!Visible'
               /\ \A p \in RowsOf(ps) \cap DOMAIN time' : time'[c] <= time'[p]
    <3>1. c # r /\ c \notin story.changed
      BY <2>2 DEF Touched
    <3>2. c \in Lists!Visible /\ c \in Lists!Visible'
      BY <2>1, <2>2, <3>1 DEF MovesOne
    <3>3. c \in DOMAIN time /\ c \in DOMAIN time' /\ time'[c] = time[c]
      BY <1>1, <3>1, <3>2 DEF MovesOne
    <3>4. ASSUME NEW p \in RowsOf(ps) \cap DOMAIN time' PROVE time'[c] <= time'[p]
      <4>1. CASE p # r
        BY <2>1, <2>2, <3>1, <3>3, <3>4, <4>1 DEF MovesOne
      <4>2. CASE p = r
        <5>1. p \in DOMAIN time /\ time[c] <= time[p]
          BY <1>1, <1>2, <2>1, <2>2, <3>1, <4>2 DEF MovesOne
        <5>2. time'[p] = time[p] \/ time[c] < time'[p]
          BY <3>3, <3>4, <4>2 DEF MovesOne
        <5> QED
          BY <1>1, <3>3, <3>4, <5>1, <5>2
      <4> QED
        BY <4>1, <4>2
    <3> QED
      BY <3>2, <3>4
  <2> QED
    BY <2>1, <2>2
<1>5. Descends(ps)'
  <2> SUFFICES ASSUME kind = "messages", ps # <<>>
               PROVE  Descends(ps)'
    BY DEF Descends, MovesOne
  <2>1. Descends(ps) /\ added' = added + 1
    BY DEF Walk, MovesOne
  <2>2. \A q \in RowsOf(ps), p \in 1 .. added' : p < q => p \in 1 .. added
    BY <1>1, <1>2, <2>1
  <2>3. /\ \A k, l \in DOMAIN ps :
             k < l => \A q \in ps[k].rows, p \in ps[l].rows : p < q
        /\ c # Lists!Top => c \in RowsOf(ps) /\ \A p \in RowsOf(ps) : c <= p
    BY <2>1 DEF Descends, c
  <2>4. \A p, q \in RowsOf(ps), x \in 1 .. added' : p < x /\ x < q => x \in RowsOf(ps)
    BY <2>1, <2>2 DEF Descends
  <2>5. c = Lists!Top => \A q \in RowsOf(ps), x \in 1 .. added' : x < q => x \in RowsOf(ps)
    BY <2>1, <2>2 DEF Descends, c
  <2> QED
    BY <2>3, <2>4, <2>5 DEF Descends, c
<1> QED
  BY <1>3, <1>4, <1>5 DEF Walk

\* What a change leaves of the query.
LEMMA TouchTypes ==
  ASSUME PageBounds, ListsInv, NEW r \in Lists!Rows, Lists!Touch(r)
  PROVE  /\ kind' = kind /\ limit' = limit /\ pages' = pages
         /\ fetching' = fetching \/ fetching.mode # "none"
         /\ fetching'.mode = fetching.mode /\ fetching'.pages = fetching.pages
         /\ fetching'.cursor = fetching.cursor
         /\ fetching' \in [mode : {"none", "next", "refetch"}, pages : Seq(Lists!Pages),
                           cursor : Lists!Rows \cup {Lists!Top}, past : Lists!Past]
         /\ origin' \in Lists!Past /\ Touched(r, origin, origin')
         /\ fetching.mode # "none" =>
              /\ fetching'.past.changed = fetching.past.changed \cup {r}
              /\ fetching'.past.cursors = fetching.past.cursors
         /\ fetching.mode = "next" => fetching'.past = origin'
<1>1. /\ kind' = kind /\ limit' = limit /\ pages' = pages
      /\ origin' = [origin EXCEPT !.changed = @ \cup {r}]
      /\ fetching' = IF fetching = Lists!NoFetch THEN fetching
                     ELSE [fetching EXCEPT !.past.changed = @ \cup {r}]
  BY DEF Lists!Touch
<1>2. /\ origin \in Lists!Past
      /\ fetching \in [mode : {"none", "next", "refetch"}, pages : Seq(Lists!Pages),
                       cursor : Lists!Rows \cup {Lists!Top}, past : Lists!Past]
      /\ fetching.mode = "none" => fetching = Lists!NoFetch
      /\ Lists!NoFetch.mode = "none"
  BY DEF ListsInv, Lists!TypeOK, GoesOn, Lists!NoFetch
<1>3. /\ origin' \in Lists!Past
      /\ origin'.changed = origin.changed \cup {r} /\ origin'.cursors = origin.cursors
  BY <1>1, <1>2 DEF Lists!Past
<1>4. CASE fetching = Lists!NoFetch
  BY <1>1, <1>2, <1>3, <1>4 DEF Touched
<1>5. CASE fetching # Lists!NoFetch
  <2>1. fetching' = [fetching EXCEPT !.past = [fetching.past EXCEPT !.changed = @ \cup {r}]]
    BY <1>1, <1>5
  <2>2. fetching.past \in Lists!Past
    BY <1>2
  <2>3. [fetching.past EXCEPT !.changed = @ \cup {r}] \in Lists!Past
    BY <2>2 DEF Lists!Past
  <2>4. /\ fetching'.mode = fetching.mode /\ fetching'.pages = fetching.pages
        /\ fetching'.cursor = fetching.cursor
        /\ fetching'.past = [fetching.past EXCEPT !.changed = @ \cup {r}]
        /\ fetching' \in [mode : {"none", "next", "refetch"}, pages : Seq(Lists!Pages),
                          cursor : Lists!Rows \cup {Lists!Top}, past : Lists!Past]
    BY <1>2, <2>1, <2>3
  <2>5. fetching.mode = "next" => fetching.past = origin
    BY DEF ListsInv, GoesOn
  <2>6. /\ fetching'.past.changed = fetching.past.changed \cup {r}
        /\ fetching'.past.cursors = fetching.past.cursors
    BY <2>2, <2>4 DEF Lists!Past
  <2>7. fetching.mode = "next" => fetching'.past = origin'
    BY <1>1, <2>4, <2>5
  <2> QED
    BY <1>1, <1>2, <1>3, <1>5, <2>4, <2>6, <2>7 DEF Touched
<1> QED
  BY <1>4, <1>5

\* A change that is one of these leaves the pages as they were promised.
TimesKept == DOMAIN time \subseteq 1 .. added /\ \A q \in DOMAIN time : time[q] <= added + touches
TableTypes ==
  /\ DOMAIN time \subseteq Lists!Rows /\ time \in [DOMAIN time -> Nat] /\ archived \subseteq DOMAIN time
  /\ added \in 0 .. MaxRows /\ touches \in 0 .. MaxTouches

LEMMA TouchKeeps ==
  ASSUME PageBounds, ListsInv, NEW r \in Lists!Rows, Lists!Touch(r), MovesOne(r),
         TimesKept', TableTypes', Conversation'
  PROVE  ListsInv'
<1>1. /\ kind' = kind /\ limit' = limit /\ pages' = pages
      /\ fetching' = fetching \/ fetching.mode # "none"
      /\ fetching'.mode = fetching.mode /\ fetching'.pages = fetching.pages
      /\ fetching'.cursor = fetching.cursor
      /\ fetching' \in [mode : {"none", "next", "refetch"}, pages : Seq(Lists!Pages),
                        cursor : Lists!Rows \cup {Lists!Top}, past : Lists!Past]
      /\ origin' \in Lists!Past /\ Touched(r, origin, origin')
      /\ fetching.mode # "none" =>
           /\ fetching'.past.changed = fetching.past.changed \cup {r}
           /\ fetching'.past.cursors = fetching.past.cursors
      /\ fetching.mode = "next" => fetching'.past = origin'
  BY TouchTypes
<1>2. /\ Lists!TypeOK /\ Dated /\ Conversation /\ GoesOn /\ Walk(pages, origin)
      /\ fetching.mode = "refetch" => Walk(fetching.pages, fetching.past)
      /\ Known(pages) /\ Known(fetching.pages)
      /\ pages \in Seq(Lists!Pages) /\ fetching.pages \in Seq(Lists!Pages)
      /\ origin \in Lists!Past /\ fetching.past \in Lists!Past
  BY DEF ListsInv, Dated, Lists!TypeOK
<1>3. r \in Nat \ {0}
  BY DEF PageBounds, Lists!BoundsAssumption, Lists!Rows
<1>4. Lists!TypeOK'
  BY <1>1, <1>2 DEF Lists!TypeOK, TableTypes
<1>5. Dated'
  <2>1. added \in Nat /\ added' \in Nat /\ added <= added'
    BY <1>2 DEF MovesOne, Lists!TypeOK
  <2>2. 1 .. added \subseteq 1 .. added'
    BY <2>1
  <2>3. \A ps \in Seq(Lists!Pages) : \A k \in DOMAIN ps : ps[k].next \in Nat
    <3> SUFFICES ASSUME NEW ps \in Seq(Lists!Pages), NEW k \in DOMAIN ps
                 PROVE  ps[k].next \in Nat
      OBVIOUS
    <3>1. ps[k] \in Lists!Pages
      OBVIOUS
    <3> QED
      BY <3>1 DEF Lists!Pages, Lists!Rows, Lists!Top, PageBounds, Lists!BoundsAssumption
  <2>4. \A k \in DOMAIN pages : pages[k].rows \subseteq 1 .. added' /\ pages[k].next <= added'
    BY <1>2, <2>1, <2>2, <2>3 DEF Known
  <2>5. \A k \in DOMAIN fetching.pages :
          fetching.pages[k].rows \subseteq 1 .. added' /\ fetching.pages[k].next <= added'
    BY <1>2, <2>1, <2>2, <2>3 DEF Known
  <2> QED
    BY <1>1, <2>4, <2>5 DEF Dated, Known, TimesKept
<1>6. GoesOn'
  BY <1>1, <1>2 DEF GoesOn
<1>7. Walk(pages, origin)'
  <2>1. PICK ps, story, more : ps = pages /\ story = origin /\ more = origin'
    OBVIOUS
  <2>2. Walk(ps, more)'
    BY <1>1, <1>2, <1>3, <1>4, <2>1, WalkChanged
  <2> QED
    BY <1>1, <2>1, <2>2 DEF Walk, Reaches, Parts, Descends
<1>8. ASSUME fetching.mode = "refetch" PROVE Walk(fetching.pages, fetching.past)'
  <2>1. PICK ps, story, more :
          ps = fetching.pages /\ story = fetching.past /\ more = fetching'.past
    OBVIOUS
  <2>2. Touched(r, story, more) /\ more \in Lists!Past
    BY <1>1, <1>8, <2>1 DEF Touched
  <2>3. Walk(ps, more)'
    BY <1>2, <1>3, <1>4, <1>8, <2>1, <2>2, WalkChanged
  <2>4. fetching'.pages = ps /\ fetching'.past = more
    BY <1>1, <2>1
  <2> QED
    BY <2>3, <2>4 DEF Walk, Reaches, Parts, Descends
<1> QED
  BY <1>1, <1>4, <1>5, <1>6, <1>7, <1>8 DEF ListsInv

LEMMA CreateKeeps ==
  ASSUME PageBounds, ListsInv, Lists!Create
  PROVE  ListsInv'
<1> USE DEF Lists!Create
<1> DEFINE r == added + 1
<1>1. /\ added \in Nat /\ touches \in Nat /\ MaxRows \in Nat /\ added' = r /\ r <= MaxRows
      /\ DOMAIN time \subseteq 1 .. added /\ archived \subseteq DOMAIN time
      /\ time \in [DOMAIN time -> Nat] /\ touches \in 0 .. MaxTouches
      /\ \A q \in DOMAIN time : time[q] <= added + touches
      /\ UNCHANGED <<archived, touches>> /\ Lists!Touch(r)
  BY DEF ListsInv, Lists!TypeOK, Dated, PageBounds, Lists!BoundsAssumption
<1>2. /\ r \in Lists!Rows /\ r \notin DOMAIN time /\ Lists!Now = added + touches + 1
      /\ 1 .. added \subseteq 1 .. r /\ 1 .. r \subseteq Lists!Rows
  BY <1>1 DEF Lists!Rows, Lists!Now
<1>3. time' = [q \in DOMAIN time \cup {r} |-> IF q = r THEN Lists!Now ELSE time[q]]
  BY <1>1
<1>4. /\ DOMAIN time' = DOMAIN time \cup {r} /\ time'[r] = added + touches + 1
      /\ \A q \in DOMAIN time : time'[q] = time[q]
  BY <1>2, <1>3
<1>5. time' \in [DOMAIN time' -> Nat]
  BY <1>1, <1>2, <1>3, <1>4
<1> HIDE DEF Lists!Create
<1>6. TimesKept' /\ TableTypes'
  BY <1>1, <1>2, <1>4, <1>5 DEF TimesKept, TableTypes
<1>7. kind' = kind
  BY <1>1 DEF Lists!Touch
<1>8. Conversation'
  BY <1>1, <1>2, <1>4, <1>7 DEF ListsInv, Conversation
<1>9. MovesOne(r)
  BY <1>1, <1>2, <1>4, <1>7 DEF MovesOne, Lists!Visible
<1> QED
  BY <1>1, <1>2, <1>6, <1>8, <1>9, TouchKeeps

\* The changes of a chat that exists.
LEMMA ChatKeeps ==
  ASSUME PageBounds, ListsInv, NEW r \in Lists!Rows, Lists!TouchChat(r), added' = added,
         archived' \subseteq DOMAIN time', archived' \ {r} = archived \ {r},
         \/ DOMAIN time' = DOMAIN time \ {r} /\ \A q \in DOMAIN time' : time'[q] = time[q]
         \/ /\ DOMAIN time' = DOMAIN time /\ \A q \in DOMAIN time \ {r} : time'[q] = time[q]
            /\ time'[r] \in {time[r], Lists!Now},
         time' \in [DOMAIN time' -> Nat]
  PROVE  ListsInv'
<1>1. /\ added \in Nat /\ touches \in Nat /\ added \in 0 .. MaxRows
      /\ touches' = touches + 1 /\ touches' \in 0 .. MaxTouches
      /\ DOMAIN time \subseteq 1 .. added /\ DOMAIN time \subseteq Lists!Rows
      /\ \A q \in DOMAIN time : time[q] \in Nat /\ time[q] <= added + touches
      /\ r \in DOMAIN time /\ kind = "chats" /\ kind' = kind /\ Lists!Touch(r)
  BY DEF ListsInv, Lists!TypeOK, Dated, PageBounds, Lists!BoundsAssumption, Lists!TouchChat,
     Lists!Touch
<1>2. Lists!Now = added + touches + 1
  BY DEF Lists!Now
<1>3. /\ DOMAIN time' \subseteq DOMAIN time
      /\ \A q \in DOMAIN time' : time'[q] = time[q] \/ (q = r /\ time'[q] = Lists!Now)
      /\ DOMAIN time \ {r} \subseteq DOMAIN time'
  <2>1. CASE DOMAIN time' = DOMAIN time \ {r} /\ \A q \in DOMAIN time' : time'[q] = time[q]
    BY <2>1
  <2>2. CASE /\ DOMAIN time' = DOMAIN time /\ \A q \in DOMAIN time \ {r} : time'[q] = time[q]
             /\ time'[r] \in {time[r], Lists!Now}
    <3>1. \A q \in DOMAIN time' : q = r \/ q \in DOMAIN time \ {r}
      BY <2>2
    <3> QED
      BY <2>2, <3>1
  <2> QED
    BY <2>1, <2>2
<1>4. TimesKept' /\ TableTypes'
  BY <1>1, <1>2, <1>3 DEF TimesKept, TableTypes
<1>5. Conversation'
  BY <1>1 DEF Conversation
<1>6. MovesOne(r)
  <2>1. Lists!Visible' \ {r} = Lists!Visible \ {r}
    BY <1>3 DEF Lists!Visible
  <2> QED
    BY <1>1, <1>2, <1>3, <2>1 DEF MovesOne
<1> QED
  BY <1>1, <1>4, <1>5, <1>6, TouchKeeps

LEMMA RowsKeep ==
  ASSUME PageBounds, ListsInv, NEW r \in Lists!Rows,
         Lists!Bump(r) \/ Lists!Delete(r) \/ \E value \in BOOLEAN : Lists!Archive(r, value)
  PROVE  ListsInv'
<1>1. /\ time \in [DOMAIN time -> Nat] /\ archived \subseteq DOMAIN time
      /\ Lists!Now \in Nat
  BY DEF ListsInv, Lists!TypeOK, Lists!Now, PageBounds, Lists!BoundsAssumption
<1>2. CASE Lists!Bump(r)
  <2>1. /\ time' = [time EXCEPT ![r] = Lists!Now] /\ UNCHANGED <<archived, added>>
        /\ Lists!TouchChat(r) /\ r \in DOMAIN time
    BY <1>2 DEF Lists!Bump, Lists!TouchChat
  <2>2. DOMAIN time' = DOMAIN time /\ time'[r] = Lists!Now
        /\ time' \in [DOMAIN time' -> Nat] /\ \A q \in DOMAIN time \ {r} : time'[q] = time[q]
    BY <1>1, <2>1
  <2> QED
    BY <1>1, <2>1, <2>2, ChatKeeps
<1>3. CASE Lists!Delete(r)
  <2>1. /\ time' = [q \in DOMAIN time \ {r} |-> time[q]] /\ archived' = archived \ {r}
        /\ Lists!TouchChat(r) /\ added' = added
    BY <1>3 DEF Lists!Delete
  <2>2. /\ DOMAIN time' = DOMAIN time \ {r} /\ time' \in [DOMAIN time' -> Nat]
        /\ \A q \in DOMAIN time' : time'[q] = time[q]
    BY <1>1, <2>1
  <2>3. archived' \subseteq DOMAIN time' /\ archived' \ {r} = archived \ {r}
    BY <1>1, <2>1, <2>2
  <2> QED
    BY <2>1, <2>2, <2>3, ChatKeeps
<1>4. CASE \E value \in BOOLEAN : Lists!Archive(r, value)
  <2>1. /\ Lists!TouchChat(r) /\ r \in DOMAIN time /\ time' = time /\ added' = added
        /\ archived' \in {archived \cup {r}, archived \ {r}}
    BY <1>4 DEF Lists!Archive, Lists!TouchChat
  <2> QED
    BY <1>1, <2>1, ChatKeeps
<1> QED
  BY <1>2, <1>3, <1>4

\* Steps that leave the rows as they are.
LEMMA PagesMove ==
  ASSUME PageBounds, ListsInv, UNCHANGED Lists!table,
         fetching' \in [mode : {"none", "next", "refetch"}, pages : Seq(Lists!Pages),
                           cursor : Lists!Rows \cup {Lists!Top}, past : Lists!Past],
         pages' \in Seq(Lists!Pages), origin' \in Lists!Past,
         GoesOn', Known(pages'), Known(fetching'.pages), Walk(pages', origin'),
         fetching'.mode = "refetch" => Walk(fetching'.pages, fetching'.past)
  PROVE  ListsInv'
<1>1. UNCHANGED <<kind, limit, time, archived, added, touches>>
  BY DEF Lists!table
<1>2. Lists!TypeOK'
  BY <1>1 DEF ListsInv, Lists!TypeOK
<1>3. Dated' /\ Conversation'
  BY <1>1 DEF ListsInv, Dated, Known, Conversation
<1>4. Lists!Visible' = Lists!Visible
  BY <1>1 DEF Lists!Visible
<1>5. Walk(pages, origin)'
  BY <1>1, <1>4 DEF Walk, Reaches, Parts, Descends
<1>6. (fetching.mode = "refetch" => Walk(fetching.pages, fetching.past))'
  BY <1>1, <1>4 DEF Walk, Reaches, Parts, Descends
<1> QED
  BY <1>2, <1>3, <1>5, <1>6 DEF ListsInv

LEMMA FetchKeeps ==
  ASSUME PageBounds, ListsInv, Lists!FetchNextPage \/ Lists!Refetch \/ Lists!FetchFails
  PROVE  ListsInv'
<1>1. UNCHANGED Lists!table /\ UNCHANGED <<pages, origin>>
  BY DEF Lists!FetchNextPage, Lists!Refetch, Lists!FetchFails
<1>2. /\ pages \in Seq(Lists!Pages) /\ origin \in Lists!Past /\ Known(pages)
      /\ Walk(pages, origin) /\ Lists!Fresh \in Lists!Past
  BY DEF ListsInv, Dated, Lists!TypeOK, Lists!Past, Lists!Fresh
<1>3. Known(<<>>) /\ \A story : Walk(<<>>, story)
  BY DEF Known, Walk, Reaches, Parts, Descends
<1>4. CASE Lists!FetchNextPage
  <2>1. fetching' = [mode |-> "next", pages |-> <<>>, cursor |-> CursorOf(pages), past |-> origin]
        /\ pages # <<>> /\ CursorOf(pages) # Lists!Top
    BY <1>4 DEF Lists!FetchNextPage, Lists!More, CursorOf
  <2>2. pages[Len(pages)] \in Lists!Pages
    BY <1>2, <2>1
  <2>3. CursorOf(pages) \in Lists!Rows \cup {Lists!Top}
    BY <2>1, <2>2 DEF CursorOf, Lists!Pages
  <2>4. GoesOn'
    BY <1>1, <2>1 DEF GoesOn
  <2> QED
    BY <1>1, <1>2, <1>3, <2>1, <2>3, <2>4, PagesMove
<1>5. CASE Lists!Refetch
  <2>0. fetching' = [mode |-> "refetch", pages |-> <<>>, cursor |-> Lists!Top,
                     past |-> Lists!Fresh]
    BY <1>5 DEF Lists!Refetch, Lists!NoFetch
  <2>1. /\ fetching'.mode = "refetch" /\ fetching'.pages = <<>>
        /\ fetching'.cursor = Lists!Top /\ fetching'.past = Lists!Fresh
        /\ fetching' \in [mode : {"none", "next", "refetch"}, pages : Seq(Lists!Pages),
                          cursor : Lists!Rows \cup {Lists!Top}, past : Lists!Past]
    BY <1>2, <2>0
  <2>2. GoesOn'
    BY <2>1 DEF GoesOn, CursorOf
  <2> QED
    BY <1>1, <1>2, <1>3, <2>1, <2>2, PagesMove
<1>6. CASE Lists!FetchFails
  <2>1. /\ fetching' = Lists!NoFetch /\ fetching'.mode = "none" /\ fetching'.pages = <<>>
        /\ fetching' \in [mode : {"none", "next", "refetch"}, pages : Seq(Lists!Pages),
                          cursor : Lists!Rows \cup {Lists!Top}, past : Lists!Past]
    BY <1>2, <1>6 DEF Lists!FetchFails, Lists!NoFetch
  <2>2. GoesOn'
    BY <2>1 DEF GoesOn
  <2> QED
    BY <1>1, <1>2, <1>3, <2>1, <2>2, PagesMove
<1> QED
  BY <1>4, <1>5, <1>6

LEMMA ReadOn ==
  ASSUME PageBounds, ListsInv, NEW ps \in Seq(Lists!Pages), NEW story \in Lists!Past,
         Walk(ps, story), Known(ps), CursorOf(ps) = Lists!Top => ps = <<>>
  PROVE  LET c == CursorOf(ps)  qs == Append(ps, Lists!Page(c))
         IN /\ qs \in Seq(Lists!Pages) /\ CursorOf(qs) = Lists!Page(c).next
            /\ Known(qs) /\ Walk(qs, After(story, c)) /\ After(story, c) \in Lists!Past
            /\ CursorOf(qs) \in Lists!Rows \cup {Lists!Top}
<1> DEFINE c == CursorOf(ps)  leaf == Lists!Page(c)  qs == Append(ps, leaf)
<1>1. Lists!TypeOK /\ Dated /\ Conversation
  BY DEF ListsInv
<1>2. c \in Lists!Rows \cup {Lists!Top}
  <2>1. ps # <<>> => ps[Len(ps)] \in Lists!Pages
    OBVIOUS
  <2> QED
    BY <2>1 DEF CursorOf, Lists!Pages
<1>3. leaf \in Lists!Pages /\ leaf.rows \subseteq Lists!After(c)
      /\ (leaf.next # Lists!Top => leaf.next \in leaf.rows)
  BY <1>1, PageIs
<1>4. Lists!After(c) \subseteq 1 .. added
  BY <1>1, AfterIs DEF Dated, Lists!Visible
<1>5. Walk(qs, After(story, c))
  BY <1>1, <1>2, WalkOn
<1>6. After(story, c) \in Lists!Past
  BY <1>2, ArrivedIs
<1> HIDE DEF leaf, qs
<1>7. /\ qs \in Seq(Lists!Pages) /\ CursorOf(qs) = leaf.next
      /\ DOMAIN qs = 1 .. Len(ps) + 1 /\ Len(ps) \in Nat /\ DOMAIN ps = 1 .. Len(ps)
      /\ qs[Len(ps) + 1] = leaf /\ \A k \in 1 .. Len(ps) : qs[k] = ps[k]
  BY <1>3, AppendedIs DEF qs
<1>8. leaf.rows \subseteq 1 .. added /\ leaf.next <= added
  BY <1>1, <1>3, <1>4 DEF Lists!Top, Lists!TypeOK
<1>9. Known(qs)
  <2> SUFFICES ASSUME NEW k \in 1 .. Len(ps) + 1
               PROVE  qs[k].rows \subseteq 1 .. added /\ qs[k].next <= added
    BY <1>7 DEF Known
  <2>1. k \in 1 .. Len(ps) \/ k = Len(ps) + 1
    BY <1>7
  <2> QED
    BY <1>7, <1>8, <2>1 DEF Known
<1>10. leaf.next \in Lists!Rows \cup {Lists!Top}
  BY <1>3 DEF Lists!Pages
<1> QED
  BY <1>5, <1>6, <1>7, <1>9, <1>10 DEF qs, leaf

LEMMA ArrivesKeeps ==
  ASSUME PageBounds, ListsInv, Lists!PageArrives
  PROVE  ListsInv'
<1> DEFINE leaf == Lists!Page(fetching.cursor)
           fresh == Append(fetching.pages, leaf)
           story == After(fetching.past, fetching.cursor)
<1>1. /\ fetching.mode # "none" /\ UNCHANGED Lists!table
      /\ \/ /\ fetching.mode = "refetch" /\ leaf.next # Lists!Top
            /\ fetching' = [fetching EXCEPT !.pages = fresh, !.cursor = leaf.next, !.past = story]
            /\ UNCHANGED <<pages, origin>>
         \/ /\ pages' = IF fetching.mode = "next" THEN Append(pages, leaf) ELSE fresh
            /\ origin' = story /\ fetching' = Lists!NoFetch
  BY DEF Lists!PageArrives, After
<1>2. /\ pages \in Seq(Lists!Pages) /\ origin \in Lists!Past /\ Known(pages)
      /\ fetching.pages \in Seq(Lists!Pages) /\ fetching.past \in Lists!Past
      /\ Known(fetching.pages) /\ Lists!Fresh \in Lists!Past
      /\ Walk(pages, origin) /\ GoesOn
      /\ fetching.mode = "refetch" => Walk(fetching.pages, fetching.past)
      /\ fetching.mode \in {"none", "next", "refetch"}
      /\ fetching \in [mode : {"none", "next", "refetch"}, pages : Seq(Lists!Pages),
                       cursor : Lists!Rows \cup {Lists!Top}, past : Lists!Past]
  BY DEF ListsInv, Dated, Lists!TypeOK, Lists!Past, Lists!Fresh
<1>3. fetching.mode = "refetch" =>
        /\ fresh \in Seq(Lists!Pages) /\ CursorOf(fresh) = leaf.next
        /\ Known(fresh) /\ Walk(fresh, story) /\ story \in Lists!Past
        /\ leaf.next \in Lists!Rows \cup {Lists!Top}
  <2> SUFFICES ASSUME fetching.mode = "refetch"
               PROVE  /\ fresh \in Seq(Lists!Pages) /\ CursorOf(fresh) = leaf.next
                      /\ Known(fresh) /\ Walk(fresh, story) /\ story \in Lists!Past
                      /\ leaf.next \in Lists!Rows \cup {Lists!Top}
    OBVIOUS
  <2>1. /\ fetching.cursor = CursorOf(fetching.pages)
        /\ CursorOf(fetching.pages) = Lists!Top => fetching.pages = <<>>
    BY <1>2 DEF GoesOn
  <2> QED
    BY <1>2, <2>1, ReadOn
<1>4. fetching.mode = "next" =>
        /\ Append(pages, leaf) \in Seq(Lists!Pages)
        /\ Known(Append(pages, leaf)) /\ Walk(Append(pages, leaf), story)
        /\ story \in Lists!Past
  <2> SUFFICES ASSUME fetching.mode = "next"
               PROVE  /\ Append(pages, leaf) \in Seq(Lists!Pages)
                      /\ Known(Append(pages, leaf)) /\ Walk(Append(pages, leaf), story)
                      /\ story \in Lists!Past
    OBVIOUS
  <2>1. /\ fetching.cursor = CursorOf(pages) /\ fetching.past = origin
        /\ CursorOf(pages) # Lists!Top
    BY <1>2 DEF GoesOn
  <2> QED
    BY <1>2, <2>1, ReadOn
<1> HIDE DEF leaf, fresh, story
<1>5. CASE fetching.mode = "refetch" /\ leaf.next # Lists!Top
           /\ fetching' = [fetching EXCEPT !.pages = fresh, !.cursor = leaf.next, !.past = story]
           /\ UNCHANGED <<pages, origin>>
  <2>1. /\ fetching'.mode = "refetch" /\ fetching'.pages = fresh
        /\ fetching'.cursor = leaf.next /\ fetching'.past = story
        /\ fetching' \in [mode : {"none", "next", "refetch"}, pages : Seq(Lists!Pages),
                          cursor : Lists!Rows \cup {Lists!Top}, past : Lists!Past]
    BY <1>2, <1>3, <1>5
  <2>2. GoesOn'
    BY <1>3, <1>5, <2>1 DEF GoesOn
  <2> QED
    BY <1>1, <1>2, <1>3, <1>5, <2>1, <2>2, PagesMove
<1>6. CASE pages' = (IF fetching.mode = "next" THEN Append(pages, leaf) ELSE fresh)
           /\ origin' = story /\ fetching' = Lists!NoFetch
  <2>1. /\ fetching'.mode = "none" /\ fetching'.pages = <<>>
        /\ fetching' \in [mode : {"none", "next", "refetch"}, pages : Seq(Lists!Pages),
                          cursor : Lists!Rows \cup {Lists!Top}, past : Lists!Past]
    BY <1>2, <1>6 DEF Lists!NoFetch
  <2>2. GoesOn' /\ Known(<<>>)
    BY <1>6, <2>1 DEF GoesOn, Known
  <2>3. /\ pages' \in Seq(Lists!Pages) /\ origin' \in Lists!Past
        /\ Known(pages') /\ Walk(pages', origin')
    BY <1>1, <1>2, <1>3, <1>4, <1>6
  <2> QED
    BY <1>1, <2>1, <2>2, <2>3, PagesMove
<1> QED
  BY <1>1, <1>5, <1>6

LEMMA ListsKeep ==
  ASSUME PageBounds, ListsInv, [Lists!Next]_(Lists!pagesVars)
  PROVE  ListsInv'
<1>1. CASE UNCHANGED Lists!pagesVars
  <2>1. UNCHANGED Lists!table /\ UNCHANGED <<pages, fetching, origin>>
    BY <1>1 DEF Lists!pagesVars
  <2>2. GoesOn'
    BY <2>1 DEF ListsInv, GoesOn
  <2> QED
    BY <2>1, <2>2, PagesMove DEF ListsInv, Dated, Lists!TypeOK
<1> QED
  BY <1>1, CreateKeeps, RowsKeep, FetchKeeps, ArrivesKeeps DEF Lists!Next

LEMMA ListsSound ==
  ASSUME PageBounds, ListsInv
  PROVE  Lists!PagesSound
<1>1. Lists!Screen = RowsOf(pages) /\ (pages # <<>> => (Lists!More <=> CursorOf(pages) # Lists!Top))
  BY DEF Lists!Screen, Lists!More, RowsOf, CursorOf
<1>2. Lists!ListComplete
  BY <1>1 DEF ListsInv, Walk, Reaches, Lists!ListComplete, Lists!Complete
<1>3. Lists!ListedOnce
  <2>1. pages = <<>> => DOMAIN pages = {}
    OBVIOUS
  <2> QED
    BY <2>1 DEF ListsInv, Walk, Parts, Lists!ListedOnce
<1>4. ASSUME kind = "messages", pages # <<>>
      PROVE  /\ Lists!Screen \subseteq DOMAIN time
             /\ \A q, r \in Lists!Screen : Lists!PageOf(q) < Lists!PageOf(r) => time[q] > time[r]
             /\ \A r \in DOMAIN time, q \in Lists!Screen :
                  time[r] < time[q] /\ (\E p \in Lists!Screen : time[p] < time[r])
                    => r \in Lists!Screen
             /\ ~Lists!More =>
                  \A r \in DOMAIN time, q \in Lists!Screen : time[r] < time[q] => r \in Lists!Screen
  <2>1. DOMAIN time = 1 .. added /\ (\A r \in 1 .. added : time[r] = r) /\ added \in Nat
    BY <1>4 DEF ListsInv, Conversation, Lists!TypeOK
  <2>2. RowsOf(pages) \subseteq 1 .. added
    BY DEF ListsInv, Dated, Known, RowsOf
  <2>3. Descends(pages) /\ pages \in Seq(Lists!Pages)
    BY DEF ListsInv, Walk, Lists!TypeOK
  <2>4. \A k, l \in DOMAIN pages :
          k < l => \A q \in pages[k].rows, r \in pages[l].rows : r < q
    BY <1>4, <2>3 DEF Descends
  <2>5. DOMAIN pages \subseteq Nat
    BY <2>3
  <2>6. ASSUME NEW q \in RowsOf(pages)
        PROVE  Lists!PageOf(q) \in DOMAIN pages /\ q \in pages[Lists!PageOf(q)].rows
    <3>1. PICK k \in DOMAIN pages : q \in pages[k].rows
      BY DEF RowsOf
    <3>2. \A l \in DOMAIN pages : q \in pages[l].rows => l <= k
      <4> SUFFICES ASSUME NEW l \in DOMAIN pages, q \in pages[l].rows, k < l PROVE FALSE
        BY <2>5
      <4>1. q < q /\ q \in 1 .. added
        BY <2>2, <2>4, <3>1
      <4> QED
        BY <2>1, <4>1
    <3>3. \E j \in DOMAIN pages :
            q \in pages[j].rows /\ \A l \in DOMAIN pages : q \in pages[l].rows => l <= j
      BY <3>1, <3>2
    <3> QED
      BY <3>3 DEF Lists!PageOf
  <2>7. \A q, r \in RowsOf(pages) : Lists!PageOf(q) < Lists!PageOf(r) => time[q] > time[r]
    BY <2>1, <2>2, <2>4, <2>6
  <2>8. \A p, q \in RowsOf(pages), r \in 1 .. added : p < r /\ r < q => r \in RowsOf(pages)
    BY <1>4, <2>3 DEF Descends
  <2>9. ~Lists!More =>
          \A q \in RowsOf(pages), r \in 1 .. added : r < q => r \in RowsOf(pages)
    BY <1>1, <1>4, <2>3 DEF Descends
  <2>10. \A r \in DOMAIN time, q \in RowsOf(pages) :
           time[r] < time[q] /\ (\E p \in RowsOf(pages) : time[p] < time[r])
             => r \in RowsOf(pages)
    BY <2>1, <2>2, <2>8
  <2>11. ~Lists!More =>
           \A r \in DOMAIN time, q \in RowsOf(pages) : time[r] < time[q] => r \in RowsOf(pages)
    BY <2>1, <2>2, <2>9
  <2> QED
    BY <1>1, <2>1, <2>2, <2>7, <2>10, <2>11
<1>5. Lists!Gapless
  BY <1>4 DEF Lists!Gapless
<1> QED
  BY <1>2, <1>3, <1>5 DEF Lists!PagesSound

\* Pages read one after the other while the rows change, refetched and refetched again, show
\* every chat that stayed where it was, none of them twice, and the messages without a gap:
\* ChatsService.list and .get, and useInfiniteQuery.
THEOREM PagesHold ==
  ASSUME Lists!BoundsAssumption, Lists!PageSizeAssumption
  PROVE  Lists!Spec => []Lists!PagesSound
<1> USE DEF PageBounds
<1>1. Lists!Init => ListsInv
  BY ListsInit
<1>2. ListsInv /\ [Lists!Next]_(Lists!pagesVars) => ListsInv'
  BY ListsKeep
<1>3. ListsInv => Lists!PagesSound
  BY ListsSound
<1> QED
  BY <1>1, <1>2, <1>3, PTL DEF Lists!Spec

-----------------------------------------------------------------------------
(* The scroll position of a conversation                                   *)

CONSTANTS Prompts, View, Threshold, Band, Older, MaxBelow, OpenedChats
VARIABLES above, below, bubble, top, moved, height, pinned, anchor, isAtBottom, loading,
          due, watched, inBand, observed, history

Reader == INSTANCE Scroll WITH Opened <- OpenedChats, seen <- height, past <- history

PastRecords == [left : BOOLEAN, place : Reader!Offsets, at : Reader!Offsets, astray : BOOLEAN]

\* What the last frame has seen is where it was, unless the prompts changed.
LastFrame ==
  /\ top <= Reader!Floor(Reader!Height) /\ (loading => above = 0) /\ history.at >= -above
  /\ below + bubble <= MaxBelow /\ (bubble > 0 => below \in Prompts)
  /\ due \cap {"observer", "report"} = {} =>
       /\ Reader!Height >= height
       /\ ~moved /\ Reader!Height = height => Reader!Place = history.at

\* As long as the reader has not left the end, it is in sight, or the next frame goes there.
AtTheEnd ==
  ~history.left =>
    /\ pinned /\ isAtBottom /\ ~Reader!HasGone
    /\ anchor # Reader!NoAnchor => anchor <= View + Threshold

\* As long as nothing happens behind the request for older messages, the place is kept:
\* before they come, before the frame that sees them, and from then on.
Asking == /\ above = 0 /\ ~moved /\ Reader!Height = height
          /\ anchor = height - top /\ top = history.place
Arrived == /\ above = Older /\ ~moved /\ Reader!Height = height + Older
           /\ anchor = height - top /\ top = history.place /\ top <= height
Shifted == /\ above = Older /\ Reader!Height = height
           /\ top = Reader!Clamp(Older + history.place, Reader!Height)
PlaceKept == history.place # Reader!NoPlace => Asking \/ Arrived \/ Shifted

\* The observer knows the prompts, and those in the band of the last frame.
FrameEnd == history.at + Band
Observing ==
  /\ "observer" \notin due => watched = Reader!Rendered
  /\ due \cap {"observer", "report"} = {} =>
       \A p \in Reader!Rendered :
         p \in inBand <=> history.at <= Reader!PlaceOf(p) /\ Reader!PlaceOf(p) < FrameEnd

\* The prompt that is highlighted is the last that the last frame has had before the end of
\* the band; and those that are still to come are not, but for the turn that is highlighted.
Crossed == {p \in Reader!Rendered : Reader!PlaceOf(p) < FrameEnd}
Ahead == \A p \in Prompts : p >= below => p >= FrameEnd
Followed ==
  Reader!Spaced /\ ~history.astray =>
    /\ observed = Reader!LastOf(Crossed)
    /\ Ahead \/ (bubble > 0 /\ observed = Reader!Pending)

ReaderInv == Reader!TypeOK /\ LastFrame /\ AtTheEnd /\ PlaceKept /\ Observing /\ Followed

LEMMA Sizes ==
  ASSUME Reader!GeometryAssumption
  PROVE  /\ Prompts \subseteq Int /\ 0 \in Prompts /\ \A p \in Prompts : p <= MaxBelow
         /\ View \in Nat /\ View > 0 /\ Band \in Nat /\ Band > 0 /\ Older \in Nat /\ Older > 0
         /\ Band <= View /\ Threshold \in Nat /\ MaxBelow \in Nat /\ View < MaxBelow
BY DEF Reader!GeometryAssumption

LEMMA OpenedAre ==
  ASSUME Reader!GeometryAssumption, NEW c \in OpenedChats
  PROVE  /\ c[1] \in {0, Older} /\ c[2] \in 0 .. MaxBelow /\ c[3] \in 0 .. MaxBelow
         /\ c[2] + c[3] <= MaxBelow /\ (c[3] > 0 => c[2] \in Prompts)
BY DEF Reader!GeometryAssumption

LEMMA ReaderNumbers ==
  ASSUME Reader!GeometryAssumption, Reader!TypeOK
  PROVE  /\ above \in {0, Older} /\ above \in Nat /\ below \in Nat /\ bubble \in Nat
         /\ below <= MaxBelow /\ bubble <= MaxBelow /\ top \in Nat /\ height \in Int
         /\ anchor \in Int /\ history.at \in Int /\ history.place \in Int
         /\ moved \in BOOLEAN /\ pinned \in BOOLEAN /\ isAtBottom \in BOOLEAN
         /\ history.left \in BOOLEAN /\ history.astray \in BOOLEAN
         /\ history \in PastRecords
BY Sizes DEF Reader!TypeOK, Reader!NoAnchor, Reader!Unseen, Reader!Offsets, PastRecords

\* A step that moves the view says so.
LEMMA MovesAreSeen ==
  ASSUME Reader!GeometryAssumption, Reader!TypeOK,
         NEW z \in Nat, Reader!Height' = z, NEW y \in Int, Reader!MovesTo(y)
  PROVE  /\ top' = Reader!Clamp(y, z)
         /\ top' \in Nat /\ top' <= Reader!Floor(z) /\ top' <= z
         /\ moved' \in BOOLEAN /\ (moved => moved') /\ (~moved' => ~moved /\ top' = top)
<1>1. moved \in BOOLEAN
  BY DEF Reader!TypeOK
<1>2. top' = Reader!Clamp(y, z) /\ moved' = (moved \/ top' # top)
  BY DEF Reader!MovesTo
<1>3. top' \in Nat /\ top' <= Reader!Floor(z) /\ top' <= z
  BY <1>2, Sizes DEF Reader!Clamp, Reader!Floor
<1>4. moved' \in BOOLEAN /\ (moved => moved') /\ (~moved' => ~moved /\ top' = top)
  BY <1>1, <1>2
<1> QED
  BY <1>2, <1>3, <1>4

\* What is the last of some prompts.
LEMMA LastIs ==
  ASSUME Reader!GeometryAssumption,
         NEW S \in SUBSET (Prompts \cup {Reader!Pending}), NEW x
  PROVE  x = Reader!LastOf(S) <=> \/ S = {} /\ x = Reader!Nobody
                                  \/ x \in S /\ \A q \in S : q <= x
<1>1. S \subseteq Int /\ \A q \in S : q <= MaxBelow + 1
  BY Sizes DEF Reader!Pending
<1>2. MaxBelow + 1 \in Int
  BY Sizes
<1>3. S # {} => \E y \in S : \A q \in S : q <= y
  BY <1>1, <1>2, GreatestOf
<1>4. \A y, z \in S : y <= z /\ z <= y => y = z
  BY <1>1
<1>5. CASE S = {}
  BY <1>5 DEF Reader!LastOf
<1>6. CASE S # {}
  <2>1. Reader!LastOf(S) \in S /\ \A q \in S : q <= Reader!LastOf(S)
    BY <1>3, <1>6 DEF Reader!LastOf
  <2> QED
    BY <1>4, <1>6, <2>1
<1> QED
  BY <1>5, <1>6

\* Prompts are shown in their order, one to a band.
LEMMA OnThePage ==
  ASSUME Reader!GeometryAssumption, Reader!TypeOK, LastFrame
  PROVE  /\ Reader!Rendered \subseteq Prompts \cup {Reader!Pending}
         /\ Reader!Nobody \notin Prompts \cup {Reader!Pending}
         /\ \A p \in Reader!Rendered :
              /\ p \in Int /\ Reader!PlaceOf(p) \in Int /\ Reader!PlaceOf(p) \in Prompts
              /\ p # Reader!Pending => Reader!PlaceOf(p) = p /\ -above <= p /\ p < below
              /\ p = Reader!Pending => Reader!PlaceOf(p) = below /\ bubble > 0
         /\ Reader!Spaced =>
              \A p, q \in Reader!Rendered : p < q => Reader!PlaceOf(p) + Band <= Reader!PlaceOf(q)
<1> USE Sizes, ReaderNumbers
<1>1. \A p \in Prompts : p # Reader!Pending /\ p # Reader!Nobody /\ p < Reader!Pending
  BY DEF Reader!Pending, Reader!Nobody
<1>2. Reader!Pending # Reader!Nobody /\ Reader!Pending \in Int
  BY DEF Reader!Pending, Reader!Nobody
<1>3. ASSUME NEW p \in Reader!Rendered
      PROVE  \/ /\ p \in Prompts /\ p # Reader!Pending /\ -above <= p /\ p < below
                /\ Reader!PlaceOf(p) = p
             \/ p = Reader!Pending /\ bubble > 0 /\ Reader!PlaceOf(p) = below /\ below \in Prompts
  BY <1>1, <1>3 DEF Reader!Rendered, Reader!PlaceOf, LastFrame
<1>4. ASSUME Reader!Spaced, NEW p \in Reader!Rendered, NEW q \in Reader!Rendered, p < q
      PROVE  Reader!PlaceOf(p) + Band <= Reader!PlaceOf(q)
  <2>1. \A r, s \in Prompts : r < s => r + Band <= s
    BY <1>4 DEF Reader!Spaced
  <2>2. p # Reader!Pending
    BY <1>1, <1>2, <1>3, <1>4
  <2> QED
    BY <1>3, <1>4, <2>1, <2>2
<1> QED
  BY <1>1, <1>2, <1>3, <1>4

\* What the steps that change the content make of it.
LEMMA ContentChanges ==
  ASSUME Reader!GeometryAssumption, Reader!TypeOK, LastFrame
  PROVE  /\ Reader!Height \in Nat /\ Reader!Height = above + below + bubble
         /\ Reader!Height <= Older + MaxBelow
         /\ \A h \in 1 .. Threshold + 1 : Reader!Stream(h) =>
              /\ UNCHANGED <<above, below>> /\ bubble' = bubble + h
              /\ below + bubble + h <= MaxBelow /\ below \in Prompts
              /\ Reader!Height' = Reader!Height + h
         /\ Reader!EndTurn =>
              /\ UNCHANGED <<above, below>> /\ bubble' = 0 /\ bubble > 0
              /\ Reader!Height' = above + below
         /\ \A h \in 1 .. MaxBelow : Reader!RowsArrive(h) =>
              /\ above' = above /\ below' = below + h /\ bubble' = 0 /\ below + h <= MaxBelow
              /\ Reader!Height' = above + below + h
         /\ Reader!OlderArrive =>
              /\ UNCHANGED <<below, bubble>> /\ above = 0 /\ above' = Older
              /\ Reader!Height' = Reader!Height + Older
         /\ \A c \in OpenedChats : Reader!Reset(c) \/ Reader!Remount(c) =>
              /\ above' \in {0, Older} /\ below' \in 0 .. MaxBelow /\ bubble' \in 0 .. MaxBelow
              /\ below' + bubble' <= MaxBelow /\ (bubble' > 0 => below' \in Prompts)
              /\ \E z \in 0 .. Older + MaxBelow : Reader!Height' = z
         /\ UNCHANGED <<above, below, bubble>> => Reader!Height' = Reader!Height
<1> USE Sizes, ReaderNumbers
<1>1. Reader!Height \in Nat /\ Reader!Height = above + below + bubble
      /\ Reader!Height <= Older + MaxBelow
  BY DEF Reader!Height, LastFrame
<1>2. ASSUME NEW h \in 1 .. Threshold + 1, Reader!Stream(h)
      PROVE  /\ UNCHANGED <<above, below>> /\ bubble' = bubble + h
             /\ below + bubble + h <= MaxBelow /\ below \in Prompts
             /\ Reader!Height' = Reader!Height + h
  <2>1. /\ UNCHANGED <<above, below>> /\ bubble' = bubble + h
        /\ below + bubble + h <= MaxBelow /\ below \in Prompts
    BY <1>2 DEF Reader!Stream, Reader!Begins
  <2> QED
    BY <2>1 DEF Reader!Height
<1>3. ASSUME Reader!EndTurn
      PROVE  /\ UNCHANGED <<above, below>> /\ bubble' = 0 /\ bubble > 0
             /\ Reader!Height' = above + below
  <2>1. UNCHANGED <<above, below>> /\ bubble' = 0 /\ bubble > 0
    BY <1>3 DEF Reader!EndTurn
  <2> QED
    BY <2>1 DEF Reader!Height
<1>4. ASSUME NEW h \in 1 .. MaxBelow, Reader!RowsArrive(h)
      PROVE  /\ above' = above /\ below' = below + h /\ bubble' = 0 /\ below + h <= MaxBelow
             /\ Reader!Height' = above + below + h
  <2>1. above' = above /\ below' = below + h /\ bubble' = 0 /\ below + h <= MaxBelow
    BY <1>4 DEF Reader!RowsArrive
  <2> QED
    BY <2>1 DEF Reader!Height
<1>5. ASSUME Reader!OlderArrive
      PROVE  /\ UNCHANGED <<below, bubble>> /\ above = 0 /\ above' = Older
             /\ Reader!Height' = Reader!Height + Older
  <2>1. UNCHANGED <<below, bubble>> /\ above = 0 /\ above' = Older
    BY <1>5 DEF Reader!OlderArrive, LastFrame
  <2> QED
    BY <2>1 DEF Reader!Height
<1>6. ASSUME NEW c \in OpenedChats, Reader!Reset(c) \/ Reader!Remount(c)
      PROVE  /\ above' \in {0, Older} /\ below' \in 0 .. MaxBelow /\ bubble' \in 0 .. MaxBelow
             /\ below' + bubble' <= MaxBelow /\ (bubble' > 0 => below' \in Prompts)
             /\ \E z \in 0 .. Older + MaxBelow : Reader!Height' = z
  <2>1. above' = c[1] /\ below' = c[2] /\ bubble' = c[3]
    BY <1>6 DEF Reader!Reset, Reader!Remount
  <2>2. /\ c[1] \in {0, Older} /\ c[2] \in 0 .. MaxBelow /\ c[3] \in 0 .. MaxBelow
        /\ c[2] + c[3] <= MaxBelow /\ (c[3] > 0 => c[2] \in Prompts)
    BY OpenedAre
  <2>3. c[1] + c[2] + c[3] \in 0 .. Older + MaxBelow
    BY <2>2
  <2>4. Reader!Height' = c[1] + c[2] + c[3]
    BY <2>1 DEF Reader!Height
  <2> QED
    BY <2>1, <2>2, <2>3, <2>4
<1>7. UNCHANGED <<above, below, bubble>> => Reader!Height' = Reader!Height
  BY DEF Reader!Height
<1> QED
  BY <1>1, <1>2, <1>3, <1>4, <1>5, <1>6, <1>7

\* Whatever a step notes of the past is of its type.
LEMMA PastIs ==
  ASSUME Reader!GeometryAssumption, Reader!TypeOK, LastFrame, Reader!Next
  PROVE  history' \in PastRecords
<1> USE Sizes, ReaderNumbers DEF PastRecords
<1>0. Reader!NoPlace \in Reader!Offsets /\ Reader!Place \in Reader!Offsets /\ 0 \in Reader!Offsets
  BY DEF Reader!NoPlace, Reader!Place, Reader!Offsets, Reader!TypeOK
<1>1. ASSUME NEW h \in 1 .. Threshold + 1, Reader!Stream(h) PROVE history' \in PastRecords
  BY <1>0, <1>1 DEF Reader!Stream
<1>2. CASE Reader!EndTurn
  BY <1>0, <1>2 DEF Reader!EndTurn
<1>3. ASSUME NEW h \in 1 .. MaxBelow, Reader!RowsArrive(h) PROVE history' \in PastRecords
  BY <1>0, <1>3 DEF Reader!RowsArrive
<1>4. ASSUME NEW y \in 0 .. Older + MaxBelow, Reader!Read(y) PROVE history' \in PastRecords
  BY <1>0, <1>4 DEF Reader!Read
<1>5. CASE Reader!LoadOlder
  BY <1>0, <1>5 DEF Reader!LoadOlder
<1>6. CASE Reader!OlderArrive
  BY <1>0, <1>6 DEF Reader!OlderArrive
<1>7. CASE Reader!OlderFail
  BY <1>7 DEF Reader!OlderFail
<1>8. CASE Reader!ScrollToBottom
  BY <1>0, <1>8 DEF Reader!ScrollToBottom
<1>9. ASSUME NEW p \in Prompts \cup {Reader!Pending}, Reader!ScrollToPrompt(p)
      PROVE  history' \in PastRecords
  BY <1>0, <1>9 DEF Reader!ScrollToPrompt
<1>10. ASSUME NEW c \in OpenedChats, Reader!Reset(c) \/ Reader!Remount(c)
       PROVE  history' \in PastRecords
  <2>1. \E l \in BOOLEAN :
          history' = [left |-> l, place |-> Reader!NoPlace, at |-> 0, astray |-> TRUE]
    BY <1>10 DEF Reader!Reset, Reader!Remount
  <2> QED
    BY <1>0, <2>1
<1>11. CASE Reader!RunEffects
  <2>1. CASE history' = history
    BY <2>1
  <2>2. CASE history' = [history EXCEPT !.place = Reader!NoPlace,
                                        !.left = Reader!HasGone \/ ~isAtBottom]
    BY <1>0, <2>2
  <2> QED
    BY <1>11, <2>1, <2>2 DEF Reader!RunEffects
<1>12. CASE Reader!Frame
  <2>1. top' = Reader!Settled /\ Reader!Settled - above \in Reader!Offsets
    <3>1. Reader!Settled \in 0 .. Older + MaxBelow
      BY ContentChanges DEF Reader!Settled, Reader!Clamp, Reader!Floor, Reader!TypeOK
    <3> QED
      BY <1>12, <3>1 DEF Reader!Frame, Reader!Offsets
  <2> QED
    BY <1>12, <2>1 DEF Reader!Frame
<1> QED
  BY <1>1, <1>2, <1>3, <1>4, <1>5, <1>6, <1>7, <1>8, <1>9, <1>10, <1>11, <1>12 DEF Reader!Next

LEMMA FrameTypes ==
  ASSUME Reader!GeometryAssumption, Reader!TypeOK, LastFrame, Reader!Frame
  PROVE  Reader!TypeOK'
<1> USE Sizes, ReaderNumbers, ContentChanges
<1>1. Reader!Settled \in 0 .. Older + MaxBelow
  BY DEF Reader!Settled, Reader!Clamp, Reader!Floor, Reader!TypeOK
<1>2. /\ top' = Reader!Settled /\ UNCHANGED <<above, below, bubble, loading, watched>>
      /\ height' = Reader!Height
  BY DEF Reader!Frame, Reader!content
<1>3. history' \in PastRecords
  BY PastIs DEF Reader!Next
<1>4. Reader!Present \subseteq Prompts \cup {Reader!Pending} /\ Reader!Present \subseteq watched
  BY OnThePage DEF Reader!Present
<1>5. inBand' \subseteq watched'
  BY <1>2, <1>4 DEF Reader!Frame
<1>6. observed' \in Prompts \cup {Reader!Pending, Reader!Nobody}
  <2>0. observed' = Reader!Observe(top')
    BY DEF Reader!Frame
  <2>1. /\ Reader!CameIn(top') \subseteq Prompts \cup {Reader!Pending}
        /\ {q \in watched : q < observed} \subseteq Prompts \cup {Reader!Pending}
    BY <1>4 DEF Reader!CameIn, Reader!TypeOK
  <2>2. \A S \in SUBSET (Prompts \cup {Reader!Pending}) :
          Reader!LastOf(S) \in Prompts \cup {Reader!Pending, Reader!Nobody}
    BY LastIs
  <2>3. /\ Reader!LastOf(Reader!CameIn(top')) \in Prompts \cup {Reader!Pending, Reader!Nobody}
        /\ Reader!Before(observed) \in Prompts \cup {Reader!Pending, Reader!Nobody}
    BY <2>1, <2>2 DEF Reader!Before
  <2>4. observed \in Prompts \cup {Reader!Pending, Reader!Nobody}
    BY DEF Reader!TypeOK
  <2> QED
    BY <2>0, <2>3, <2>4, Zenon DEF Reader!Observe
<1>7. Reader!PinnedNow \in BOOLEAN
  <2>1. Reader!NearBottom(top, Reader!Height) \in BOOLEAN
    BY DEF Reader!NearBottom
  <2> QED
    BY <2>1, Zenon DEF Reader!PinnedNow, Reader!TypeOK
<1>8. /\ pinned' \in BOOLEAN /\ isAtBottom' \in BOOLEAN /\ loading' \in BOOLEAN
      /\ moved' \in BOOLEAN
  BY <1>2, <1>7, Zenon DEF Reader!TypeOK, Reader!Frame
<1>9. anchor' \in {Reader!NoAnchor} \cup 0 .. Older + MaxBelow
  BY DEF Reader!TypeOK, Reader!Frame
<1>10. /\ top' \in 0 .. Older + MaxBelow /\ height' \in 0 .. Older + MaxBelow
       /\ above' \in {0, Older} /\ {below', bubble'} \subseteq 0 .. MaxBelow
  BY <1>1, <1>2 DEF Reader!TypeOK
<1>11. due' \subseteq {"refs", "observer", "report"} /\ watched' \subseteq Prompts \cup {Reader!Pending}
  BY <1>2 DEF Reader!TypeOK, Reader!Frame
<1> QED
  BY <1>3, <1>5, <1>6, <1>8, <1>9, <1>10, <1>11, Zenon
     DEF Reader!TypeOK, PastRecords, Reader!Offsets, Reader!Nobody, Reader!Pending,
         Reader!NoAnchor, Reader!Unseen

LEMMA ReaderTypes ==
  ASSUME Reader!GeometryAssumption, Reader!TypeOK, LastFrame, [Reader!Next]_(Reader!scrollVars)
  PROVE  Reader!TypeOK'
<1> USE Sizes, ReaderNumbers DEF Reader!content, Reader!refs, Reader!highlight
<1>0. /\ Reader!Next => history' \in PastRecords
      /\ UNCHANGED <<Reader!Nobody, Reader!Pending, Reader!NoAnchor, Reader!Unseen, Reader!Offsets>>
  BY PastIs DEF Reader!Nobody, Reader!Pending, Reader!NoAnchor, Reader!Unseen, Reader!Offsets
\* The view is where the content lets it be.
<1>1. ASSUME NEW y \in Int, Reader!MovesTo(y), NEW z \in 0 .. Older + MaxBelow, Reader!Height' = z
      PROVE  top' \in 0 .. Older + MaxBelow /\ moved' \in BOOLEAN
  BY <1>1, MovesAreSeen
<1>2. ASSUME NEW change, Reader!Note(change)
      PROVE  due' \subseteq {"refs", "observer", "report"}
  BY <1>2 DEF Reader!Note, Reader!TypeOK
<1> DEFINE Rest == /\ UNCHANGED <<height, pinned, anchor, isAtBottom, watched, inBand, observed>>
                   /\ loading' \in BOOLEAN /\ history' \in PastRecords
                   /\ due' \subseteq {"refs", "observer", "report"}
                   /\ above' \in {0, Older} /\ {below', bubble'} \subseteq 0 .. MaxBelow
                   /\ top' \in 0 .. Older + MaxBelow /\ moved' \in BOOLEAN
<1>4. ASSUME Rest PROVE Reader!TypeOK'
  BY <1>0, <1>4 DEF Reader!TypeOK, PastRecords
<1> HIDE DEF Rest
<1>5. ASSUME NEW h \in 1 .. Threshold + 1, Reader!Stream(h) PROVE Reader!TypeOK'
  <2>1. /\ UNCHANGED <<above, below>> /\ bubble' = bubble + h /\ below + bubble + h <= MaxBelow
        /\ Reader!Height' = Reader!Height + h /\ Reader!Height + h \in 0 .. Older + MaxBelow
    BY <1>5, ContentChanges
  <2>2. Reader!MovesTo(top) /\ Reader!Note(Reader!Rendered' # Reader!Rendered)
        /\ UNCHANGED <<height, pinned, anchor, isAtBottom, loading, watched, inBand, observed>>
    BY <1>5 DEF Reader!Stream
  <2>3. history' \in PastRecords
    BY <1>0, <1>5 DEF Reader!Next
  <2>4. top' \in 0 .. Older + MaxBelow /\ moved' \in BOOLEAN
    BY <1>1, <2>1, <2>2
  <2>5. due' \subseteq {"refs", "observer", "report"}
    BY <1>2, <2>2
  <2>6. /\ above' \in {0, Older} /\ {below', bubble'} \subseteq 0 .. MaxBelow
        /\ loading' \in BOOLEAN
    BY <2>1, <2>2 DEF Reader!TypeOK
  <2> QED
    BY <1>4, <2>2, <2>3, <2>4, <2>5, <2>6 DEF Rest
<1>6. ASSUME Reader!EndTurn PROVE Reader!TypeOK'
  <2>1. /\ UNCHANGED <<above, below>> /\ bubble' = 0
        /\ Reader!Height' = above + below /\ above + below \in 0 .. Older + MaxBelow
    BY <1>6, ContentChanges
  <2>2. Reader!MovesTo(top) /\ Reader!Note(TRUE)
        /\ UNCHANGED <<height, pinned, anchor, isAtBottom, loading, watched, inBand, observed>>
    BY <1>6 DEF Reader!EndTurn
  <2>3. history' \in PastRecords
    BY <1>0, <1>6 DEF Reader!Next
  <2>4. top' \in 0 .. Older + MaxBelow /\ moved' \in BOOLEAN
    BY <1>1, <2>1, <2>2
  <2>5. due' \subseteq {"refs", "observer", "report"}
    BY <1>2, <2>2
  <2>6. /\ above' \in {0, Older} /\ {below', bubble'} \subseteq 0 .. MaxBelow
        /\ loading' \in BOOLEAN
    BY <2>1, <2>2 DEF Reader!TypeOK
  <2> QED
    BY <1>4, <2>2, <2>3, <2>4, <2>5, <2>6 DEF Rest
<1>7. ASSUME NEW h \in 1 .. MaxBelow, Reader!RowsArrive(h) PROVE Reader!TypeOK'
  <2>1. /\ above' = above /\ below' = below + h /\ bubble' = 0 /\ below + h <= MaxBelow
        /\ Reader!Height' = above + below + h /\ above + below + h \in 0 .. Older + MaxBelow
    BY <1>7, ContentChanges
  <2>2. Reader!MovesTo(top) /\ Reader!Note(Reader!Rendered' # Reader!Rendered)
        /\ UNCHANGED <<height, pinned, anchor, isAtBottom, loading, watched, inBand, observed>>
    BY <1>7 DEF Reader!RowsArrive
  <2>3. history' \in PastRecords
    BY <1>0, <1>7 DEF Reader!Next
  <2>4. top' \in 0 .. Older + MaxBelow /\ moved' \in BOOLEAN
    BY <1>1, <2>1, <2>2
  <2>5. due' \subseteq {"refs", "observer", "report"}
    BY <1>2, <2>2
  <2>6. /\ above' \in {0, Older} /\ {below', bubble'} \subseteq 0 .. MaxBelow
        /\ loading' \in BOOLEAN
    BY <2>1, <2>2 DEF Reader!TypeOK
  <2> QED
    BY <1>4, <2>2, <2>3, <2>4, <2>5, <2>6 DEF Rest
<1>8. ASSUME Reader!OlderArrive PROVE Reader!TypeOK'
  <2>1. /\ UNCHANGED <<below, bubble>> /\ above' = Older
        /\ Reader!Height' = Reader!Height + Older
        /\ Reader!Height + Older \in 0 .. Older + MaxBelow
    BY <1>8, ContentChanges DEF LastFrame
  <2>2. Reader!MovesTo(top) /\ Reader!Note(Reader!Rendered' # Reader!Rendered) /\ loading' = FALSE
        /\ UNCHANGED <<height, pinned, anchor, isAtBottom, watched, inBand, observed>>
    BY <1>8 DEF Reader!OlderArrive
  <2>3. history' \in PastRecords
    BY <1>0, <1>8 DEF Reader!Next
  <2>4. top' \in 0 .. Older + MaxBelow /\ moved' \in BOOLEAN
    BY <1>1, <2>1, <2>2
  <2>5. due' \subseteq {"refs", "observer", "report"}
    BY <1>2, <2>2
  <2>6. /\ above' \in {0, Older} /\ {below', bubble'} \subseteq 0 .. MaxBelow
        /\ loading' \in BOOLEAN
    BY <2>1, <2>2 DEF Reader!TypeOK
  <2> QED
    BY <1>4, <2>2, <2>3, <2>4, <2>5, <2>6 DEF Rest
<1>9. ASSUME NEW y \in 0 .. Older + MaxBelow, Reader!Read(y) PROVE Reader!TypeOK'
  <2>1. /\ UNCHANGED <<above, below, bubble>> /\ y \in Int
        /\ Reader!Height' = Reader!Height /\ Reader!Height \in 0 .. Older + MaxBelow
    BY <1>9, ContentChanges DEF Reader!Read
  <2>2. /\ Reader!MovesTo(y)
        /\ UNCHANGED <<height, pinned, anchor, isAtBottom, loading, due, watched, inBand, observed>>
    BY <1>9 DEF Reader!Read
  <2>3. history' \in PastRecords
    BY <1>0, <1>9 DEF Reader!Next
  <2> QED
    BY <1>1, <1>4, <2>1, <2>2, <2>3 DEF Rest, Reader!TypeOK
<1>10. ASSUME Reader!LoadOlder PROVE Reader!TypeOK'
  <2>1. Reader!Kept \in 0 .. Older + MaxBelow
    BY ContentChanges DEF Reader!Kept, LastFrame, Reader!Floor
  <2>2. /\ anchor' = Reader!Kept /\ loading' = TRUE
        /\ UNCHANGED <<above, below, bubble, top, moved, height, pinned, isAtBottom, due, watched,
                       inBand, observed>>
    BY <1>10 DEF Reader!LoadOlder
  <2>3. history' \in PastRecords
    BY <1>0, <1>10 DEF Reader!Next
  <2> QED
    BY <1>0, <2>1, <2>2, <2>3 DEF Reader!TypeOK, PastRecords
<1>11. ASSUME Reader!OlderFail PROVE Reader!TypeOK'
  <2>1. history' \in PastRecords
    BY <1>0, <1>11 DEF Reader!Next
  <2> QED
    BY <1>4, <1>11, <2>1 DEF Rest, Reader!TypeOK, Reader!OlderFail
<1>12. ASSUME Reader!ScrollToBottom PROVE Reader!TypeOK'
  <2>1. /\ UNCHANGED <<above, below, bubble>> /\ Reader!Height \in Int
        /\ Reader!Height' = Reader!Height /\ Reader!Height \in 0 .. Older + MaxBelow
    BY <1>12, ContentChanges DEF Reader!ScrollToBottom
  <2>2. /\ Reader!MovesTo(Reader!Height) /\ pinned' = TRUE /\ isAtBottom' = TRUE
        /\ UNCHANGED <<height, anchor, loading, due, watched, inBand, observed>>
    BY <1>12 DEF Reader!ScrollToBottom
  <2>3. history' \in PastRecords
    BY <1>0, <1>12 DEF Reader!Next
  <2>4. top' \in 0 .. Older + MaxBelow /\ moved' \in BOOLEAN
    BY <1>1, <2>1, <2>2
  <2> QED
    BY <1>0, <2>1, <2>2, <2>3, <2>4 DEF Reader!TypeOK, PastRecords
<1>13. ASSUME NEW p \in Prompts \cup {Reader!Pending}, Reader!ScrollToPrompt(p) PROVE Reader!TypeOK'
  <2>1. /\ UNCHANGED <<above, below, bubble>> /\ Reader!PlaceOf(p) + above \in Int
        /\ Reader!Height' = Reader!Height /\ Reader!Height \in 0 .. Older + MaxBelow
    <3>1. p \in Reader!Rendered
      BY <1>13 DEF Reader!ScrollToPrompt
    <3>2. Reader!PlaceOf(p) \in Int
      BY <3>1, OnThePage
    <3> QED
      BY <1>13, <3>2, ContentChanges DEF Reader!ScrollToPrompt
  <2>2. /\ Reader!MovesTo(Reader!PlaceOf(p) + above) /\ pinned' = FALSE
        /\ UNCHANGED <<height, anchor, isAtBottom, loading, due, watched, inBand, observed>>
    BY <1>13 DEF Reader!ScrollToPrompt
  <2>3. history' \in PastRecords
    BY <1>0, <1>13 DEF Reader!Next
  <2>4. top' \in 0 .. Older + MaxBelow /\ moved' \in BOOLEAN
    BY <1>1, <2>1, <2>2
  <2> QED
    BY <1>0, <2>1, <2>2, <2>3, <2>4 DEF Reader!TypeOK, PastRecords
<1>14. ASSUME NEW c \in OpenedChats, Reader!Reset(c) PROVE Reader!TypeOK'
  <2>1. /\ above' \in {0, Older} /\ {below', bubble'} \subseteq 0 .. MaxBelow
        /\ \E z \in 0 .. Older + MaxBelow : Reader!Height' = z
    BY <1>14, ContentChanges
  <2>2. /\ Reader!MovesTo(top) /\ isAtBottom' = TRUE /\ observed' = Reader!Nobody
        /\ loading' \in BOOLEAN /\ due' = due \cup {"refs", "observer"}
        /\ UNCHANGED <<height, pinned, anchor, watched, inBand>>
    BY <1>14 DEF Reader!Reset
  <2>3. history' \in PastRecords
    BY <1>0, <1>14 DEF Reader!Next
  <2>4. top' \in 0 .. Older + MaxBelow /\ moved' \in BOOLEAN
    BY <1>1, <2>1, <2>2
  <2>5. due' \subseteq {"refs", "observer", "report"}
    BY <2>2 DEF Reader!TypeOK
  <2> QED
    BY <1>0, <2>1, <2>2, <2>3, <2>4, <2>5 DEF Reader!TypeOK, PastRecords
<1>15. ASSUME NEW c \in OpenedChats, Reader!Remount(c) PROVE Reader!TypeOK'
  <2>1. /\ above' \in {0, Older} /\ {below', bubble'} \subseteq 0 .. MaxBelow
    BY <1>15, ContentChanges
  <2>2. /\ top' = 0 /\ moved' = FALSE /\ height' = Reader!Unseen
        /\ pinned' = TRUE /\ anchor' = Reader!NoAnchor /\ isAtBottom' = TRUE /\ loading' = FALSE
        /\ due' = {"report"} /\ watched' = Reader!Rendered' /\ inBand' = {}
        /\ observed' = Reader!Nobody
    BY <1>15 DEF Reader!Remount
  <2>3. history' \in PastRecords
    BY <1>0, <1>15 DEF Reader!Next
  <2>4. watched' \subseteq Prompts \cup {Reader!Pending}
    BY <2>2 DEF Reader!Rendered
  <2>5. /\ moved' \in BOOLEAN /\ pinned' \in BOOLEAN /\ isAtBottom' \in BOOLEAN
        /\ loading' \in BOOLEAN
    BY <2>2, Zenon
  <2>7. top' \in 0 .. Older + MaxBelow
    BY <2>2
  <2>8. due' \subseteq {"refs", "observer", "report"} /\ inBand' \subseteq watched'
    BY <2>2
  <2>6. /\ height' \in {Reader!Unseen} \cup 0 .. Older + MaxBelow
        /\ anchor' \in {Reader!NoAnchor} \cup 0 .. Older + MaxBelow
        /\ observed' \in Prompts \cup {Reader!Pending, Reader!Nobody}
    BY <2>2
  <2> QED
    BY <1>0, <2>1, <2>3, <2>4, <2>5, <2>6, <2>7, <2>8 DEF Reader!TypeOK, PastRecords
<1>16. ASSUME Reader!RunEffects PROVE Reader!TypeOK'
  <2>1. UNCHANGED <<above, below, bubble, top, moved, height, isAtBottom, loading, observed>>
    BY <1>16 DEF Reader!RunEffects
  <2>2. pinned' \in BOOLEAN /\ anchor' \in {Reader!NoAnchor} \cup 0 .. Older + MaxBelow
    BY <1>16, Zenon DEF Reader!RunEffects, Reader!TypeOK
  <2>3. /\ due' \subseteq {"refs", "observer", "report"}
        /\ watched' \subseteq Prompts \cup {Reader!Pending} /\ inBand' \subseteq watched'
    BY <1>16, OnThePage DEF Reader!RunEffects, Reader!TypeOK
  <2>4. history' \in PastRecords
    BY <1>0, <1>16 DEF Reader!Next
  <2> QED
    BY <1>0, <2>1, <2>2, <2>3, <2>4 DEF Reader!TypeOK, PastRecords
<1>17. CASE UNCHANGED Reader!scrollVars
  BY <1>17 DEF Reader!scrollVars, Reader!TypeOK
<1> QED
  BY <1>5, <1>6, <1>7, <1>8, <1>9, <1>10, <1>11, <1>12, <1>13, <1>14, <1>15, <1>16, <1>17,
     FrameTypes DEF Reader!Next

LEMMA ReaderInit ==
  ASSUME Reader!GeometryAssumption, Reader!Init
  PROVE  ReaderInv
<1> USE Sizes
<1>1. PICK c \in OpenedChats : c[1] = 0 /\ above = 0 /\ below = c[2] /\ bubble = c[3]
  BY DEF Reader!Init
<1>2. /\ below \in 0 .. MaxBelow /\ bubble \in 0 .. MaxBelow /\ below + bubble <= MaxBelow
      /\ bubble > 0 => below \in Prompts
  BY <1>1, OpenedAre
<1>3. /\ top = 0 /\ moved = FALSE /\ height = Reader!Unseen
      /\ pinned = TRUE /\ anchor = Reader!NoAnchor /\ isAtBottom = TRUE /\ loading = FALSE
      /\ due = {"report"} /\ watched = Reader!Rendered /\ inBand = {} /\ observed = Reader!Nobody
      /\ history = [left |-> FALSE, place |-> Reader!NoPlace, at |-> 0, astray |-> TRUE]
  BY DEF Reader!Init
<1>4. history \in PastRecords
  <2>1. 0 \in Reader!Offsets /\ Reader!NoPlace \in Reader!Offsets
    BY DEF Reader!Offsets, Reader!NoPlace
  <2> QED
    BY <1>3, <2>1 DEF PastRecords
<1>5. watched \subseteq Prompts \cup {Reader!Pending}
  BY <1>3 DEF Reader!Rendered
<1>6. Reader!TypeOK
  <2>1. top \in 0 .. Older + MaxBelow /\ above \in {0, Older}
    BY <1>1, <1>3
  <2> QED
    BY <1>2, <1>3, <1>4, <1>5, <2>1 DEF Reader!TypeOK, PastRecords
<1>7. Reader!Height \in Nat /\ Reader!Height # height
  BY <1>1, <1>2, <1>3 DEF Reader!Height, Reader!Unseen
<1>8. LastFrame
  BY <1>1, <1>2, <1>3, <1>7 DEF LastFrame, Reader!Floor
<1>9. AtTheEnd /\ PlaceKept
  BY <1>3, <1>7 DEF AtTheEnd, PlaceKept, Reader!HasGone
<1>10. Observing /\ Followed
  BY <1>3 DEF Observing, Followed
<1> QED
  BY <1>6, <1>8, <1>9, <1>10 DEF ReaderInv

\* Wherever a frame sets the view, the content lets it be.
LEMMA FrameSettles ==
  ASSUME Reader!GeometryAssumption, Reader!TypeOK, LastFrame
  PROVE  /\ Reader!Settled \in Nat /\ Reader!Settled <= Reader!Floor(Reader!Height)
         /\ Reader!Height = height => Reader!Settled = top
BY Sizes, ReaderNumbers, ContentChanges
   DEF Reader!Settled, Reader!Clamp, Reader!Floor, LastFrame

\* What the prompts that are shown change with.
LEMMA SamePrompts ==
  ASSUME UNCHANGED <<above, below, bubble>>
  PROVE  /\ Reader!Rendered' = Reader!Rendered /\ Reader!Pending' = Reader!Pending
         /\ \A p : Reader!PlaceOf(p)' = Reader!PlaceOf(p)
BY DEF Reader!Rendered, Reader!Pending, Reader!PlaceOf

\* A change of the prompts that are shown is noted; and but for that, content only grows.
LEMMA ChangesAreDue ==
  ASSUME Reader!GeometryAssumption, Reader!TypeOK, LastFrame, Observing,
         UNCHANGED <<height, watched, inBand>>, history'.at = history.at,
         \/ \E h \in 1 .. Threshold + 1 : Reader!Stream(h)
         \/ Reader!EndTurn
         \/ \E h \in 1 .. MaxBelow : Reader!RowsArrive(h)
         \/ Reader!OlderArrive
  PROVE  /\ due \subseteq due'
         /\ "observer" \notin due' =>
              /\ Reader!Rendered' = Reader!Rendered
              /\ \A p \in Reader!Rendered : Reader!PlaceOf(p)' = Reader!PlaceOf(p)
              /\ \E z \in Nat : Reader!Height' = z /\ z > Reader!Height
         /\ Observing'
<1> USE Sizes, ReaderNumbers
<1>1. /\ due \subseteq due'
      /\ "observer" \notin due' => Reader!Rendered' = Reader!Rendered /\ ~Reader!EndTurn
  BY DEF Reader!Stream, Reader!EndTurn, Reader!RowsArrive, Reader!OlderArrive, Reader!Note
<1>2. ASSUME "observer" \notin due'
      PROVE  /\ \A p \in Reader!Rendered : Reader!PlaceOf(p)' = Reader!PlaceOf(p)
             /\ \E z \in Nat : Reader!Height' = z /\ z > Reader!Height
  <2>0. /\ Reader!Rendered' = Reader!Rendered /\ Reader!Pending' = Reader!Pending
        /\ \A p \in Prompts : p # Reader!Pending
    BY <1>1, <1>2 DEF Reader!Pending
  <2>1. CASE \E h \in 1 .. Threshold + 1 : Reader!Stream(h)
    <3>1. PICK h \in 1 .. Threshold + 1 : Reader!Stream(h)
      BY <2>1
    <3>2. below' = below /\ Reader!Height' = Reader!Height + h /\ Reader!Height \in Nat
      BY <3>1, ContentChanges
    <3> QED
      BY <3>2, <2>0 DEF Reader!PlaceOf
  <2>2. CASE \E h \in 1 .. MaxBelow : Reader!RowsArrive(h)
    <3>1. PICK h \in 1 .. MaxBelow : Reader!RowsArrive(h)
      BY <2>2
    <3>2. /\ bubble' = 0 /\ Reader!Height' = above + below + h
          /\ Reader!Height = above + below + bubble
      BY <3>1, ContentChanges
    <3>3. Reader!Pending \notin Reader!Rendered
      <4>1. Reader!Pending' \notin Reader!Rendered'
        BY <2>0, <3>2 DEF Reader!Rendered
      <4> QED
        BY <2>0, <4>1
    <3>4. bubble = 0
      BY <3>3 DEF Reader!Rendered
    <3> QED
      BY <2>0, <3>2, <3>3, <3>4 DEF Reader!PlaceOf
  <2>3. CASE Reader!OlderArrive
    <3>1. below' = below /\ Reader!Height' = Reader!Height + Older /\ Reader!Height \in Nat
      BY <2>3, ContentChanges
    <3> QED
      BY <3>1, <2>0 DEF Reader!PlaceOf
  <2> QED
    BY <1>1, <1>2, <2>1, <2>2, <2>3
<1>3. Observing'
  <2>1. ASSUME "observer" \notin due' PROVE watched' = Reader!Rendered'
    BY <1>1, <2>1 DEF Observing
  <2>2. ASSUME due' \cap {"observer", "report"} = {}, NEW p \in Reader!Rendered'
        PROVE  p \in inBand' <=> history'.at <= Reader!PlaceOf(p)' /\ Reader!PlaceOf(p)' < FrameEnd'
    <3>1. due \cap {"observer", "report"} = {} /\ p \in Reader!Rendered
      BY <1>1, <2>2
    <3>2. FrameEnd' = FrameEnd
      BY DEF FrameEnd
    <3> QED
      BY <1>2, <2>2, <3>1, <3>2 DEF Observing
  <2> QED
    BY <2>1, <2>2 DEF Observing, Reader!PlaceOf
<1> QED
  BY <1>1, <1>2, <1>3

\* The steps that change the content leave the place of the last frame to the next.
LEMMA ContentSteps ==
  ASSUME Reader!GeometryAssumption, Reader!TypeOK, LastFrame,
         \/ \E h \in 1 .. Threshold + 1 : Reader!Stream(h)
         \/ Reader!EndTurn
         \/ \E h \in 1 .. MaxBelow : Reader!RowsArrive(h)
         \/ Reader!OlderArrive
  PROVE  /\ UNCHANGED <<height, pinned, anchor, isAtBottom, watched, inBand, observed>>
         /\ history'.at = history.at /\ (Reader!MovesTo(top))
         /\ ~history'.left => ~history.left /\ ~Reader!HasGone' /\ (Reader!OlderArrive => ~moved)
         /\ \/ Reader!OlderArrive /\ loading /\ ~loading' /\ history'.place = history.place
            \/ UNCHANGED <<loading, above>> /\ history'.place = Reader!NoPlace
         /\ below' + bubble' <= MaxBelow /\ (bubble' > 0 => below' \in Prompts)
         /\ above' \in Nat /\ above <= above'
         /\ \E z \in 0 .. Older + MaxBelow : Reader!Height' = z
<1> USE Sizes, ReaderNumbers, ContentChanges DEF Reader!refs, Reader!highlight
<1>0. Reader!HasGone' \in BOOLEAN
  BY DEF Reader!HasGone
<1>1. CASE \E h \in 1 .. Threshold + 1 : Reader!Stream(h)
  <2>1. PICK h \in 1 .. Threshold + 1 : Reader!Stream(h)
    BY <1>1
  <2>2. /\ UNCHANGED <<height, pinned, anchor, isAtBottom, watched, inBand, observed, loading>>
        /\ Reader!MovesTo(top)
        /\ history' = [history EXCEPT !.place = Reader!NoPlace, !.left = @ \/ Reader!HasGone']
    BY <2>1 DEF Reader!Stream
  <2>3. /\ history'.at = history.at /\ history'.place = Reader!NoPlace
        /\ history'.left = (history.left \/ Reader!HasGone')
    BY <2>2 DEF PastRecords
  <2>4. /\ UNCHANGED <<above, below>> /\ bubble' = bubble + h /\ below + bubble + h <= MaxBelow
        /\ below \in Prompts /\ Reader!Height' = Reader!Height + h
        /\ Reader!Height + h \in 0 .. Older + MaxBelow
    BY <2>1
  <2>5. ~Reader!OlderArrive
    BY <2>4 DEF Reader!OlderArrive
  <2> QED
    BY <1>0, <2>2, <2>3, <2>4, <2>5
<1>2. CASE Reader!EndTurn
  <2>2. /\ UNCHANGED <<height, pinned, anchor, isAtBottom, watched, inBand, observed, loading>>
        /\ Reader!MovesTo(top)
        /\ history' = [history EXCEPT !.place = Reader!NoPlace, !.left = @ \/ Reader!HasGone',
                                      !.astray = @ \/ observed = Reader!Pending]
    BY <1>2 DEF Reader!EndTurn
  <2>3. /\ history'.at = history.at /\ history'.place = Reader!NoPlace
        /\ history'.left = (history.left \/ Reader!HasGone')
    BY <2>2 DEF PastRecords
  <2>4. /\ UNCHANGED <<above, below>> /\ bubble' = 0 /\ below <= MaxBelow
        /\ Reader!Height' = above + below /\ above + below \in 0 .. Older + MaxBelow
    BY <1>2
  <2>5. ~Reader!OlderArrive
    BY <1>2 DEF Reader!OlderArrive, Reader!EndTurn
  <2> QED
    BY <1>0, <2>2, <2>3, <2>4, <2>5
<1>3. CASE \E h \in 1 .. MaxBelow : Reader!RowsArrive(h)
  <2>1. PICK h \in 1 .. MaxBelow : Reader!RowsArrive(h)
    BY <1>3
  <2>2. /\ UNCHANGED <<height, pinned, anchor, isAtBottom, watched, inBand, observed, loading>>
        /\ Reader!MovesTo(top)
        /\ history' = [history EXCEPT !.place = Reader!NoPlace, !.left = @ \/ Reader!HasGone',
                                      !.astray = @ \/ observed = Reader!Pending]
    BY <2>1 DEF Reader!RowsArrive
  <2>3. /\ history'.at = history.at /\ history'.place = Reader!NoPlace
        /\ history'.left = (history.left \/ Reader!HasGone')
    BY <2>2 DEF PastRecords
  <2>4. /\ above' = above /\ below' = below + h /\ bubble' = 0 /\ below + h <= MaxBelow
        /\ Reader!Height' = above + below + h /\ above + below + h \in 0 .. Older + MaxBelow
    BY <2>1
  <2>5. ~Reader!OlderArrive
    BY <2>4 DEF Reader!OlderArrive
  <2> QED
    BY <1>0, <2>2, <2>3, <2>4, <2>5
<1>4. CASE Reader!OlderArrive
  <2>2. /\ UNCHANGED <<height, pinned, anchor, isAtBottom, watched, inBand, observed>>
        /\ Reader!MovesTo(top) /\ loading /\ loading' = FALSE
        /\ history' = [history EXCEPT !.left = @ \/ moved \/ Reader!HasGone']
    BY <1>4 DEF Reader!OlderArrive
  <2>3. /\ history'.at = history.at /\ history'.place = history.place
        /\ history'.left = (history.left \/ moved \/ Reader!HasGone')
    BY <2>2 DEF PastRecords
  <2>4. /\ UNCHANGED <<below, bubble>> /\ above = 0 /\ above' = Older
        /\ Reader!Height' = Reader!Height + Older /\ Reader!Height + Older \in 0 .. Older + MaxBelow
        /\ below + bubble <= MaxBelow /\ (bubble > 0 => below \in Prompts)
    BY <1>4 DEF LastFrame
  <2>5. above' \in Nat /\ above <= above'
    BY <2>4
  <2> QED
    BY <1>0, <1>4, <2>2, <2>3, <2>4, <2>5
<1> QED
  BY <1>1, <1>2, <1>3, <1>4

LEMMA LastFrameStays ==
  ASSUME Reader!GeometryAssumption, Reader!TypeOK, LastFrame, Observing,
         [Reader!Next]_(Reader!scrollVars)
  PROVE  LastFrame'
<1> USE Sizes, ReaderNumbers DEF Reader!content, Reader!refs, Reader!highlight
<1>0. /\ Reader!Height \in Nat /\ Reader!Height <= Older + MaxBelow
      /\ UNCHANGED <<above, below, bubble>> => Reader!Height' = Reader!Height
  BY ContentChanges
<1>1. CASE \/ \E h \in 1 .. Threshold + 1 : Reader!Stream(h)
           \/ Reader!EndTurn
           \/ \E h \in 1 .. MaxBelow : Reader!RowsArrive(h)
           \/ Reader!OlderArrive
  <2>1. /\ UNCHANGED <<height, watched, inBand>> /\ history'.at = history.at /\ Reader!MovesTo(top)
        /\ \/ ~loading'
           \/ UNCHANGED <<loading, above>>
        /\ below' + bubble' <= MaxBelow /\ (bubble' > 0 => below' \in Prompts)
        /\ above' \in Nat /\ above <= above'
    BY <1>1, ContentSteps
  <2>2. PICK z \in 0 .. Older + MaxBelow : Reader!Height' = z
    BY <1>1, ContentSteps
  <2>3. top' <= Reader!Floor(z)
    BY <2>1, <2>2, MovesAreSeen
  <2>4. ASSUME due' \cap {"observer", "report"} = {}
        PROVE  z > Reader!Height /\ Reader!Height >= height
    <3>1. /\ due \subseteq due'
          /\ "observer" \notin due' => \E w \in Nat : Reader!Height' = w /\ w > Reader!Height
      BY <1>1, <2>1, ChangesAreDue
    <3> QED
      BY <2>2, <2>4, <3>1 DEF LastFrame
  <2>5. history'.at >= -above' /\ (loading' => above' = 0)
    BY <2>1 DEF LastFrame
  <2>6. top' <= Reader!Floor(Reader!Height)'
    BY <2>2, <2>3 DEF Reader!Floor
  <2>7. due' \cap {"observer", "report"} = {} =>
          Reader!Height' >= height' /\ Reader!Height' # height'
    BY <1>0, <2>1, <2>2, <2>4
  <2> QED
    BY <2>1, <2>5, <2>6, <2>7 DEF LastFrame
\* The steps that scroll, or nothing at all: the content is what it was.
<1> DEFINE Still == /\ UNCHANGED <<above, below, bubble, height, due>> /\ history'.at = history.at
                    /\ loading' => above = 0
                    /\ top' <= Reader!Floor(Reader!Height)
                    /\ ~moved' => ~moved /\ top' = top
<1>2. ASSUME Still PROVE LastFrame'
  <2>1. Reader!Height' = Reader!Height /\ Reader!Floor(Reader!Height)' = Reader!Floor(Reader!Height)
        /\ (~moved' => Reader!Place' = Reader!Place)
    BY <1>0, <1>2 DEF Reader!Floor, Reader!Place
  <2> QED
    BY <1>2, <2>1 DEF LastFrame
<1>3. ASSUME NEW y \in Int, Reader!MovesTo(y), UNCHANGED <<above, below, bubble>>
      PROVE  top' <= Reader!Floor(Reader!Height) /\ (~moved' => ~moved /\ top' = top)
  BY <1>0, <1>3, MovesAreSeen
<1> HIDE DEF Still
<1>4. ASSUME NEW y \in 0 .. Older + MaxBelow, Reader!Read(y) PROVE LastFrame'
  <2>1. /\ Reader!MovesTo(y) /\ UNCHANGED <<above, below, bubble, height, due, loading>>
        /\ history' = [history EXCEPT !.place = Reader!NoPlace, !.left = TRUE]
    BY <1>4 DEF Reader!Read
  <2>2. history'.at = history.at
    BY <2>1 DEF PastRecords
  <2>3. top' <= Reader!Floor(Reader!Height) /\ (~moved' => ~moved /\ top' = top)
    BY <1>3, <2>1
  <2>4. loading' => above = 0
    BY <2>1 DEF LastFrame
  <2> QED
    BY <1>2, <2>1, <2>2, <2>3, <2>4 DEF Still
<1>5. CASE Reader!LoadOlder
  <2>1. history'.at = history.at
    BY <1>5 DEF Reader!LoadOlder, PastRecords
  <2>2. Still
    BY <1>5, <2>1 DEF Reader!LoadOlder, LastFrame, Still
  <2> QED
    BY <1>2, <2>2
<1>6. CASE Reader!OlderFail
  <2>2. Still
    BY <1>6 DEF Reader!OlderFail, LastFrame, Still
  <2> QED
    BY <1>2, <2>2
<1>7. CASE Reader!ScrollToBottom
  <2>1. /\ Reader!MovesTo(Reader!Height) /\ UNCHANGED <<above, below, bubble, height, due, loading>>
        /\ history' = [history EXCEPT !.left = anchor # Reader!NoAnchor, !.place = Reader!NoPlace]
    BY <1>7 DEF Reader!ScrollToBottom
  <2>2. history'.at = history.at
    BY <2>1 DEF PastRecords
  <2>3. top' <= Reader!Floor(Reader!Height) /\ (~moved' => ~moved /\ top' = top)
    BY <1>0, <1>3, <2>1
  <2>4. loading' => above = 0
    BY <2>1 DEF LastFrame
  <2> QED
    BY <1>2, <2>1, <2>2, <2>3, <2>4 DEF Still
<1>8. ASSUME NEW p \in Prompts \cup {Reader!Pending}, Reader!ScrollToPrompt(p) PROVE LastFrame'
  <2>1. /\ Reader!MovesTo(Reader!PlaceOf(p) + above) /\ p \in Reader!Rendered
        /\ UNCHANGED <<above, below, bubble, height, due, loading>>
        /\ history' = [history EXCEPT !.left = TRUE, !.place = Reader!NoPlace]
    BY <1>8 DEF Reader!ScrollToPrompt
  <2>2. history'.at = history.at
    BY <2>1 DEF PastRecords
  <2>3. Reader!PlaceOf(p) + above \in Int
    BY <2>1, OnThePage
  <2>4. top' <= Reader!Floor(Reader!Height) /\ (~moved' => ~moved /\ top' = top)
    BY <1>3, <2>1, <2>3
  <2>5. loading' => above = 0
    BY <2>1 DEF LastFrame
  <2> QED
    BY <1>2, <2>1, <2>2, <2>4, <2>5 DEF Still
<1>9. ASSUME NEW c \in OpenedChats, Reader!Reset(c) PROVE LastFrame'
  <2>1. /\ above' \in {0, Older} /\ below' + bubble' <= MaxBelow /\ (bubble' > 0 => below' \in Prompts)
    BY <1>9, ContentChanges
  <2>2. PICK z \in 0 .. Older + MaxBelow : Reader!Height' = z
    BY <1>9, ContentChanges
  <2>3. /\ Reader!MovesTo(top) /\ "observer" \in due' /\ (loading' => above' = 0)
        /\ history'.at = 0
    BY <1>9 DEF Reader!Reset
  <2>4. top' <= Reader!Floor(z)
    BY <2>2, <2>3, MovesAreSeen
  <2>5. top' <= Reader!Floor(Reader!Height)'
    BY <2>2, <2>4 DEF Reader!Floor
  <2>6. history'.at >= -above'
    <3>1. PICK a \in {0, Older} : above' = a
      BY <2>1
    <3> QED
      BY <2>3, <3>1
  <2> QED
    BY <2>1, <2>3, <2>5, <2>6 DEF LastFrame
<1>10. ASSUME NEW c \in OpenedChats, Reader!Remount(c) PROVE LastFrame'
  <2>1. /\ below' + bubble' <= MaxBelow /\ (bubble' > 0 => below' \in Prompts)
    BY <1>10, ContentChanges
  <2>2. PICK z \in 0 .. Older + MaxBelow : Reader!Height' = z
    BY <1>10, ContentChanges
  <2>3. /\ top' = 0 /\ above' = 0 /\ "report" \in due' /\ ~loading' /\ history'.at = 0
    BY <1>10 DEF Reader!Remount
  <2>5. top' <= Reader!Floor(Reader!Height)'
    BY <2>2, <2>3 DEF Reader!Floor
  <2> QED
    BY <2>1, <2>3, <2>5 DEF LastFrame
<1>11. CASE Reader!RunEffects
  <2>1. /\ UNCHANGED <<above, below, bubble, top, moved, height, loading>>
        /\ due' \cap {"observer", "report"} = {} => due \cap {"observer", "report"} = {}
    BY <1>11 DEF Reader!RunEffects
  <2>2. history'.at = history.at
    BY <1>11 DEF Reader!RunEffects, PastRecords
  <2>3. Reader!Height' = Reader!Height /\ Reader!Floor(Reader!Height)' = Reader!Floor(Reader!Height)
        /\ Reader!Place' = Reader!Place
    BY <1>0, <2>1 DEF Reader!Floor, Reader!Place
  <2> QED
    BY <2>1, <2>2, <2>3 DEF LastFrame
<1>12. CASE Reader!Frame
  <2>1. /\ UNCHANGED <<above, below, bubble, loading>> /\ top' = Reader!Settled
        /\ height' = Reader!Height
        /\ history' = [history EXCEPT !.at = top' - above,
             !.astray = (@ \/ Reader!Skips(top' - above)) /\ Reader!CameIn(top') = {}]
    BY <1>12 DEF Reader!Frame
  <2>2. history'.at = top' - above
    BY <2>1 DEF PastRecords
  <2>3. top' \in Nat /\ top' <= Reader!Floor(Reader!Height)
    BY <2>1, FrameSettles
  <2>4. Reader!Height' = Reader!Height /\ Reader!Floor(Reader!Height)' = Reader!Floor(Reader!Height)
        /\ Reader!Place' = top' - above
    BY <1>0, <2>1 DEF Reader!Floor, Reader!Place
  <2> QED
    BY <2>1, <2>2, <2>3, <2>4, <1>0 DEF LastFrame
<1>13. CASE UNCHANGED Reader!scrollVars
  <2>1. /\ UNCHANGED <<above, below, bubble, height, due, top, moved, history, loading>>
    BY <1>13 DEF Reader!scrollVars
  <2>2. Still
    BY <2>1 DEF LastFrame, Still
  <2> QED
    BY <1>2, <2>2
<1> QED
  BY <1>1, <1>4, <1>5, <1>6, <1>7, <1>8, <1>9, <1>10, <1>11, <1>12, <1>13 DEF Reader!Next

LEMMA EndStays ==
  ASSUME Reader!GeometryAssumption, Reader!TypeOK, LastFrame, AtTheEnd,
         [Reader!Next]_(Reader!scrollVars)
  PROVE  AtTheEnd'
<1> USE Sizes, ReaderNumbers DEF Reader!content, Reader!refs, Reader!highlight
<1>0. /\ Reader!Height \in Nat
      /\ UNCHANGED <<above, below, bubble>> => Reader!Height' = Reader!Height
  BY ContentChanges
<1>1. UNCHANGED <<above, below, bubble, top, moved, height>> => Reader!HasGone' = Reader!HasGone
  BY <1>0 DEF Reader!HasGone, Reader!NearBottom
<1> DEFINE Kept == /\ UNCHANGED <<above, below, bubble, top, moved, height, pinned, anchor, isAtBottom>>
                   /\ history'.left = history.left
<1>2. ASSUME Kept PROVE AtTheEnd'
  BY <1>1, <1>2 DEF AtTheEnd, Reader!NoAnchor
<1> HIDE DEF Kept
<1>3. CASE \/ \E h \in 1 .. Threshold + 1 : Reader!Stream(h)
           \/ Reader!EndTurn
           \/ \E h \in 1 .. MaxBelow : Reader!RowsArrive(h)
           \/ Reader!OlderArrive
  <2>1. /\ UNCHANGED <<pinned, anchor, isAtBottom>>
        /\ ~history'.left => ~history.left /\ ~Reader!HasGone'
    BY <1>3, ContentSteps
  <2> QED
    BY <2>1 DEF AtTheEnd, Reader!NoAnchor
<1>4. ASSUME NEW y \in 0 .. Older + MaxBelow, Reader!Read(y) PROVE AtTheEnd'
  <2>1. history'.left
    BY <1>4 DEF Reader!Read, PastRecords
  <2> QED
    BY <2>1 DEF AtTheEnd
<1>5. CASE Reader!LoadOlder
  <2>1. /\ anchor' = Reader!Height - top
        /\ UNCHANGED <<above, below, bubble, top, moved, height, pinned, isAtBottom>>
        /\ history'.left = (history.left \/ Reader!Height # height)
    BY <1>5 DEF Reader!LoadOlder, Reader!Kept, PastRecords
  <2>2. ASSUME ~history'.left
        PROVE  pinned' /\ isAtBottom' /\ ~Reader!HasGone' /\ anchor' <= View + Threshold
    <3>1. ~history.left /\ Reader!Height = height
      BY <2>1, <2>2
    <3>2. pinned /\ isAtBottom /\ ~Reader!HasGone
      BY <3>1 DEF AtTheEnd
    <3>3. Reader!NearBottom(top, Reader!Height)
      BY <3>1, <3>2 DEF Reader!HasGone
    <3>4. anchor' <= View + Threshold
      BY <1>0, <2>1, <3>3 DEF Reader!NearBottom
    <3> QED
      BY <1>1, <2>1, <3>2, <3>4
  <2> QED
    BY <2>2 DEF AtTheEnd
<1>6. CASE Reader!OlderFail
  <2>1. Kept
    BY <1>6 DEF Reader!OlderFail, Kept
  <2> QED
    BY <1>2, <2>1
<1>7. CASE Reader!ScrollToBottom
  <2>1. /\ Reader!MovesTo(Reader!Height) /\ UNCHANGED <<above, below, bubble, anchor>>
        /\ pinned' = TRUE /\ isAtBottom' = TRUE
        /\ history'.left = (anchor # Reader!NoAnchor)
    BY <1>7 DEF Reader!ScrollToBottom, PastRecords
  <2>2. top' = Reader!Clamp(Reader!Height, Reader!Height)
    BY <1>0, <2>1, MovesAreSeen
  <2>3. Reader!NearBottom(top', Reader!Height)
    BY <1>0, <2>2 DEF Reader!Clamp, Reader!Floor, Reader!NearBottom
  <2>4. ~Reader!HasGone'
    BY <1>0, <2>1, <2>3 DEF Reader!HasGone, Reader!NearBottom
  <2> QED
    BY <2>1, <2>4 DEF AtTheEnd, Reader!NoAnchor
<1>8. ASSUME NEW p \in Prompts \cup {Reader!Pending}, Reader!ScrollToPrompt(p) PROVE AtTheEnd'
  <2>1. history'.left
    BY <1>8 DEF Reader!ScrollToPrompt, PastRecords
  <2> QED
    BY <2>1 DEF AtTheEnd
<1>9. ASSUME NEW c \in OpenedChats, Reader!Reset(c) PROVE AtTheEnd'
  <2>1. history'.left
    BY <1>9 DEF Reader!Reset
  <2> QED
    BY <2>1 DEF AtTheEnd
<1>10. ASSUME NEW c \in OpenedChats, Reader!Remount(c) PROVE AtTheEnd'
  <2>1. PICK z \in 0 .. Older + MaxBelow : Reader!Height' = z
    BY <1>10, ContentChanges
  <2>2. /\ moved' = FALSE /\ height' = Reader!Unseen /\ pinned' /\ isAtBottom'
        /\ anchor' = Reader!NoAnchor
    BY <1>10 DEF Reader!Remount
  <2>3. ~Reader!HasGone'
    BY <2>1, <2>2 DEF Reader!HasGone, Reader!Unseen
  <2> QED
    BY <2>2, <2>3 DEF AtTheEnd, Reader!NoAnchor
<1>11. CASE Reader!RunEffects
  <2>1. UNCHANGED <<above, below, bubble, top, moved, height, isAtBottom>>
    BY <1>11 DEF Reader!RunEffects
  <2>2. CASE "refs" \in due
    <3>1. /\ pinned' /\ anchor' = Reader!NoAnchor
          /\ history'.left = (Reader!HasGone \/ ~isAtBottom)
      BY <1>11, <2>2 DEF Reader!RunEffects, PastRecords
    <3> QED
      BY <1>1, <2>1, <3>1 DEF AtTheEnd, Reader!NoAnchor
  <2>3. CASE "refs" \notin due
    <3>1. anchor' = anchor /\ pinned' = pinned /\ history' = history
      BY <1>11, <2>3 DEF Reader!RunEffects
    <3> QED
      BY <1>2, <2>1, <3>1 DEF Kept
  <2> QED
    BY <2>2, <2>3
<1>12. CASE Reader!Frame
  <2>1. /\ UNCHANGED <<above, below, bubble>> /\ top' = Reader!Settled /\ height' = Reader!Height
        /\ pinned' = Reader!PinnedNow /\ moved' = (top' # top)
        /\ isAtBottom' = IF moved THEN Reader!PinnedNow ELSE isAtBottom
        /\ anchor' = IF Reader!Height = height THEN anchor ELSE Reader!NoAnchor
    BY <1>12 DEF Reader!Frame
  <2>2. history'.left = history.left
    BY <1>12 DEF Reader!Frame, PastRecords
  <2>3. ASSUME ~history.left
        PROVE  pinned' /\ isAtBottom' /\ ~Reader!HasGone'
               /\ (anchor' # Reader!NoAnchor => anchor' <= View + Threshold)
    <3>1. pinned /\ isAtBottom /\ ~Reader!HasGone
          /\ (anchor # Reader!NoAnchor => anchor <= View + Threshold)
      BY <2>3 DEF AtTheEnd
    <3>2. Reader!PinnedNow
      BY <3>1 DEF Reader!PinnedNow, Reader!HasGone
    <3>3. Reader!Height = height => Reader!NearBottom(top, Reader!Height)
      BY <3>1 DEF Reader!HasGone
    <3>4. CASE Reader!Height = height
      <4>1. Reader!Settled = top
        BY <3>4 DEF Reader!Settled
      <4>2. Reader!NearBottom(top', Reader!Height)
        BY <2>1, <3>3, <3>4, <4>1
      <4>3. ~Reader!HasGone'
        BY <1>0, <2>1, <4>2 DEF Reader!HasGone, Reader!NearBottom
      <4>4. anchor' = anchor
        BY <2>1, <3>4
      <4>5. pinned' /\ isAtBottom'
        BY <2>1, <3>1, <3>2
      <4> QED
        BY <3>1, <4>3, <4>4, <4>5
    <3>5. CASE Reader!Height # height
      <4>1. Reader!NearBottom(Reader!Settled, Reader!Height)
        BY <1>0, <3>1, <3>2, <3>5
           DEF Reader!Settled, Reader!Clamp, Reader!Floor, Reader!NearBottom
      <4>3. ~Reader!HasGone'
        BY <1>0, <2>1, <4>1 DEF Reader!HasGone, Reader!NearBottom
      <4>4. anchor' = Reader!NoAnchor
        BY <2>1, <3>5
      <4>5. pinned' /\ isAtBottom'
        BY <2>1, <3>1, <3>2
      <4> QED
        BY <4>3, <4>4, <4>5
    <3> QED
      BY <3>4, <3>5
  <2> QED
    BY <2>2, <2>3 DEF AtTheEnd, Reader!NoAnchor
<1>13. CASE UNCHANGED Reader!scrollVars
  <2>1. Kept
    BY <1>13 DEF Reader!scrollVars, Kept
  <2> QED
    BY <1>2, <2>1
<1> QED
  BY <1>3, <1>4, <1>5, <1>6, <1>7, <1>8, <1>9, <1>10, <1>11, <1>12, <1>13 DEF Reader!Next

LEMMA PlaceStays ==
  ASSUME Reader!GeometryAssumption, Reader!TypeOK, LastFrame, PlaceKept,
         [Reader!Next]_(Reader!scrollVars)
  PROVE  PlaceKept'
<1> USE Sizes, ReaderNumbers DEF Reader!content, Reader!refs, Reader!highlight
<1>0. /\ Reader!Height \in Nat /\ top <= Reader!Floor(Reader!Height)
      /\ UNCHANGED <<above, below, bubble>> => Reader!Height' = Reader!Height
      /\ UNCHANGED Reader!NoPlace
  BY ContentChanges DEF Reader!NoPlace, LastFrame
<1>1. history'.place = Reader!NoPlace => PlaceKept'
  BY DEF PlaceKept, Reader!NoPlace
<1> DEFINE Kept == /\ UNCHANGED <<above, below, bubble, top, moved, height, anchor>>
                   /\ history'.place = history.place
<1>2. ASSUME Kept PROVE PlaceKept'
  BY <1>0, <1>2 DEF PlaceKept, Asking, Arrived, Shifted, Reader!Clamp, Reader!Floor
<1> HIDE DEF Kept
<1>3. CASE \/ \E h \in 1 .. Threshold + 1 : Reader!Stream(h)
           \/ Reader!EndTurn
           \/ \E h \in 1 .. MaxBelow : Reader!RowsArrive(h)
  <2>1. ~Reader!OlderArrive
    BY <1>3, ContentChanges, ContentSteps DEF Reader!OlderArrive
  <2> QED
    BY <1>1, <1>3, <2>1, ContentSteps
<1>4. CASE Reader!OlderArrive
  <2>1. /\ history'.place = history.place /\ UNCHANGED <<height, anchor>> /\ Reader!MovesTo(top)
        /\ above = 0 /\ above' = Older /\ Reader!Height' = Reader!Height + Older
    BY <1>4, ContentSteps, ContentChanges
  <2>2. ASSUME history.place # Reader!NoPlace PROVE Arrived'
    <3>1. Asking
      BY <2>1, <2>2 DEF PlaceKept, Arrived, Shifted
    <3>2. top' = top /\ moved' = moved
      <4>1. top' = Reader!Clamp(top, Reader!Height + Older)
        BY <1>0, <2>1, MovesAreSeen
      <4>2. top' = top
        BY <1>0, <4>1 DEF Reader!Clamp, Reader!Floor
      <4> QED
        BY <2>1, <4>2 DEF Reader!MovesTo
    <3>3. top <= height
      BY <1>0, <3>1 DEF Asking, Reader!Floor
    <3> QED
      BY <2>1, <3>1, <3>2, <3>3 DEF Asking, Arrived
  <2> QED
    BY <1>0, <2>1, <2>2 DEF PlaceKept
<1>5. ASSUME NEW y \in 0 .. Older + MaxBelow, Reader!Read(y) PROVE PlaceKept'
  BY <1>1, <1>5 DEF Reader!Read, PastRecords
<1>6. CASE Reader!LoadOlder
  <2>1. /\ above = 0 /\ anchor' = Reader!Height - top
        /\ UNCHANGED <<above, below, bubble, top, moved, height>>
        /\ history'.place = IF moved \/ Reader!Height # height THEN Reader!NoPlace ELSE Reader!Place
    BY <1>6 DEF Reader!LoadOlder, Reader!Kept, PastRecords
  <2>2. ASSUME ~moved /\ Reader!Height = height PROVE Asking'
    BY <1>0, <2>1, <2>2 DEF Asking, Reader!Place
  <2> QED
    BY <1>1, <2>1, <2>2 DEF PlaceKept
<1>7. CASE Reader!OlderFail
  <2>1. Kept
    BY <1>7 DEF Reader!OlderFail, Kept
  <2> QED
    BY <1>2, <2>1
<1>8. CASE Reader!ScrollToBottom
  BY <1>1, <1>8 DEF Reader!ScrollToBottom, PastRecords
<1>9. ASSUME NEW p \in Prompts \cup {Reader!Pending}, Reader!ScrollToPrompt(p) PROVE PlaceKept'
  BY <1>1, <1>9 DEF Reader!ScrollToPrompt, PastRecords
<1>10. ASSUME NEW c \in OpenedChats, Reader!Reset(c) \/ Reader!Remount(c) PROVE PlaceKept'
  BY <1>1, <1>10 DEF Reader!Reset, Reader!Remount
<1>11. CASE Reader!RunEffects
  <2>1. CASE "refs" \in due
    BY <1>1, <1>11, <2>1 DEF Reader!RunEffects, PastRecords
  <2>2. CASE "refs" \notin due
    <3>1. Kept
      BY <1>11, <2>2 DEF Reader!RunEffects, Kept
    <3> QED
      BY <1>2, <3>1
  <2> QED
    BY <2>1, <2>2
<1>12. CASE Reader!Frame
  <2>1. /\ UNCHANGED <<above, below, bubble>> /\ top' = Reader!Settled /\ height' = Reader!Height
        /\ moved' = (top' # top) /\ Reader!Height' = Reader!Height
        /\ anchor' = IF Reader!Height = height THEN anchor ELSE Reader!NoAnchor
    BY <1>0, <1>12 DEF Reader!Frame
  <2>2. history'.place = history.place
    BY <1>12 DEF Reader!Frame, PastRecords
  <2>3. CASE Reader!Height = height
    <3>1. Kept \/ moved
      BY <2>1, <2>2, <2>3 DEF Kept, Reader!Settled
    <3>2. CASE moved
      <4>1. history.place # Reader!NoPlace => Shifted
        BY <2>3, <3>2 DEF PlaceKept, Asking, Arrived
      <4>2. Shifted => Shifted'
        BY <1>0, <2>1, <2>2, <2>3 DEF Shifted, Reader!Settled, Reader!Clamp, Reader!Floor
      <4> QED
        BY <1>0, <2>2, <4>1, <4>2 DEF PlaceKept
    <3> QED
      BY <1>2, <3>1, <3>2
  <2>4. CASE Reader!Height # height
    <3>1. history.place # Reader!NoPlace => Arrived
      BY <2>4 DEF PlaceKept, Asking, Shifted
    <3>2. Arrived => Shifted'
      <4>1. SUFFICES ASSUME Arrived PROVE Shifted'
        OBVIOUS
      <4>2. anchor = height - top /\ top <= height /\ top = history.place
            /\ Reader!Height = height + Older /\ above = Older
        BY <4>1 DEF Arrived
      <4>3. Reader!Settled = Reader!Clamp(Reader!Height - anchor, Reader!Height)
        BY <2>4, <4>2 DEF Reader!Settled, Reader!NoAnchor
      <4>4. Reader!Height - anchor = Older + history.place
        BY <1>0, <4>2
      <4>5. top' = Reader!Clamp(Older + history.place, Reader!Height)
        BY <2>1, <4>3, <4>4
      <4> QED
        BY <1>0, <2>1, <2>2, <4>2, <4>5 DEF Shifted, Reader!Clamp, Reader!Floor
    <3> QED
      BY <1>0, <2>2, <3>1, <3>2 DEF PlaceKept
  <2> QED
    BY <2>3, <2>4
<1>13. CASE UNCHANGED Reader!scrollVars
  <2>1. Kept
    BY <1>13 DEF Reader!scrollVars, Kept
  <2> QED
    BY <1>2, <2>1
<1> QED
  BY <1>3, <1>4, <1>5, <1>6, <1>7, <1>8, <1>9, <1>10, <1>11, <1>12, <1>13 DEF Reader!Next

LEMMA ObservingStays ==
  ASSUME Reader!GeometryAssumption, Reader!TypeOK, LastFrame, Observing,
         [Reader!Next]_(Reader!scrollVars)
  PROVE  Observing'
<1> USE Sizes, ReaderNumbers DEF Reader!content, Reader!refs, Reader!highlight
<1> DEFINE Kept == /\ UNCHANGED <<above, below, bubble, watched, inBand>>
                   /\ due' \cap {"observer", "report"} = due \cap {"observer", "report"}
                   /\ history'.at = history.at
<1>1. ASSUME Kept PROVE Observing'
  <2>1. /\ Reader!Rendered' = Reader!Rendered
        /\ \A p : Reader!PlaceOf(p)' = Reader!PlaceOf(p)
        /\ FrameEnd' = FrameEnd
        /\ "observer" \in due' <=> "observer" \in due
    BY <1>1, SamePrompts DEF FrameEnd
  <2>2. "observer" \notin due' => watched' = Reader!Rendered'
    BY <1>1, <2>1 DEF Observing
  <2>3. ASSUME due' \cap {"observer", "report"} = {}, NEW p \in Reader!Rendered'
        PROVE  p \in inBand' <=> history'.at <= Reader!PlaceOf(p)' /\ Reader!PlaceOf(p)' < FrameEnd'
    BY <1>1, <2>1, <2>3 DEF Observing
  <2> QED
    BY <2>2, <2>3 DEF Observing
<1> HIDE DEF Kept
<1>2. CASE \/ \E h \in 1 .. Threshold + 1 : Reader!Stream(h)
           \/ Reader!EndTurn
           \/ \E h \in 1 .. MaxBelow : Reader!RowsArrive(h)
           \/ Reader!OlderArrive
  <2>1. UNCHANGED <<height, watched, inBand>> /\ history'.at = history.at
    BY <1>2, ContentSteps
  <2> QED
    BY <1>2, <2>1, ChangesAreDue
<1>3. CASE \/ \E y \in 0 .. Older + MaxBelow : Reader!Read(y)
           \/ Reader!LoadOlder \/ Reader!OlderFail \/ Reader!ScrollToBottom
           \/ \E p \in Prompts \cup {Reader!Pending} : Reader!ScrollToPrompt(p)
  <2>1. UNCHANGED <<above, below, bubble, due, watched, inBand>>
    BY <1>3 DEF Reader!Read, Reader!LoadOlder, Reader!OlderFail, Reader!ScrollToBottom,
                Reader!ScrollToPrompt
  <2>2. history'.at = history.at
    BY <1>3 DEF Reader!Read, Reader!LoadOlder, Reader!OlderFail, Reader!ScrollToBottom,
                Reader!ScrollToPrompt, PastRecords
  <2> QED
    BY <1>1, <2>1, <2>2 DEF Kept
<1>4. ASSUME NEW c \in OpenedChats, Reader!Reset(c) PROVE Observing'
  BY <1>4 DEF Reader!Reset, Observing
<1>5. ASSUME NEW c \in OpenedChats, Reader!Remount(c) PROVE Observing'
  <2>1. watched' = Reader!Rendered' /\ "report" \in due'
    BY <1>5 DEF Reader!Remount
  <2> QED
    BY <2>1 DEF Observing
<1>6. CASE Reader!RunEffects
  <2>1. UNCHANGED <<above, below, bubble>>
    BY <1>6 DEF Reader!RunEffects
  <2>2. CASE "observer" \in due
    <3>1. watched' = Reader!Rendered /\ "report" \in due'
      BY <1>6, <2>2 DEF Reader!RunEffects
    <3>2. Reader!Rendered' = Reader!Rendered
      BY <2>1, SamePrompts
    <3> QED
      BY <3>1, <3>2 DEF Observing
  <2>3. CASE "observer" \notin due
    <3>1. /\ UNCHANGED <<watched, inBand>> /\ history'.at = history.at
          /\ due' = due \ {"refs", "observer"}
      BY <1>6, <2>3 DEF Reader!RunEffects, PastRecords
    <3> QED
      BY <1>1, <2>1, <2>3, <3>1 DEF Kept
  <2> QED
    BY <2>2, <2>3
<1>7. CASE Reader!Frame
  <2>1. /\ UNCHANGED <<above, below, bubble, watched>> /\ due' = due \ {"report"}
        /\ inBand' = {p \in Reader!Present : Reader!InBand(p, top')}
    BY <1>7 DEF Reader!Frame
  <2>2. history'.at = top' - above
    BY <1>7 DEF Reader!Frame, PastRecords
  <2>3. /\ Reader!Rendered' = Reader!Rendered
        /\ \A p : Reader!PlaceOf(p)' = Reader!PlaceOf(p)
    BY <2>1, SamePrompts
  <2>4. "observer" \notin due' => watched' = Reader!Rendered'
    BY <2>1, <2>3 DEF Observing
  <2>5. ASSUME "observer" \notin due', NEW p \in Reader!Rendered'
        PROVE  p \in inBand' <=> history'.at <= Reader!PlaceOf(p)' /\ Reader!PlaceOf(p)' < FrameEnd'
    <3>1. p \in Reader!Rendered /\ p \in Reader!Present /\ Reader!PlaceOf(p) \in Int
      BY <2>1, <2>3, <2>4, <2>5, OnThePage DEF Reader!Present
    <3>2. PICK t \in Nat : top' = t
      BY <1>7, FrameSettles DEF Reader!Frame
    <3>3. p \in inBand' <=> Reader!InBand(p, t)
      BY <2>1, <3>1, <3>2
    <3>4. Reader!InBand(p, t) <=> t - above <= Reader!PlaceOf(p) /\ Reader!PlaceOf(p) < t - above + Band
      BY <3>1 DEF Reader!InBand
    <3>5. FrameEnd' = t - above + Band /\ history'.at = t - above
      BY <2>2, <3>2 DEF FrameEnd
    <3> QED
      BY <2>3, <3>3, <3>4, <3>5
  <2> QED
    BY <2>4, <2>5 DEF Observing
<1>8. CASE UNCHANGED Reader!scrollVars
  <2>1. Kept
    BY <1>8 DEF Reader!scrollVars, Kept
  <2> QED
    BY <1>1, <2>1
<1> QED
  BY <1>2, <1>3, <1>4, <1>5, <1>6, <1>7, <1>8 DEF Reader!Next

\* Between frames, what is highlighted stays the last that crossed.
LEMMA FollowedBetween ==
  ASSUME Reader!GeometryAssumption, Reader!TypeOK, LastFrame, Followed,
         [Reader!Next]_(Reader!scrollVars), ~Reader!Frame
  PROVE  Followed'
<1> USE Sizes, ReaderNumbers DEF Reader!content, Reader!refs, Reader!highlight
<1>0. /\ UNCHANGED <<Reader!Pending, Reader!Nobody, Reader!Spaced>>
      /\ \A p \in Prompts : p < Reader!Pending
      /\ Reader!Pending \in Int /\ FrameEnd \in Int
      /\ Crossed \in SUBSET (Prompts \cup {Reader!Pending})
  BY OnThePage DEF Reader!Pending, Reader!Nobody, Reader!Spaced, FrameEnd, Crossed
\* It is enough that the last of what has crossed is the same.
<1>1. ASSUME UNCHANGED <<observed>>, history'.at = history.at,
             history'.astray \/ ~history.astray,
             Reader!Spaced /\ ~history.astray /\ ~history'.astray =>
               /\ Reader!LastOf(Crossed') = Reader!LastOf(Crossed)
               /\ Ahead' \/ (bubble' > 0 /\ observed = Reader!Pending)
      PROVE  Followed'
  <2>1. FrameEnd' = FrameEnd
    BY <1>1 DEF FrameEnd
  <2>2. Reader!LastOf(Crossed)' = Reader!LastOf(Crossed')
    BY DEF Reader!LastOf, Reader!Nobody
  <2>3. ASSUME Reader!Spaced, ~history'.astray
        PROVE  /\ observed' = Reader!LastOf(Crossed')
               /\ Ahead' \/ (bubble' > 0 /\ observed' = Reader!Pending)
    BY <1>1, <2>3 DEF Followed
  <2> QED
    BY <1>0, <2>2, <2>3 DEF Followed
<1>2. ASSUME UNCHANGED <<above, below, bubble, observed>>, history'.at = history.at,
             history'.astray = history.astray
      PROVE  Followed'
  <2>1. Crossed' = Crossed /\ FrameEnd' = FrameEnd
    BY <1>2, SamePrompts DEF Crossed, FrameEnd
  <2>2. Reader!Spaced /\ ~history.astray => Ahead' \/ (bubble' > 0 /\ observed = Reader!Pending)
    <3>1. Ahead' <=> Ahead
      BY <1>2, <2>1 DEF Ahead
    <3> QED
      BY <1>2, <3>1 DEF Followed
  <2> QED
    BY <1>1, <1>2, <2>1, <2>2
<1>3. ASSUME NEW h \in 1 .. Threshold + 1, Reader!Stream(h) PROVE Followed'
  <2>1. /\ UNCHANGED <<above, below>> /\ bubble' = bubble + h /\ below \in Prompts
    BY <1>3, ContentChanges
  <2>2. observed' = observed /\ history'.at = history.at /\ history'.astray = history.astray
    BY <1>3 DEF Reader!Stream, PastRecords
  <2>3. FrameEnd' = FrameEnd
    BY <2>2 DEF FrameEnd
  <2>4. ASSUME Reader!Spaced, ~history.astray
        PROVE  Crossed' = Crossed /\ (Ahead' \/ (bubble' > 0 /\ observed = Reader!Pending))
    <3>1. \A p : Reader!PlaceOf(p)' = Reader!PlaceOf(p)
      BY <1>0, <2>1 DEF Reader!PlaceOf
    <3>2. CASE bubble > 0
      <4>1. Reader!Rendered' = Reader!Rendered
        BY <1>0, <2>1, <3>2 DEF Reader!Rendered
      <4>2. Crossed' = Crossed
        BY <2>3, <3>1, <4>1 DEF Crossed
      <4>3. Ahead' <=> Ahead
        BY <2>1, <2>3 DEF Ahead
      <4>4. bubble' > 0
        BY <2>1, <3>2
      <4> QED
        BY <2>4, <3>2, <4>2, <4>3, <4>4 DEF Followed
    <3>3. CASE bubble = 0
      <4>1. Ahead
        BY <2>4, <3>3 DEF Followed
      <4>2. Reader!Rendered' = Reader!Rendered \cup {Reader!Pending} /\ Reader!Pending \notin Reader!Rendered
        BY <1>0, <2>1, <3>3 DEF Reader!Rendered
      <4>3. Reader!PlaceOf(Reader!Pending) = below /\ below >= FrameEnd
        BY <2>1, <4>1 DEF Reader!PlaceOf, Ahead
      <4>4. Crossed' = Crossed
        BY <1>0, <2>3, <3>1, <4>2, <4>3 DEF Crossed
      <4>5. Ahead'
        BY <2>1, <2>3, <4>1 DEF Ahead
      <4> QED
        BY <4>4, <4>5
    <3> QED
      BY <3>2, <3>3
  <2> QED
    BY <1>1, <2>2, <2>4
<1>4. CASE Reader!EndTurn \/ \E h \in 1 .. MaxBelow : Reader!RowsArrive(h)
  <2>1. /\ above' = above /\ bubble' = 0 /\ below' \in Nat /\ below' >= below
    BY <1>4, ContentChanges
  <2>2. /\ observed' = observed /\ history'.at = history.at
        /\ history'.astray = (history.astray \/ observed = Reader!Pending)
    BY <1>4 DEF Reader!EndTurn, Reader!RowsArrive, PastRecords
  <2>3. FrameEnd' = FrameEnd
    BY <2>2 DEF FrameEnd
  <2>4. ASSUME Reader!Spaced, ~history.astray, ~history'.astray
        PROVE  Crossed' = Crossed /\ Ahead'
    <3>1. Ahead
      BY <2>2, <2>4 DEF Followed
    <3>2. \A p \in Crossed : p # Reader!Pending /\ p \in Prompts /\ p < below
      BY <1>0, <3>1, OnThePage DEF Crossed, Ahead
    <3>3. \A p \in Prompts : /\ p \in Reader!Rendered <=> -above <= p /\ p < below
                             /\ p \in Reader!Rendered' <=> -above <= p /\ p < below'
                             /\ Reader!PlaceOf(p) = p /\ Reader!PlaceOf(p)' = p
      BY <1>0, <2>1 DEF Reader!Rendered, Reader!PlaceOf
    <3>4. Reader!Rendered' \subseteq Prompts
      BY <2>1 DEF Reader!Rendered
    <3>5. ASSUME NEW p \in Crossed PROVE p \in Crossed'
      BY <2>1, <2>3, <3>2, <3>3, <3>5 DEF Crossed
    <3>6. ASSUME NEW p \in Crossed' PROVE p \in Crossed
      <4>1. p \in Prompts /\ -above <= p /\ p < FrameEnd
        BY <2>3, <3>3, <3>4, <3>6 DEF Crossed
      <4>2. p < below
        BY <1>0, <3>1, <4>1 DEF Ahead
      <4> QED
        BY <3>3, <4>1, <4>2 DEF Crossed
    <3>7. Ahead'
      <4>1. PICK b \in Nat : b = below'
        BY <2>1
      <4> QED
        BY <2>1, <2>3, <3>1, <4>1 DEF Ahead
    <3> QED
      BY <3>5, <3>6, <3>7
  <2> QED
    BY <1>1, <2>2, <2>4
<1>5. CASE Reader!OlderArrive
  <2>1. /\ UNCHANGED <<below, bubble>> /\ above = 0 /\ above' = Older
    BY <1>5, ContentChanges
  <2>2. observed' = observed /\ history'.at = history.at /\ history'.astray = history.astray
    BY <1>5 DEF Reader!OlderArrive, Reader!highlight, PastRecords
  <2>3. FrameEnd' = FrameEnd /\ FrameEnd > 0
    BY <2>1, <2>2 DEF FrameEnd, LastFrame
  <2>4. ASSUME Reader!Spaced, ~history.astray
        PROVE  /\ Reader!LastOf(Crossed') = Reader!LastOf(Crossed)
               /\ Ahead' \/ (bubble' > 0 /\ observed = Reader!Pending)
    <3>1. /\ observed = Reader!LastOf(Crossed)
          /\ Ahead \/ (bubble > 0 /\ observed = Reader!Pending)
      BY <2>4 DEF Followed
    <3>2. \A p : Reader!PlaceOf(p)' = Reader!PlaceOf(p)
      BY <1>0, <2>1 DEF Reader!PlaceOf
    <3>3. /\ Reader!Rendered \subseteq Reader!Rendered'
          /\ \A p \in Reader!Rendered' \ Reader!Rendered : p \in Prompts /\ p < 0
      BY <1>0, <2>1 DEF Reader!Rendered
    <3>4. Crossed \subseteq Crossed'
      BY <2>3, <3>2, <3>3 DEF Crossed
    <3>5. \A p \in Crossed' \ Crossed : p \in Prompts /\ p < 0
      BY <2>3, <3>2, <3>3 DEF Crossed
    <3>6. observed \in Crossed /\ observed >= 0
      <4>1. \/ Crossed = {} /\ observed = Reader!Nobody
            \/ observed \in Crossed /\ \A q \in Crossed : q <= observed
        BY <1>0, <3>1, LastIs
      <4>2. CASE below > 0
        <5>1. 0 \in Crossed
          BY <1>0, <2>1, <2>3, <4>2 DEF Crossed, Reader!Rendered, Reader!PlaceOf
        <5> QED
          BY <4>1, <5>1
      <4>3. CASE below = 0
        <5>1. bubble > 0 /\ observed = Reader!Pending
          BY <1>0, <2>3, <3>1, <4>3 DEF Ahead
        <5>2. Reader!Pending # Reader!Nobody /\ Reader!Pending >= 0
          BY DEF Reader!Pending, Reader!Nobody
        <5> QED
          BY <4>1, <5>1, <5>2
      <4> QED
        BY <4>2, <4>3
    <3>7. /\ Crossed' \in SUBSET (Prompts \cup {Reader!Pending})
          /\ \A q \in Crossed' : q <= observed
      <4>1. \A q \in Crossed : q <= observed
        BY <1>0, <3>1, <3>6, LastIs
      <4>2. observed \in Int
        BY <1>0, <3>6
      <4>3. ASSUME NEW q \in Crossed', q \notin Crossed PROVE q <= observed
        BY <3>5, <3>6, <4>2, <4>3
      <4>4. Crossed' \subseteq Prompts \cup {Reader!Pending}
        BY <1>0, <3>5
      <4> QED
        BY <4>1, <4>3, <4>4
    <3>8. observed = Reader!LastOf(Crossed')
      BY <3>4, <3>6, <3>7, LastIs
    <3>9. Ahead' \/ (bubble' > 0 /\ observed = Reader!Pending)
      BY <2>1, <2>3, <3>1 DEF Ahead
    <3> QED
      BY <3>1, <3>8, <3>9
  <2> QED
    BY <1>1, <2>2, <2>4
<1>6. CASE \/ \E y \in 0 .. Older + MaxBelow : Reader!Read(y)
           \/ Reader!LoadOlder \/ Reader!OlderFail \/ Reader!ScrollToBottom
           \/ \E p \in Prompts \cup {Reader!Pending} : Reader!ScrollToPrompt(p)
           \/ Reader!RunEffects
  <2>1. UNCHANGED <<above, below, bubble, observed>>
    BY <1>6 DEF Reader!Read, Reader!LoadOlder, Reader!OlderFail, Reader!ScrollToBottom,
                Reader!ScrollToPrompt, Reader!RunEffects
  <2>2. history'.at = history.at /\ history'.astray = history.astray
    BY <1>6 DEF Reader!Read, Reader!LoadOlder, Reader!OlderFail, Reader!ScrollToBottom,
                Reader!ScrollToPrompt, Reader!RunEffects, PastRecords
  <2> QED
    BY <1>2, <2>1, <2>2
<1>7. ASSUME NEW c \in OpenedChats, Reader!Reset(c) \/ Reader!Remount(c) PROVE Followed'
  <2>1. history'.astray
    BY <1>7 DEF Reader!Reset, Reader!Remount
  <2> QED
    BY <2>1 DEF Followed
<1>8. CASE UNCHANGED Reader!scrollVars
  <2>1. UNCHANGED <<above, below, bubble, observed, history>>
    BY <1>8 DEF Reader!scrollVars
  <2> QED
    BY <1>2, <2>1
<1> QED
  BY <1>3, <1>4, <1>5, <1>6, <1>7, <1>8 DEF Reader!Next

\* What a frame highlights.
LEMMA FrameHighlights ==
  ASSUME Reader!GeometryAssumption, Reader!TypeOK, LastFrame, Observing, Followed,
         Reader!Spaced, NEW t \in Nat,
         \/ Reader!CameIn(t) # {}
         \/ ~history.astray /\ ~Reader!Skips(t - above)
  PROVE  Reader!Observe(t) =
           Reader!LastOf({p \in Reader!Rendered : Reader!PlaceOf(p) < t - above + Band})
<1> USE Sizes, ReaderNumbers
<1> DEFINE n == t - above
           New == {p \in Reader!Rendered : Reader!PlaceOf(p) < n + Band}
<1>0. /\ Reader!Pending \in Int /\ FrameEnd \in Int /\ n \in Int /\ FrameEnd = history.at + Band
      /\ Reader!Rendered \in SUBSET (Prompts \cup {Reader!Pending})
      /\ Reader!Nobody \notin Prompts \cup {Reader!Pending}
      /\ \A p \in Reader!Rendered : p \in Int /\ Reader!PlaceOf(p) \in Int
      /\ \A p, q \in Reader!Rendered : p < q => Reader!PlaceOf(p) + Band <= Reader!PlaceOf(q)
  BY OnThePage DEF Reader!Pending, FrameEnd
<1>1. /\ New \in SUBSET (Prompts \cup {Reader!Pending})
      /\ Crossed \in SUBSET (Prompts \cup {Reader!Pending})
      /\ Reader!Present \subseteq Reader!Rendered
      /\ \A p : Reader!LeavesDown(p, t) <=> Reader!PlaceOf(p) >= n + Band
      /\ \A p \in Reader!Rendered : Reader!InBand(p, t) <=> n <= Reader!PlaceOf(p) /\ Reader!PlaceOf(p) < n + Band
  BY <1>0 DEF Crossed, Reader!Present, Reader!LeavesDown, Reader!InBand
<1> SUFFICES Reader!Observe(t) = Reader!LastOf(New)
  OBVIOUS
<1> HIDE DEF n, New
<1>2. CASE Reader!CameIn(t) # {}
  <2> DEFINE x == Reader!LastOf(Reader!CameIn(t))
  <2>1. Reader!CameIn(t) \in SUBSET (Prompts \cup {Reader!Pending})
    BY <1>0, <1>1 DEF Reader!CameIn
  <2>2. x \in Reader!CameIn(t)
    BY <1>2, <2>1, LastIs
  <2>3. x \in Reader!Rendered /\ n <= Reader!PlaceOf(x) /\ Reader!PlaceOf(x) < n + Band
    BY <1>1, <2>2 DEF Reader!CameIn
  <2> HIDE DEF x
  <2>4. ASSUME NEW q \in New PROVE q <= x
    <3>1. q \in Reader!Rendered /\ Reader!PlaceOf(q) < n + Band
      BY DEF New
    <3> QED
      BY <1>0, <2>3, <3>1
  <2>5. x \in New
    BY <2>3 DEF New
  <2>6. x = Reader!LastOf(New)
    BY <1>1, <2>4, <2>5, LastIs
  <2> QED
    BY <1>2, <2>6 DEF Reader!Observe, x
<1>3. CASE Reader!CameIn(t) = {}
  <2>1. ~history.astray /\ ~Reader!Skips(n)
    BY <1>3 DEF n
  <2>2. /\ n - history.at \in -Band .. Band
        /\ n # history.at => "observer" \notin due
    BY <1>0, <2>1 DEF Reader!Skips
  <2>3. \/ observed = Reader!Nobody /\ Crossed = {}
        \/ (observed \in Crossed /\ \A q \in Crossed : q <= observed)
    BY <1>1, <2>1, LastIs DEF Followed
  <2>4. Reader!Observe(t) =
          IF observed \in Reader!Present /\ Reader!HasEntry(observed, t) /\ Reader!LeavesDown(observed, t)
            THEN Reader!Before(observed) ELSE observed
    BY <1>3 DEF Reader!Observe
  <2>5. ASSUME New = Crossed PROVE Reader!Observe(t) = Reader!LastOf(New)
    <3>1. ~(observed \in Reader!Present /\ Reader!LeavesDown(observed, t))
      <4>1. SUFFICES ASSUME observed \in Reader!Present PROVE ~Reader!LeavesDown(observed, t)
        OBVIOUS
      <4>2. observed \in New /\ observed \in Reader!Rendered
        BY <1>0, <1>1, <2>3, <2>5, <4>1
      <4> QED
        BY <1>0, <1>1, <4>2 DEF New
    <3>2. Reader!Observe(t) = observed
      BY <2>4, <3>1
    <3>3. observed = Reader!LastOf(Crossed)
      BY <2>1 DEF Followed
    <3> QED
      BY <2>5, <3>2, <3>3
  <2>6. CASE n = history.at
    <3>1. New = Crossed
      BY <1>0, <2>6 DEF New, Crossed
    <3> QED
      BY <2>5, <3>1
  \* The prompts that are in the band have been in it.
  <2>7. ASSUME n # history.at
        PROVE  /\ watched = Reader!Rendered /\ Reader!Present = Reader!Rendered
               /\ \A p \in Reader!Rendered : Reader!InBand(p, t) =>
                    history.at <= Reader!PlaceOf(p) /\ Reader!PlaceOf(p) < FrameEnd
               /\ "report" \notin due => \A p \in Reader!Rendered :
                    p \in inBand <=> history.at <= Reader!PlaceOf(p) /\ Reader!PlaceOf(p) < FrameEnd
    <3>1. watched = Reader!Rendered /\ Reader!Present = Reader!Rendered /\ "observer" \notin due
      BY <2>2, <2>7 DEF Observing, Reader!Present
    <3>2. "report" \notin due => \A p \in Reader!Rendered :
            p \in inBand <=> history.at <= Reader!PlaceOf(p) /\ Reader!PlaceOf(p) < FrameEnd
      BY <3>1 DEF Observing
    <3>3. ASSUME NEW p \in Reader!Rendered, Reader!InBand(p, t)
          PROVE  history.at <= Reader!PlaceOf(p) /\ Reader!PlaceOf(p) < FrameEnd
      <4>1. ~Reader!HasEntry(p, t)
        BY <1>3, <3>1, <3>3 DEF Reader!CameIn
      <4>2. "report" \notin due /\ p \in inBand
        BY <3>3, <4>1 DEF Reader!HasEntry
      <4> QED
        BY <3>2, <4>2
    <3> QED
      BY <3>1, <3>2, <3>3
  <2>8. CASE n > history.at
    <3>1. ASSUME NEW p \in New PROVE p \in Crossed
      <4>1. p \in Reader!Rendered /\ Reader!PlaceOf(p) < n + Band
        BY DEF New
      <4>2. Reader!PlaceOf(p) < FrameEnd
        BY <1>0, <1>1, <2>2, <2>7, <2>8, <4>1
      <4> QED
        BY <4>1, <4>2 DEF Crossed
    <3>2. Crossed \subseteq New
      BY <1>0, <2>8 DEF New, Crossed
    <3> QED
      BY <2>5, <3>1, <3>2
  <2>9. CASE n < history.at
    <3>1. New \subseteq Crossed
      BY <1>0, <2>9 DEF New, Crossed
    <3>2. CASE Crossed = {}
      BY <2>5, <3>1, <3>2
    <3>3. CASE observed \in New
      <4>1. ~Reader!LeavesDown(observed, t)
        BY <1>0, <1>1, <3>3 DEF New
      <4>2. Reader!Observe(t) = observed
        BY <2>4, <4>1
      <4>3. \A q \in New : q <= observed
        BY <2>3, <3>1, <3>3
      <4> QED
        BY <1>1, <3>3, <4>2, <4>3, LastIs
    <3>4. CASE Crossed # {} /\ observed \notin New
      <4>1. /\ observed \in Reader!Rendered /\ Reader!PlaceOf(observed) < FrameEnd
            /\ \A q \in Crossed : q <= observed
        BY <2>3, <3>4 DEF Crossed
      <4>2. Reader!PlaceOf(observed) >= n + Band
        BY <1>0, <3>4, <4>1 DEF New
      <4>3. Reader!LeavesDown(observed, t) /\ ~Reader!InBand(observed, t)
        BY <1>0, <1>1, <4>1, <4>2
      <4>4. history.at <= Reader!PlaceOf(observed)
        BY <1>0, <2>2, <4>1, <4>2
      <4>a. n # history.at
        BY <1>0, <2>9
      <4>5. Reader!HasEntry(observed, t)
        <5>1. "report" \notin due => observed \in inBand
          BY <2>7, <4>a, <4>1, <4>4
        <5> QED
          BY <4>3, <5>1, Zenon DEF Reader!HasEntry
      <4>6. observed \in Reader!Present
        BY <2>7, <4>a, <4>1
      <4>7. Reader!Observe(t) = Reader!LastOf({q \in Reader!Rendered : q < observed})
        <5>1. Reader!Observe(t) = Reader!Before(observed)
          BY <2>4, <4>3, <4>5, <4>6
        <5>2. watched = Reader!Rendered
          BY <2>7, <4>a
        <5> QED
          BY <5>1, <5>2 DEF Reader!Before
      <4>8. ASSUME NEW q \in Reader!Rendered, q < observed PROVE q \in New
        <5>1. Reader!PlaceOf(q) + Band <= Reader!PlaceOf(observed)
          BY <1>0, <4>1, <4>8
        <5>2. Reader!PlaceOf(q) < n + Band
          BY <1>0, <2>2, <4>1, <4>8, <5>1
        <5> QED
          BY <4>8, <5>2 DEF New
      <4>9. ASSUME NEW q \in New PROVE q \in Reader!Rendered /\ q < observed
        <5>1. q \in Reader!Rendered /\ q <= observed /\ q # observed
          BY <3>1, <3>4, <4>1 DEF New
        <5> QED
          BY <1>0, <4>1, <5>1
      <4>10. {q \in Reader!Rendered : q < observed} = New
        BY <4>8, <4>9
      <4> QED
        BY <4>7, <4>10
    <3> QED
      BY <3>2, <3>3, <3>4
  <2> QED
    BY <1>0, <2>6, <2>8, <2>9
<1> QED
  BY <1>2, <1>3

LEMMA FollowedFrame ==
  ASSUME Reader!GeometryAssumption, Reader!TypeOK, LastFrame, Observing, Followed, Reader!Frame
  PROVE  Followed'
<1> USE Sizes, ReaderNumbers
<1>1. PICK t \in Nat : t = Reader!Settled /\ t <= Reader!Floor(Reader!Height)
  BY FrameSettles
<1> DEFINE n == t - above
           New == {p \in Reader!Rendered : Reader!PlaceOf(p) < n + Band}
<1>2. /\ UNCHANGED <<above, below, bubble>> /\ top' = t /\ observed' = Reader!Observe(t)
      /\ history'.at = n
      /\ history'.astray = ((history.astray \/ Reader!Skips(n)) /\ Reader!CameIn(t) = {})
  BY <1>1 DEF Reader!Frame, PastRecords, Reader!content
<1>3. /\ Reader!Pending \in Int /\ n \in Int /\ FrameEnd' = n + Band
      /\ New \in SUBSET (Prompts \cup {Reader!Pending})
      /\ \A p \in Prompts : p < Reader!Pending
  BY <1>2, OnThePage DEF Reader!Pending, FrameEnd
<1>4. Crossed' = New
  BY <1>2, <1>3, SamePrompts DEF Crossed
<1>5. UNCHANGED <<Reader!Pending, Reader!Spaced>> /\ Reader!LastOf(Crossed)' = Reader!LastOf(Crossed')
  BY DEF Reader!Pending, Reader!Spaced, Reader!LastOf, Reader!Nobody
<1> SUFFICES ASSUME Reader!Spaced, ~history'.astray
             PROVE  /\ observed' = Reader!LastOf(New)
                    /\ Ahead' \/ (bubble' > 0 /\ observed' = Reader!Pending)
  BY <1>4, <1>5 DEF Followed
<1>6. Reader!CameIn(t) # {} \/ (~history.astray /\ ~Reader!Skips(n))
  BY <1>2
<1>7. Reader!Observe(t) = Reader!LastOf(New)
  BY <1>6, FrameHighlights
<1> HIDE DEF n, New
<1>8. Ahead' <=> \A p \in Prompts : p >= below => p >= n + Band
  BY <1>2, <1>3 DEF Ahead
<1>9. CASE bubble > 0
  <2>1. below \in Prompts
    BY <1>9 DEF LastFrame
  <2>2. CASE below >= n + Band
    BY <1>3, <1>2, <1>7, <1>8, <2>1, <2>2
  <2>3. CASE below < n + Band
    <3>1. Reader!Pending \in New
      BY <1>9, <2>3 DEF New, Reader!Rendered, Reader!PlaceOf
    <3>2. Reader!LastOf(New) = Reader!Pending
      BY <1>3, <3>1, LastIs
    <3> QED
      BY <1>2, <1>7, <1>9, <3>2
  <2> QED
    BY <1>3, <2>1, <2>2, <2>3
<1>10. CASE bubble = 0
  <2>1. ASSUME NEW p \in Prompts, p >= below PROVE p >= n + Band
    <3>1. Reader!Height = above + below
      BY <1>10, ContentChanges
    <3>2. n + View <= below \/ n = -above
      BY <1>1, <3>1 DEF n, Reader!Floor
    <3>3. p > 0 => p >= Band
      BY DEF Reader!Spaced
    <3>4. CASE n + View <= below \/ p > 0
      BY <1>3, <2>1, <3>2, <3>3, <3>4
    <3>5. CASE n = -above /\ p = 0 /\ below = 0
      <4>1. CASE Reader!Rendered # {}
        <5>1. PICK q \in Reader!Rendered : TRUE
          BY <4>1
        <5>2. q \in Prompts /\ -above <= q /\ q < 0
          BY <1>10, <3>5, <5>1 DEF Reader!Rendered
        <5>3. q + Band <= 0
          BY <5>2 DEF Reader!Spaced
        <5> QED
          BY <3>5, <5>2, <5>3
      <4>2. CASE Reader!Rendered = {}
        <5>1. Reader!CameIn(t) = {}
          BY <4>2 DEF Reader!CameIn, Reader!Present
        <5>2. ~history.astray
          BY <1>6, <5>1
        <5>3. 0 >= FrameEnd
          BY <1>10, <3>5, <5>2 DEF Followed, Ahead
        <5> QED
          BY <3>5, <5>3 DEF FrameEnd, LastFrame
      <4> QED
        BY <4>1, <4>2
    <3> QED
      BY <2>1, <3>2, <3>4, <3>5
  <2> QED
    BY <1>2, <1>7, <1>8, <2>1
<1> QED
  BY <1>9, <1>10

LEMMA ReaderKeeps ==
  ASSUME Reader!GeometryAssumption, ReaderInv, [Reader!Next]_(Reader!scrollVars)
  PROVE  ReaderInv'
BY ReaderTypes, LastFrameStays, EndStays, PlaceStays, ObservingStays, FollowedBetween,
   FollowedFrame DEF ReaderInv

LEMMA ReaderSound ==
  ASSUME Reader!GeometryAssumption, ReaderInv
  PROVE  Reader!TypeOK /\ Reader!ReadingSound
<1> USE Sizes, ReaderNumbers DEF ReaderInv
<1>1. Reader!FollowsTheEnd
  <2>1. SUFFICES ASSUME Reader!AtRest, ~history.left
                 PROVE  pinned /\ isAtBottom /\ Reader!NearBottom(top, Reader!Height)
    BY DEF Reader!FollowsTheEnd
  <2>2. pinned /\ isAtBottom /\ ~Reader!HasGone
    BY <2>1 DEF AtTheEnd
  <2> QED
    BY <2>1, <2>2 DEF Reader!HasGone, Reader!AtRest
<1>2. Reader!KeepsThePlace
  <2>1. SUFFICES ASSUME Reader!AtRest, above = Older, history.place # Reader!NoPlace
                 PROVE  top = Reader!Clamp(above + history.place, Reader!Height)
    BY DEF Reader!KeepsThePlace
  <2>2. ~Asking /\ ~Arrived
    BY <2>1, ContentChanges DEF Asking, Arrived, Reader!AtRest
  <2> QED
    BY <2>1, <2>2 DEF PlaceKept, Shifted
<1>3. Reader!HighlightsTheRead
  <2>1. SUFFICES ASSUME Reader!Spaced, Reader!AtRest, due = {}, ~history.astray
                 PROVE  observed = Reader!LastCrossed
    BY DEF Reader!HighlightsTheRead
  <2>2. Reader!Place = history.at
    BY <2>1 DEF LastFrame, Reader!AtRest
  <2>3. Crossed = {p \in Reader!Rendered : Reader!PlaceOf(p) < Reader!Place + Band}
    BY <2>2 DEF Crossed, FrameEnd
  <2> QED
    BY <2>1, <2>3 DEF Followed, Reader!LastCrossed
<1> QED
  BY <1>1, <1>2, <1>3 DEF Reader!ReadingSound

\* A conversation is followed to its end until the reader leaves it (or too much comes in one
\* frame, or a chat is opened over one of the same height), older messages leave the place
\* where they were asked for, and the prompt that is highlighted is the last that crossed the
\* band, once one came into it: use-scroll-tracking.ts and message-list.tsx.
THEOREM ReadingHolds ==
  ASSUME Reader!GeometryAssumption
  PROVE  Reader!Spec => []Reader!ReadingSound
<1>1. Reader!Init => ReaderInv
  BY ReaderInit
<1>2. ReaderInv /\ [Reader!Next]_(Reader!scrollVars) => ReaderInv'
  BY ReaderKeeps
<1>3. ReaderInv => Reader!ReadingSound
  BY ReaderSound
<1> QED
  BY <1>1, <1>2, <1>3, PTL DEF Reader!Spec

=============================================================================
