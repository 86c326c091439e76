---------------------------- MODULE MCComponents ----------------------------
(***************************************************************************)
(* One instance for TLC of the components that share no state.  The        *)
(* initial state says in part which of them runs; the lease of a lock      *)
(* keeps its own variables, the others use s1 to s16 in turn, so that the  *)
(* states of the run are the states of each, side by side.                 *)
(***************************************************************************)
EXTENDS LockLease, Integers, Sequences, TLC

CONSTANTS Workers,   \* what acts: replicas, calls, requests, sends
          Places     \* what it acts in, or on: edits, tabs, models

VARIABLES part, s1, s2, s3, s4, s5, s6, s7, s8, s9,
          s10, s11, s12, s13, s14, s15, s16

\* No property of a component names a member of these sets.
Symmetry == Permutations(Workers) \cup Permutations(Places)

SomeEntries == {[group |-> "chat", input |-> 2, output |-> 1],
                [group |-> "summary", input |-> 0, output |-> 3]}
SomeRanges == {[from |-> 0, to |-> 4], [from |-> 2, to |-> 4], [from |-> 1, to |-> 3]}
SomeLists == {<<"u", [from |-> 0, to |-> 4]>>}
SomeChats == {<<0, 2, 2>>, <<2, 2, 0>>}

Registry == INSTANCE ModelRegistry WITH
  Models <- {"m1", "m2", "m3"}, Seed <- "m1", Edits <- Places, Replicas <- Workers,
  table <- s1, written <- s2, step <- s3, subject <- s4, wish <- s5, found <- s6

Admin == INSTANCE AdminAuth WITH
  Tabs <- Places, Calls <- Workers, MaxSessions <- 3,
  tab <- s1, created <- s2, revoked <- s3, expired <- s4, successor <- s5,
  signedOut <- s6, jar <- s7, call <- s8, arriving <- s9, delivered <- s10

Web == INSTANCE WebChat WITH
  Sends <- Workers, Chats <- {"c1", "c2"}, Opened <- "c1",
  scope <- s1, going <- s2, mounted <- s3, chats <- s4, text <- s5, restored <- s6,
  drafts <- s7, step <- s8, from <- s9, place <- s10, controller <- s11,
  aborted <- s12, begun <- s13, heard <- s14, pending <- s15,
  overlapped <- s16

Visit == INSTANCE Visitors WITH
  Requests <- Workers, Chats <- {"c"}, VisitorIds <- {"v", "w"},
  visitors <- s1, lapsed <- s2, owner <- s3, jar <- s4, request <- s5,
  overlapped <- s6, lost <- s7

Lists == INSTANCE ChatPages WITH
  MaxRows <- 4, MaxTouches <- 2, Asked <- {0, 1, 9}, DefaultPageSize <- 2,
  MaxPageSize <- 3,
  kind <- s1, limit <- s2, time <- s3, archived <- s4, created <- s5, touches <- s6,
  pages <- s7, fetch <- s8, shown <- s9

Reader == INSTANCE Scroll WITH
  Prompts <- {-2, 0, 2}, View <- 2, Threshold <- 1, Band <- 2, Older <- 2,
  MaxBelow <- 4, Opened <- SomeChats,
  above <- s1, below <- s2, bubble <- s3, top <- s4, moved <- s5, seen <- s6,
  pinned <- s7, anchor <- s8, isAtBottom <- s9, loading <- s10, due <- s11,
  watched <- s12, inBand <- s13, observed <- s14, past <- s15

Reports == INSTANCE UsageReports WITH
  Users <- {"u"}, Visitors <- {"v"}, Nobody <- "nobody", Entries <- SomeEntries,
  Ranges <- SomeRanges, OpenedLists <- SomeLists, MaxRows <- 3, PageSize <- 1,
  log <- s1, sessions <- s2, chatting <- s3, walk <- s4, kept <- s5

Search == INSTANCE UsersSearch WITH
  Texts <- {"", "ada"}, Empty <- "",
  Pages <- [s \in {"", "ada"} |-> IF s = "ada" THEN 2 ELSE 1],
  url <- s1, behind <- s2, text <- s3, timer <- s4, committed <- s5,
  known <- s6, seen <- s7, dirty <- s8, table <- s9

Boxes == INSTANCE ModelsPage WITH
  Models <- Places, Contexts <- {"small", "large"}, Odd <- "odd", None <- "none",
  MaxSaves <- 2,
  stored <- s1, listed <- s2, fetch <- s3, row <- s4, typed <- s5, saves <- s6,
  refused <- s7, upset <- s8, crossed <- s9

\* One model, and a third change, which the exception of BoxesFollow takes.
OneBox == INSTANCE ModelsPage WITH
  Models <- {"m"}, Contexts <- {"small", "large"}, Odd <- "odd", None <- "none",
  MaxSaves <- 3,
  stored <- s1, listed <- s2, fetch <- s3, row <- s4, typed <- s5, saves <- s6,
  refused <- s7, upset <- s8, crossed <- s9

Side == INSTANCE Sidebar WITH
  Chats <- Places, Titles <- {"a", "b"}, Gone <- "gone", Home <- "home", MaxChanges <- 2,
  stored <- s1, listed <- s2, fetch <- s3, shown <- s4, changes <- s5,
  hurried <- s6, opened <- s7, upset <- s8

Account == INSTANCE Devices WITH
  Here <- "here", Others <- Places, MaxSessions <- 4,
  created <- s1, device <- s2, fetch <- s3, access <- s4, list <- s5, live <- s6,
  revoke <- s7, page <- s8, past <- s9

-----------------------------------------------------------------------------
(* The variables that a component has no use for.                          *)

Off == "off"
Rest15 == <<s16>>
Rest10 == <<s11, s12, s13, s14, s15, Rest15>>
Rest9 == <<s10, Rest10>>
Rest8 == <<s9, Rest9>>
Rest7 == <<s8, Rest8>>
Rest6 == <<s7, Rest7>>
Rest5 == <<s6, Rest6>>
Rest0 == <<s1, s2, s3, s4, s5, Rest5>>
Off15 == s16 = Off
Off10 == s11 = Off /\ s12 = Off /\ s13 = Off /\ s14 = Off /\ s15 = Off /\ Off15
Off9 == s10 = Off /\ Off10
Off8 == s9 = Off /\ Off9
Off7 == s8 = Off /\ Off8
Off6 == s7 = Off /\ Off7
Off5 == s6 = Off /\ Off6
Off0 == s1 = Off /\ s2 = Off /\ s3 = Off /\ s4 = Off /\ s5 = Off /\ Off5

IdleLease == Init /\ \A lifetime \in TTLs : ttl <= lifetime

ComponentsInit ==
  \/ part = "lease" /\ Init /\ Off0
  \/ part = "registry" /\ IdleLease /\ Registry!Init /\ Off6
  \/ part = "admin" /\ IdleLease /\ Admin!Init /\ Off10
  \/ part = "web" /\ IdleLease /\ Web!Init
  \/ part = "visit" /\ IdleLease /\ Visit!Init /\ Off7
  \/ part = "lists" /\ IdleLease /\ Lists!Init /\ Off9
  \/ part = "reader" /\ IdleLease /\ Reader!Init /\ Off15
  \/ part = "reports" /\ IdleLease /\ Reports!Init /\ Off5
  \/ part = "search" /\ IdleLease /\ Search!Init /\ Off9
  \/ part = "boxes" /\ IdleLease /\ Boxes!Init /\ Off9 /\ \A m \in Places : s1[m] # "large"
  \/ part = "one box" /\ IdleLease /\ OneBox!Init /\ Off9
  \/ part = "side" /\ IdleLease /\ Side!Init /\ Off8
  \/ part = "account" /\ IdleLease /\ Account!Init /\ Off9

LeaseStep == part = "lease" /\ Next /\ UNCHANGED <<part, Rest0>>
RegistryStep == part = "registry" /\ Registry!Next /\ UNCHANGED <<part, leaseVars, Rest6>>
AdminStep == part = "admin" /\ Admin!Next /\ UNCHANGED <<part, leaseVars, Rest10>>
WebStep == part = "web" /\ Web!Next /\ UNCHANGED <<part, leaseVars>>
VisitStep == part = "visit" /\ Visit!Next /\ UNCHANGED <<part, leaseVars, Rest7>>
ListsStep == part = "lists" /\ Lists!Next /\ UNCHANGED <<part, leaseVars, Rest9>>
ReaderStep == part = "reader" /\ Reader!Next /\ UNCHANGED <<part, leaseVars, Rest15>>
ReportsStep == part = "reports" /\ Reports!Next /\ UNCHANGED <<part, leaseVars, Rest5>>
SearchStep == part = "search" /\ Search!Next /\ UNCHANGED <<part, leaseVars, Rest9>>
BoxesStep == part = "boxes" /\ Boxes!Next /\ UNCHANGED <<part, leaseVars, Rest9>>
OneBoxStep == part = "one box" /\ OneBox!Next /\ UNCHANGED <<part, leaseVars, Rest9>>
SideStep == part = "side" /\ Side!Next /\ UNCHANGED <<part, leaseVars, Rest8>>
AccountStep == part = "account" /\ Account!Next /\ UNCHANGED <<part, leaseVars, Rest9>>

ComponentsNext ==
  \/ LeaseStep \/ RegistryStep \/ AdminStep \/ WebStep
  \/ VisitStep \/ ListsStep \/ ReaderStep \/ ReportsStep
  \/ SearchStep \/ BoxesStep \/ OneBoxStep \/ SideStep
  \/ AccountStep

ComponentsVars == <<part, leaseVars, Rest0>>
ComponentsSpec == ComponentsInit /\ [][ComponentsNext]_ComponentsVars

ASSUME ComponentsAssumption ==
  /\ Registry!SeedAssumption /\ Registry!WritersAssumption
  /\ Admin!BoundAssumption
  /\ Web!WebChatAssumption
  /\ Visit!VisitorsAssumption
  /\ Lists!BoundsAssumption /\ Lists!PageSizeAssumption
  /\ Reader!GeometryAssumption
  /\ Reports!OwnersAssumption /\ Reports!EntriesAssumption
  /\ Reports!SizesAssumption /\ Reports!RangesAssumption
  /\ Search!TextsAssumption
  /\ Boxes!ContextsAssumption /\ Boxes!MaxSavesAssumption
  /\ OneBox!ContextsAssumption /\ OneBox!MaxSavesAssumption
  /\ Side!SidebarAssumption /\ Account!DevicesAssumption

-----------------------------------------------------------------------------
(* Properties: those of the component that runs.                           *)

\* The state of the component that runs stays within its type.
ComponentTypes ==
  /\ TypeOK
  /\ part = "registry" => Registry!TypeOK
  /\ part = "admin" => Admin!TypeOK
  /\ part = "web" => Web!TypeOK
  /\ part = "visit" => Visit!TypeOK
  /\ part = "lists" => Lists!TypeOK
  /\ part = "reader" => Reader!TypeOK
  /\ part = "reports" => Reports!TypeOK
  /\ part = "search" => Search!TypeOK
  /\ part = "boxes" => Boxes!TypeOK
  /\ part = "one box" => OneBox!TypeOK
  /\ part = "side" => Side!TypeOK
  /\ part = "account" => Account!TypeOK

\* ModelRegistry: the API serves with exactly one default model that is available, and no
\* two edits wait for each other.
RegistrySound == part = "registry" => Registry!ServesOneDefault /\ Registry!EditsNeverDeadlock

\* AdminAuth: an administrator's token is redeemed once, a sign-out is final, and no tab
\* presents a token it has seen rotated.
AdminSessionsSound == part = "admin" => Admin!AdminSessionsSound

\* WebChat: the composer is busy only while a send is under way that will end that, and a
\* send that meets no other leaves its text, its draft and its rows in order.
SendsSound == part = "web" => Web!BusyIsReal /\ Web!AloneInOrder

\* Visitors: no chat is left to a session that is not there, or, but for the cases named
\* there, to one that the browser cannot name.
NoChatStranded == part = "visit" => Visit!NoChatStranded

\* ChatPages and Scroll: the pages that were fetched show every row once and without gaps;
\* an answer is followed to its end, older messages keep the place of the others, and the
\* prompt highlighted is the one being read.
ReadingSound ==
  /\ part = "lists" => Lists!PagesSound
  /\ part = "reader" => Reader!ReadingSound

\* UsageReports: the reports agree with each other and with the log, and paging skips no row.
UsageSound == part = "reports" => Reports!UsageSound

\* UsersSearch, ModelsPage, Sidebar and Devices: at rest, what a page shows is what its
\* address says and what the server stores, whatever was sent and loaded in between.
PagesFollow ==
  /\ part = "search" => Search!OneSearch
  /\ part = "boxes" => Boxes!BoxesFollow
  /\ part = "one box" => OneBox!BoxesFollow
  /\ part = "side" => Side!SidebarFollows
  /\ part = "account" => Account!AccountSound
=============================================================================
