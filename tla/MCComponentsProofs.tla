------------------------- MODULE MCComponentsProofs -------------------------
(***************************************************************************)
(* The components that MCComponents runs side by side keep what they       *)
(* promise, for any sets of workers and places.  The lease of a lock is    *)
(* proved here; the others are proved in modules of their own, for every   *)
(* value of all their constants, and those proofs are used here of the     *)
(* instances that the run checks.                                          *)
(***************************************************************************)
EXTENDS MCComponents, TLAPS

-----------------------------------------------------------------------------
(* The lease of a lock.  The arithmetic of the lease is the inductive      *)
(* invariant: how much of the key's lifetime is left, told from the next   *)
(* heartbeat while no extend is under way, from its departure while one is. *)

\* What the lease of one request guarantees while it is at work.
LeaseOf(r) ==
  /\ phase[r] = "idle" => ~flying[r]
  /\ phase[r] = "granted" =>
       /\ owner = r /\ ~flying[r]
       /\ now <= due[r]
       /\ expiry + Wait >= due[r] + ttl
  /\ phase[r] = "working" =>
       /\ owner = r
       /\ now <= beat[r] + Late
       /\ ~flying[r] => expiry + Period + Wait >= beat[r] + ttl
       /\ flying[r] =>
            /\ sent[r] <= now /\ now <= sent[r] + Delay
            /\ beat[r] = sent[r] + Period
            /\ expiry + Period + Wait + Late >= sent[r] + ttl

Leases == Sufficient => \A r \in Requests : LeaseOf(r)

LeaseInv == TypeOK /\ Leases

LEMMA PeriodType ==
  ASSUME TypeOK
  PROVE  Period \in Nat /\ Period >= Second /\ ttl \in Nat /\ ttl > 0 /\ Third \in Nat
<1>1. ttl \in Nat /\ ttl > 0
  BY LeaseAssumption DEF TypeOK
<1>2. ttl \div 3 \in Nat
  BY <1>1, SMT
<1> QED
  BY <1>1, <1>2, LeaseAssumption DEF Period, Third

\* While a request is at work its key is still alive.
LEMMA AliveAtWork ==
  ASSUME TypeOK, Sufficient, NEW r \in Requests, LeaseOf(r), Critical(r)
  PROVE  Held /\ owner = r
<1>1. Period = (IF ttl \div 3 > Second THEN ttl \div 3 ELSE Second)
  BY DEF Period, Third
<1>2. ttl > Wait + Period + Late + Delay
  BY <1>1 DEF Sufficient
<1>3. now < expiry /\ owner = r
  BY <1>2, PeriodType, LeaseAssumption DEF LeaseOf, Critical, TypeOK
<1> QED
  BY <1>3, LeaseAssumption DEF Held

LEMMA LeaseStepTypes == TypeOK /\ [Next]_leaseVars => TypeOK'
<1> SUFFICES ASSUME TypeOK, [Next]_leaseVars PROVE TypeOK'
  OBVIOUS
<1> USE DEF TypeOK, Phases
<1>0. Period \in Nat /\ ttl \in Nat
  BY PeriodType
<1>1. ASSUME NEW r \in Requests, Acquire(r) PROVE TypeOK'
  BY <1>0, <1>1, LeaseAssumption DEF Acquire
<1>2. ASSUME NEW r \in Requests, StartWork(r) PROVE TypeOK'
  BY <1>0, <1>2 DEF StartWork
<1>3. ASSUME NEW r \in Requests, Heartbeat(r) PROVE TypeOK'
  BY <1>0, <1>3 DEF Heartbeat
<1>4. ASSUME NEW r \in Requests, Extend(r) PROVE TypeOK'
  BY <1>0, <1>4 DEF Extend
<1>5. ASSUME NEW r \in Requests, Finish(r) PROVE TypeOK'
  BY <1>5, LeaseAssumption DEF Finish
<1>6. ASSUME NEW r \in Requests, Release(r) PROVE TypeOK'
  BY <1>6 DEF Release
<1>7. ASSUME NEW r \in Requests, Die(r) PROVE TypeOK'
  BY <1>7 DEF Die
<1>8. CASE Tick
  BY <1>8 DEF Tick
<1>9. CASE UNCHANGED leaseVars
  BY <1>9 DEF leaseVars
<1> QED
  BY <1>1, <1>2, <1>3, <1>4, <1>5, <1>6, <1>7, <1>8, <1>9 DEF Next

\* Every step keeps every request's lease.
LEMMA LeasesInductive == LeaseInv /\ TypeOK' /\ [Next]_leaseVars => Leases'
<1> SUFFICES ASSUME LeaseInv, TypeOK', [Next]_leaseVars, Sufficient', NEW q \in Requests
             PROVE  LeaseOf(q)'
  BY DEF Leases
<1>0. ttl' = ttl
  BY DEF Next, leaseVars, Acquire, StartWork, Heartbeat, Extend, Finish, Release, Die, Tick
<1>1. Sufficient /\ Period' = Period
  BY <1>0 DEF Sufficient, Period, Third
<1>2. \A r \in Requests : LeaseOf(r)
  BY <1>1 DEF LeaseInv, Leases
<1>3. \A r \in Requests : Critical(r) => Held /\ owner = r
  BY <1>1, <1>2, AliveAtWork DEF LeaseInv
<1>4. Period \in Nat /\ Period >= Second /\ ttl \in Nat /\ ttl > 0
  BY PeriodType DEF LeaseInv
<1>5. LeaseOf(q) /\ TypeOK
  BY <1>2 DEF LeaseInv
<1> USE LeaseAssumption
<1>a. ASSUME NEW r \in Requests, Acquire(r) PROVE LeaseOf(q)'
  BY <1>0, <1>1, <1>2, <1>3, <1>4, <1>5, <1>a DEF Acquire, LeaseOf, TypeOK, Critical
<1>b. ASSUME NEW r \in Requests, StartWork(r) PROVE LeaseOf(q)'
  BY <1>0, <1>1, <1>2, <1>4, <1>5, <1>b DEF StartWork, LeaseOf, TypeOK
<1>c. ASSUME NEW r \in Requests, Heartbeat(r) PROVE LeaseOf(q)'
  BY <1>0, <1>1, <1>2, <1>4, <1>5, <1>c DEF Heartbeat, LeaseOf, TypeOK
<1>d. ASSUME NEW r \in Requests, Extend(r) PROVE LeaseOf(q)'
  BY <1>0, <1>1, <1>2, <1>3, <1>4, <1>5, <1>d DEF Extend, LeaseOf, TypeOK, Critical
<1>e. ASSUME NEW r \in Requests, Finish(r) PROVE LeaseOf(q)'
  BY <1>0, <1>1, <1>2, <1>4, <1>5, <1>e DEF Finish, LeaseOf, TypeOK
<1>f. ASSUME NEW r \in Requests, Release(r) PROVE LeaseOf(q)'
  BY <1>0, <1>1, <1>2, <1>3, <1>4, <1>5, <1>f DEF Release, LeaseOf, TypeOK, Critical
<1>g. ASSUME NEW r \in Requests, Die(r) PROVE LeaseOf(q)'
  BY <1>0, <1>1, <1>2, <1>4, <1>5, <1>g DEF Die, LeaseOf, TypeOK, Critical
<1>h. CASE Tick
  BY <1>0, <1>1, <1>2, <1>4, <1>5, <1>h DEF Tick, Punctual, LeaseOf, TypeOK
<1>i. CASE UNCHANGED leaseVars
  BY <1>0, <1>1, <1>2, <1>4, <1>5, <1>i DEF leaseVars, LeaseOf, TypeOK
<1> QED
  BY <1>a, <1>b, <1>c, <1>d, <1>e, <1>f, <1>g, <1>h, <1>i DEF Next

LEMMA LeaseInit == Init => LeaseInv
BY LeaseAssumption DEF Init, TypeOK, Phases, LeaseInv, Leases, LeaseOf

LEMMA LeaseSound == LeaseInv => Exclusive
<1> SUFFICES ASSUME LeaseInv, Sufficient, NEW r \in Requests, NEW s \in Requests,
                    Critical(r), Critical(s)
             PROVE  r = s
  BY DEF Exclusive
<1> QED
  BY AliveAtWork DEF LeaseInv, Leases

\* With a sufficient lifetime the heartbeat keeps the lock for its holder, so that
\* two requests never work under it at once (stream() and refreshSummary).
THEOREM LeaseExclusive == Spec => [](TypeOK /\ Exclusive)
<1>1. LeaseInv /\ [Next]_leaseVars => LeaseInv'
  BY LeaseStepTypes, LeasesInductive DEF LeaseInv
<1>2. LeaseInv => TypeOK /\ Exclusive
  BY LeaseSound DEF LeaseInv
<1> QED
  BY <1>1, <1>2, LeaseInit, PTL DEF Spec

-----------------------------------------------------------------------------
(* The instances                                                           *)

Reg == INSTANCE ModelRegistryProofs WITH
  Models <- {"m1", "m2", "m3"}, Seed <- "m1", Edits <- Places, Replicas <- Workers,
  table <- s1, written <- s2, step <- s3, subject <- s4, wish <- s5, found <- s6

\* The chats' summaries, the calls to Ollama and a browser's login are the matter of another
\* run.
Api == INSTANCE ApiProofs WITH
  Tabs <- Places, Calls <- Workers, MaxSessions <- 3,
  tab <- s1, created <- s2, revoked <- s3, expired <- s4, successor <- s5,
  signedOut <- s6, jar <- s7, call <- s8, arriving <- s9, delivered <- s10,
  Cards <- {}, Others <- {}, MaxMessages <- 1, MaxFaults <- 0,
  count <- s1, exists <- s2, summary <- s3, lock <- s4, req <- s5, card <- s6, faults <- s7,
  overlapped <- s8,
  Requests <- Workers, Chats <- {"c"}, VisitorIds <- {"v", "w"},
  visitors <- s1, lapsed <- s2, owner <- s3, cookies <- s4, request <- s5, raced <- s6,
  lost <- s7,
  Kinds <- {}, Replies <- {},
  kind <- s1, at <- s2, timers <- s3, fired <- s4, signal <- s5, listening <- s6,
  aborted <- s7, body <- s8, reply <- s9, pos <- s10, buffer <- s11, lines <- s12,
  said <- s13, outcome <- s14,
  Users <- {"u"}, Guests <- {"v"}, Nobody <- "nobody", Entries <- SomeEntries,
  Ranges <- SomeRanges, OpenedLists <- SomeLists, MaxRows <- 3, PageSize <- 1,
  log <- s1, sessions <- s2, chatting <- s3, walk <- s4, kept <- s5,
  Budget <- 0, row <- s1, login <- s2, replaced <- s3, view <- s4, spent <- s5

\* The pages of the two clients.
Client == INSTANCE ClientProofs WITH
  Here <- "here", Others <- Places, MaxSessions <- 4,
  created <- s1, device <- s2, fetch <- s3, access <- s4, list <- s5, live <- s6,
  revoke <- s7, page <- s8, past <- s9,
  Texts <- {"", "ada"}, Empty <- "",
  Pages <- [s \in {"", "ada"} |-> IF s = "ada" THEN 2 ELSE 1],
  url <- s1, behind <- s2, text <- s3, timer <- s4, committed <- s5,
  known <- s6, seen <- s7, dirty <- s8, table <- s9,
  Models <- Places, Contexts <- {"small", "large"}, Odd <- "odd", None <- "none",
  MaxSaves <- 2,
  stored <- s1, listed <- s2, row <- s4, typed <- s5, saves <- s6, refused <- s7,
  upset <- s8, crossed <- s9,
  Chats <- Places, Titles <- {"a", "b"}, Gone <- "gone", Home <- "home", MaxChanges <- 2,
  shown <- s4, changes <- s5, hurried <- s6, opened <- s7,
  Sends <- Workers, Rooms <- {"c1", "c2"}, Opened <- "c1",
  scope <- s1, going <- s2, mounted <- s3, chats <- s4, composed <- s5, restored <- s6,
  drafts <- s7, step <- s8, from <- s9, place <- s10, controller <- s11,
  aborted <- s12, begun <- s13, heard <- s14, pending <- s15, overlapped <- s16,
  MaxRows <- 4, MaxTouches <- 2, Asked <- {0, 1, 9}, DefaultPageSize <- 2,
  MaxPageSize <- 3,
  kind <- s1, limit <- s2, time <- s3, archived <- s4, added <- s5, touches <- s6,
  pages <- s7, fetching <- s8, origin <- s9,
  Prompts <- {-2, 0, 2}, View <- 2, Threshold <- 1, Band <- 2, Older <- 2, MaxBelow <- 4,
  OpenedChats <- SomeChats,
  above <- s1, below <- s2, bubble <- s3, top <- s4, moved <- s5, height <- s6, pinned <- s7,
  anchor <- s8, isAtBottom <- s9, loading <- s10, due <- s11, watched <- s12, inBand <- s13,
  observed <- s14, history <- s15

\* The same with one model and one more change to it.
Single == INSTANCE ClientProofs WITH
  Here <- "here", Others <- Places, MaxSessions <- 4,
  created <- s1, device <- s2, fetch <- s3, access <- s4, list <- s5, live <- s6,
  revoke <- s7, page <- s8, past <- s9,
  Texts <- {"", "ada"}, Empty <- "",
  Pages <- [s \in {"", "ada"} |-> IF s = "ada" THEN 2 ELSE 1],
  url <- s1, behind <- s2, text <- s3, timer <- s4, committed <- s5,
  known <- s6, seen <- s7, dirty <- s8, table <- s9,
  Models <- {"m"}, Contexts <- {"small", "large"}, Odd <- "odd", None <- "none",
  MaxSaves <- 3,
  stored <- s1, listed <- s2, row <- s4, typed <- s5, saves <- s6, refused <- s7,
  upset <- s8, crossed <- s9,
  Chats <- Places, Titles <- {"a", "b"}, Gone <- "gone", Home <- "home", MaxChanges <- 2,
  shown <- s4, changes <- s5, hurried <- s6, opened <- s7,
  Sends <- Workers, Rooms <- {"c1", "c2"}, Opened <- "c1",
  scope <- s1, going <- s2, mounted <- s3, chats <- s4, composed <- s5, restored <- s6,
  drafts <- s7, step <- s8, from <- s9, place <- s10, controller <- s11,
  aborted <- s12, begun <- s13, heard <- s14, pending <- s15, overlapped <- s16,
  MaxRows <- 4, MaxTouches <- 2, Asked <- {0, 1, 9}, DefaultPageSize <- 2,
  MaxPageSize <- 3,
  kind <- s1, limit <- s2, time <- s3, archived <- s4, added <- s5, touches <- s6,
  pages <- s7, fetching <- s8, origin <- s9,
  Prompts <- {-2, 0, 2}, View <- 2, Threshold <- 1, Band <- 2, Older <- 2, MaxBelow <- 4,
  OpenedChats <- SomeChats,
  above <- s1, below <- s2, bubble <- s3, top <- s4, moved <- s5, height <- s6, pinned <- s7,
  anchor <- s8, isAtBottom <- s9, loading <- s10, due <- s11, watched <- s12, inBand <- s13,
  observed <- s14, history <- s15

\* The instance the run checks and the one that is proved about are the same.
LEMMA SameRegistry ==
  /\ Registry!Init <=> Reg!Init
  /\ Registry!Next <=> Reg!Next
  /\ Registry!TypeOK <=> Reg!TypeOK
  /\ Registry!ServesOneDefault <=> Reg!ServesOneDefault
  /\ Registry!EditsNeverDeadlock <=> Reg!EditsNeverDeadlock
  /\ Registry!SeedAssumption <=> Reg!SeedAssumption
  /\ Registry!WritersAssumption <=> Reg!WritersAssumption
  /\ Registry!registryVars = Reg!registryVars
<1>1. Registry!Init <=> Reg!Init
  BY DEF Registry!Writers, Reg!Writers, Registry!Absent, Reg!Absent, Registry!Listed,
         Reg!Listed, Registry!NoRows, Reg!NoRows, Registry!SeedersWish, Reg!SeedersWish,
         Registry!Init, Reg!Init
<1>2. Registry!Next <=> Reg!Next
  BY DEF Registry!Writers, Reg!Writers, Registry!Absent, Reg!Absent, Registry!Listed,
         Reg!Listed, Registry!Choice, Reg!Choice, Registry!NoRows, Reg!NoRows,
         Registry!Open, Reg!Open, Registry!Locked, Reg!Locked, Registry!Free, Reg!Free,
         Registry!Version, Reg!Version, Registry!Write, Reg!Write, Registry!HasDefault,
         Reg!HasDefault, Registry!PassesCheck, Reg!PassesCheck, Registry!SeedersWish,
         Reg!SeedersWish, Registry!Goto, Reg!Goto, Registry!Serving, Reg!Serving,
         Registry!Rest, Reg!Rest, Registry!Leave, Reg!Leave, Registry!Abort, Reg!Abort,
         Registry!Create, Reg!Create, Registry!MayBecome, Reg!MayBecome, Registry!Judge,
         Reg!Judge, Registry!Edited, Reg!Edited, Registry!Update, Reg!Update,
         Registry!ToClear, Reg!ToClear, Registry!Scan, Reg!Scan, Registry!Clear, Reg!Clear,
         Registry!Rivals, Reg!Rivals, Registry!Undecided, Reg!Undecided,
         Registry!IndexAdmits, Reg!IndexAdmits, Registry!SetDefault, Reg!SetDefault,
         Registry!Published, Reg!Published, Registry!Commit, Reg!Commit, Registry!Fail,
         Reg!Fail, Registry!FindDefault, Reg!FindDefault, Registry!Upsert, Reg!Upsert,
         Registry!Stop, Reg!Stop, Registry!Next, Reg!Next
<1>3. Registry!ServesOneDefault <=> Reg!ServesOneDefault
  BY DEF Registry!HasDefault, Reg!HasDefault, Registry!Serving, Reg!Serving,
         Registry!ServesOneDefault, Reg!ServesOneDefault
<1>4. Registry!EditsNeverDeadlock <=> Reg!EditsNeverDeadlock
  BY DEF Registry!Writers, Reg!Writers, Registry!Open, Reg!Open, Registry!Locked,
         Reg!Locked, Registry!Free, Reg!Free, Registry!Undecided, Reg!Undecided,
         Registry!Blocked, Reg!Blocked, Registry!EditsNeverDeadlock, Reg!EditsNeverDeadlock
<1>5. Registry!SeedAssumption <=> Reg!SeedAssumption
  BY DEF Registry!SeedAssumption, Reg!SeedAssumption
<1>6. Registry!WritersAssumption <=> Reg!WritersAssumption
  BY DEF Registry!WritersAssumption, Reg!WritersAssumption
<1>7. Registry!registryVars = Reg!registryVars
  BY DEF Registry!registryVars, Reg!registryVars
<1>8. Registry!TypeOK <=> Reg!TypeOK
  BY DEF Registry!Writers, Reg!Writers, Registry!Row, Reg!Row, Registry!Choice, Reg!Choice,
         Registry!TypeOK, Reg!TypeOK
<1> QED
  BY <1>1, <1>2, <1>3, <1>4, <1>5, <1>6, <1>7, <1>8

LEMMA SameAdmin ==
  /\ Admin!Init <=> Api!Admin!Init
  /\ Admin!Next <=> Api!Admin!Next
  /\ Admin!TypeOK <=> Api!Admin!TypeOK
  /\ Admin!SignOutIsFinal <=> Api!Admin!SignOutIsFinal
  /\ Admin!NoTokenPresentedAgain <=> Api!Admin!NoTokenPresentedAgain
  /\ Admin!RedeemedOnce <=> Api!Admin!RedeemedOnce
  /\ Admin!BoundAssumption <=> Api!Admin!BoundAssumption
  /\ Admin!adminVars = Api!Admin!adminVars
<1>1. Admin!Init <=> Api!Admin!Init
  BY DEF Admin!Sessions, Api!Admin!Sessions, Admin!None, Api!Admin!None, Admin!Idle,
         Api!Admin!Idle, Admin!Init, Api!Admin!Init
<1>2. Admin!Next <=> Api!Admin!Next
  BY DEF Admin!Sessions, Api!Admin!Sessions, Admin!None, Api!Admin!None, Admin!sessions,
         Api!Admin!sessions, Admin!browser, Api!Admin!browser, Admin!Idle, Api!Admin!Idle,
         Admin!Live, Api!Admin!Live, Admin!Create, Api!Admin!Create, Admin!Cookies,
         Api!Admin!Cookies, Admin!Set, Api!Admin!Set, Admin!SignIn, Api!Admin!SignIn,
         Admin!Guard, Api!Admin!Guard, Admin!Revoke, Api!Admin!Revoke, Admin!Check,
         Api!Admin!Check, Admin!StillUnrevoked, Api!Admin!StillUnrevoked, Admin!Rotate,
         Api!Admin!Rotate, Admin!Expire, Api!Admin!Expire, Admin!Start, Api!Admin!Start,
         Admin!Succeeds, Api!Admin!Succeeds, Admin!Lost, Api!Admin!Lost, Admin!Asking,
         Api!Admin!Asking, Admin!Refreshing, Api!Admin!Refreshing, Admin!Unauthorized,
         Api!Admin!Unauthorized, Admin!Ask, Api!Admin!Ask, Admin!Party, Api!Admin!Party,
         Admin!Resend, Api!Admin!Resend, Admin!Refreshed, Api!Admin!Refreshed,
         Admin!RefreshFails, Api!Admin!RefreshFails, Admin!SignedIn, Api!Admin!SignedIn,
         Admin!SignInFails, Api!Admin!SignInFails, Admin!AccessLapses,
         Api!Admin!AccessLapses, Admin!Act, Api!Admin!Act, Admin!Next, Api!Admin!Next
<1>3. Admin!SignOutIsFinal <=> Api!Admin!SignOutIsFinal
  BY DEF Admin!SignOutIsFinal, Api!Admin!SignOutIsFinal
<1>4. Admin!NoTokenPresentedAgain <=> Api!Admin!NoTokenPresentedAgain
  BY DEF Admin!NoTokenPresentedAgain, Api!Admin!NoTokenPresentedAgain
<1>7. Admin!RedeemedOnce <=> Api!Admin!RedeemedOnce
  BY DEF Admin!Sessions, Api!Admin!Sessions, Admin!RedeemedOnce, Api!Admin!RedeemedOnce,
         Admin!Cardinality, Api!Admin!Cardinality
<1>5. Admin!BoundAssumption <=> Api!Admin!BoundAssumption
  BY DEF Admin!BoundAssumption, Api!Admin!BoundAssumption
<1>6. Admin!adminVars = Api!Admin!adminVars
  BY DEF Admin!sessions, Api!Admin!sessions, Admin!browser, Api!Admin!browser,
         Admin!adminVars, Api!Admin!adminVars
<1>8. Admin!TypeOK <=> Api!Admin!TypeOK
  BY DEF Admin!Sessions, Api!Admin!Sessions, Admin!None, Api!Admin!None, Admin!Tokens,
         Api!Admin!Tokens, Admin!Asking, Api!Admin!Asking, Admin!TypeOK, Api!Admin!TypeOK
<1> QED
  BY <1>1, <1>2, <1>3, <1>4, <1>5, <1>6, <1>7, <1>8

LEMMA SameVisit ==
  /\ Visit!Init <=> Api!Visit!Init
  /\ Visit!Next <=> Api!Visit!Next
  /\ Visit!TypeOK <=> Api!Visit!TypeOK
  /\ Visit!NoChatStranded <=> Api!Visit!NoChatStranded
  /\ Visit!VisitorsAssumption <=> Api!Visit!VisitorsAssumption
  /\ Visit!visitorVars = Api!Visit!visitorVars
<1>1. Visit!Init <=> Api!Visit!Init
  BY DEF Visit!Nobody, Api!Visit!Nobody, Visit!Idle, Api!Visit!Idle, Visit!Init,
         Api!Visit!Init
<1>2. Visit!Next <=> Api!Visit!Next
  BY DEF Visit!User, Api!Visit!User, Visit!Nobody, Api!Visit!Nobody, Visit!Kinds,
         Api!Visit!Kinds, Visit!past, Api!Visit!past, Visit!Idle, Api!Visit!Idle, Visit!Send,
         Api!Visit!Send, Visit!Resolved, Api!Visit!Resolved, Visit!Active, Api!Visit!Active,
         Visit!Resolve, Api!Visit!Resolve, Visit!Touch, Api!Visit!Touch, Visit!NeedsSession,
         Api!Visit!NeedsSession, Visit!EnsureAnonymous, Api!Visit!EnsureAnonymous,
         Visit!CreateChat, Api!Visit!CreateChat, Visit!Read, Api!Visit!Read, Visit!SignIn,
         Api!Visit!SignIn, Visit!SignOut, Api!Visit!SignOut, Visit!Did, Api!Visit!Did,
         Visit!Deliver, Api!Visit!Deliver, Visit!Lose, Api!Visit!Lose, Visit!Lapse,
         Api!Visit!Lapse, Visit!Next, Api!Visit!Next
<1>3. Visit!NoChatStranded <=> Api!Visit!NoChatStranded
  BY DEF Visit!Held, Api!Visit!Held, Visit!NoChatStranded, Api!Visit!NoChatStranded
<1>4. Visit!VisitorsAssumption <=> Api!Visit!VisitorsAssumption
  BY DEF Visit!User, Api!Visit!User, Visit!Nobody, Api!Visit!Nobody,
         Visit!VisitorsAssumption, Api!Visit!VisitorsAssumption
<1>5. Visit!visitorVars = Api!Visit!visitorVars
  BY DEF Visit!past, Api!Visit!past, Visit!visitorVars, Api!Visit!visitorVars
<1>6. Visit!TypeOK <=> Api!Visit!TypeOK
  BY DEF Visit!User, Api!Visit!User, Visit!Nobody, Api!Visit!Nobody, Visit!Kinds,
         Api!Visit!Kinds, Visit!TypeOK, Api!Visit!TypeOK
<1> QED
  BY <1>1, <1>2, <1>3, <1>4, <1>5, <1>6

LEMMA SameWeb ==
  /\ Web!Init <=> Client!Web!Init
  /\ Web!Next <=> Client!Web!Next
  /\ Web!TypeOK <=> Client!Web!TypeOK
  /\ Web!BusyIsReal <=> Client!Web!BusyIsReal
  /\ Web!AloneInOrder <=> Client!Web!AloneInOrder
  /\ Web!WebChatAssumption <=> Client!Web!WebChatAssumption
  /\ Web!webVars = Client!Web!webVars
<1>1. Web!Init <=> Client!Web!Init
  BY DEF Web!None, Client!Web!None, Web!NewPage, Client!Web!NewPage, Web!Keys,
         Client!Web!Keys, Web!NoPending, Client!Web!NoPending, Web!Init, Client!Web!Init
<1>2. Web!Next <=> Client!Web!Next
  BY DEF Web!None, Client!Web!None, Web!NewPage, Client!Web!NewPage, Web!Keys,
         Client!Web!Keys, Web!composer, Client!Web!composer, Web!page, Client!Web!page,
         Web!stream, Client!Web!stream, Web!InFlight, Client!Web!InFlight, Web!UnderWay,
         Client!Web!UnderWay, Web!NoPending, Client!Web!NoPending, Web!isBusy,
         Client!Web!isBusy, Web!SetPending, Client!Web!SetPending, Web!Write,
         Client!Web!Write, Web!Carried, Client!Web!Carried, Web!ChangeKey,
         Client!Web!ChangeKey, Web!Navigate, Client!Web!Navigate, Web!CommitNavigation,
         Client!Web!CommitNavigation, Web!StartSend, Client!Web!StartSend, Web!Submit,
         Client!Web!Submit, Web!GiveBack, Client!Web!GiveBack, Web!CreateFails,
         Client!Web!CreateFails, Web!Created, Client!Web!Created, Web!Listed,
         Client!Web!Listed, Web!Settles, Client!Web!Settles, Web!CsrfAnswers,
         Client!Web!CsrfAnswers, Web!ServerBegins, Client!Web!ServerBegins, Web!ResponseOk,
         Client!Web!ResponseOk, Web!CallFails, Client!Web!CallFails, Web!StreamCloses,
         Client!Web!StreamCloses, Web!Hears, Client!Web!Hears, Web!HearStarted,
         Client!Web!HearStarted, Web!HearSummarizing, Client!Web!HearSummarizing,
         Web!HearDelta, Client!Web!HearDelta, Web!HearDone, Client!Web!HearDone,
         Web!HearError, Client!Web!HearError, Web!Cleared, Client!Web!Cleared,
         Web!Refetched, Client!Web!Refetched, Web!Abort, Client!Web!Abort, Web!Stop,
         Client!Web!Stop, Web!Dismiss, Client!Web!Dismiss, Web!Unmount, Client!Web!Unmount,
         Web!Next, Client!Web!Next
<1>3. Web!TypeOK <=> Client!Web!TypeOK
  BY DEF Web!None, Client!Web!None, Web!NewPage, Client!Web!NewPage, Web!Keys,
         Client!Web!Keys, Web!InFlight, Client!Web!InFlight, Web!UnderWay,
         Client!Web!UnderWay, Web!Steps, Client!Web!Steps, Web!TypeOK, Client!Web!TypeOK
<1>4. Web!BusyIsReal <=> Client!Web!BusyIsReal
  BY DEF Web!InFlight, Client!Web!InFlight, Web!BusyIsReal, Client!Web!BusyIsReal
<1>5. Web!AloneInOrder <=> Client!Web!AloneInOrder
  BY DEF Web!None, Client!Web!None, Web!NewPage, Client!Web!NewPage, Web!Keys,
         Client!Web!Keys, Web!InFlight, Client!Web!InFlight, Web!isBusy, Client!Web!isBusy,
         Web!AloneInOrder, Client!Web!AloneInOrder
<1>6. Web!WebChatAssumption <=> Client!Web!WebChatAssumption
  BY DEF Web!None, Client!Web!None, Web!NewPage, Client!Web!NewPage, Web!Keys,
         Client!Web!Keys, Web!WebChatAssumption, Client!Web!WebChatAssumption
<1>7. Web!webVars = Client!Web!webVars
  BY DEF Web!webVars, Client!Web!webVars
<1> QED
  BY <1>1, <1>2, <1>3, <1>4, <1>5, <1>6, <1>7

LEMMA SameSearch ==
  /\ Search!Init <=> Client!Search!Init
  /\ Search!Next <=> Client!Search!Next
  /\ Search!TypeOK <=> Client!Search!TypeOK
  /\ Search!OneSearch <=> Client!Search!OneSearch
  /\ Search!TextsAssumption <=> Client!Search!TextsAssumption
  /\ Search!searchVars = Client!Search!searchVars
<1>1. Search!Init <=> Client!Search!Init
  BY DEF Search!Addresses, Client!Search!Addresses, Search!Nowhere, Client!Search!Nowhere,
         Search!Init, Client!Search!Init
<1>2. Search!Next <=> Client!Search!Next
  BY DEF Search!Addresses, Client!Search!Addresses, Search!Home, Client!Search!Home,
         Search!Nowhere, Client!Search!Nowhere, Search!Type, Client!Search!Type,
         Search!Turn, Client!Search!Turn, Search!Updated, Client!Search!Updated,
         Search!Filter, Client!Search!Filter, Search!Navigate, Client!Search!Navigate,
         Search!FollowMenu, Client!Search!FollowMenu, Search!Back, Client!Search!Back,
         Search!Armed, Client!Search!Armed, Search!Render, Client!Search!Render,
         Search!Settle, Client!Search!Settle, Search!Arrive, Client!Search!Arrive,
         Search!Next, Client!Search!Next
<1>3. Search!TypeOK <=> Client!Search!TypeOK
  BY DEF Search!Addresses, Client!Search!Addresses, Search!Nowhere, Client!Search!Nowhere,
         Search!TypeOK, Client!Search!TypeOK
<1>4. Search!OneSearch <=> Client!Search!OneSearch
  BY DEF Search!Settled, Client!Search!Settled, Search!OneSearch, Client!Search!OneSearch
<1>5. Search!TextsAssumption <=> Client!Search!TextsAssumption
  BY DEF Search!TextsAssumption, Client!Search!TextsAssumption
<1>6. Search!searchVars = Client!Search!searchVars
  BY DEF Search!searchVars, Client!Search!searchVars
<1> QED
  BY <1>1, <1>2, <1>3, <1>4, <1>5, <1>6

LEMMA SameBoxes ==
  /\ Boxes!Init <=> Client!Boxes!Init
  /\ Boxes!Next <=> Client!Boxes!Next
  /\ Boxes!TypeOK <=> Client!Boxes!TypeOK
  /\ Boxes!BoxesFollow <=> Client!Boxes!BoxesFollow
  /\ Boxes!ContextsAssumption <=> Client!Boxes!ContextsAssumption
  /\ Boxes!MaxSavesAssumption <=> Client!Boxes!MaxSavesAssumption
  /\ Boxes!pageVars = Client!Boxes!pageVars
<1>1. Boxes!Init <=> Client!Boxes!Init
  BY DEF Boxes!Listed, Client!Boxes!Listed, Boxes!Idle, Client!Boxes!Idle, Boxes!Init,
         Client!Boxes!Init
<1>2. Boxes!Next <=> Client!Boxes!Next
  BY DEF Boxes!Listed, Client!Boxes!Listed, Boxes!Idle, Client!Boxes!Idle, Boxes!Loading,
         Client!Boxes!Loading, Boxes!Type, Client!Boxes!Type, Boxes!Sent, Client!Boxes!Sent,
         Boxes!Restores, Client!Boxes!Restores, Boxes!Reset, Client!Boxes!Reset,
         Boxes!SaveContext, Client!Boxes!SaveContext, Boxes!AddModel, Client!Boxes!AddModel,
         Boxes!Arrive, Client!Boxes!Arrive, Boxes!Reloaded, Client!Boxes!Reloaded,
         Boxes!Settle, Client!Boxes!Settle, Boxes!LastUpdate, Client!Boxes!LastUpdate,
         Boxes!End, Client!Boxes!End, Boxes!Answered, Client!Boxes!Answered, Boxes!Serve,
         Client!Boxes!Serve, Boxes!Refuse, Client!Boxes!Refuse, Boxes!ReadList,
         Client!Boxes!ReadList, Boxes!Elsewhere, Client!Boxes!Elsewhere, Boxes!ListFails,
         Client!Boxes!ListFails, Boxes!Next, Client!Boxes!Next
<1>3. Boxes!TypeOK <=> Client!Boxes!TypeOK
  BY DEF Boxes!TypeOK, Client!Boxes!TypeOK
<1>4. Boxes!BoxesFollow <=> Client!Boxes!BoxesFollow
  BY DEF Boxes!AtRest, Client!Boxes!AtRest, Boxes!BoxesFollow, Client!Boxes!BoxesFollow
<1>5. Boxes!ContextsAssumption <=> Client!Boxes!ContextsAssumption
  BY DEF Boxes!ContextsAssumption, Client!Boxes!ContextsAssumption
<1>6. Boxes!MaxSavesAssumption <=> Client!Boxes!MaxSavesAssumption
  BY DEF Boxes!MaxSavesAssumption, Client!Boxes!MaxSavesAssumption
<1>7. Boxes!pageVars = Client!Boxes!pageVars
  BY DEF Boxes!pageVars, Client!Boxes!pageVars
<1> QED
  BY <1>1, <1>2, <1>3, <1>4, <1>5, <1>6, <1>7

LEMMA SameOneBox ==
  /\ OneBox!Init <=> Single!Boxes!Init
  /\ OneBox!Next <=> Single!Boxes!Next
  /\ OneBox!TypeOK <=> Single!Boxes!TypeOK
  /\ OneBox!BoxesFollow <=> Single!Boxes!BoxesFollow
  /\ OneBox!ContextsAssumption <=> Single!Boxes!ContextsAssumption
  /\ OneBox!MaxSavesAssumption <=> Single!Boxes!MaxSavesAssumption
  /\ OneBox!pageVars = Single!Boxes!pageVars
<1>1. OneBox!Init <=> Single!Boxes!Init
  BY DEF OneBox!Listed, Single!Boxes!Listed, OneBox!Idle, Single!Boxes!Idle, OneBox!Init,
         Single!Boxes!Init
<1>2. OneBox!Next <=> Single!Boxes!Next
  BY DEF OneBox!Listed, Single!Boxes!Listed, OneBox!Idle, Single!Boxes!Idle, OneBox!Loading,
         Single!Boxes!Loading, OneBox!Type, Single!Boxes!Type, OneBox!Sent,
         Single!Boxes!Sent, OneBox!Restores, Single!Boxes!Restores, OneBox!Reset,
         Single!Boxes!Reset, OneBox!SaveContext, Single!Boxes!SaveContext, OneBox!AddModel,
         Single!Boxes!AddModel, OneBox!Arrive, Single!Boxes!Arrive, OneBox!Reloaded,
         Single!Boxes!Reloaded, OneBox!Settle, Single!Boxes!Settle, OneBox!LastUpdate,
         Single!Boxes!LastUpdate, OneBox!End, Single!Boxes!End, OneBox!Answered,
         Single!Boxes!Answered, OneBox!Serve, Single!Boxes!Serve, OneBox!Refuse,
         Single!Boxes!Refuse, OneBox!ReadList, Single!Boxes!ReadList, OneBox!Elsewhere,
         Single!Boxes!Elsewhere, OneBox!ListFails, Single!Boxes!ListFails, OneBox!Next,
         Single!Boxes!Next
<1>3. OneBox!TypeOK <=> Single!Boxes!TypeOK
  BY DEF OneBox!TypeOK, Single!Boxes!TypeOK
<1>4. OneBox!BoxesFollow <=> Single!Boxes!BoxesFollow
  BY DEF OneBox!AtRest, Single!Boxes!AtRest, OneBox!BoxesFollow, Single!Boxes!BoxesFollow
<1>5. OneBox!ContextsAssumption <=> Single!Boxes!ContextsAssumption
  BY DEF OneBox!ContextsAssumption, Single!Boxes!ContextsAssumption
<1>6. OneBox!MaxSavesAssumption <=> Single!Boxes!MaxSavesAssumption
  BY DEF OneBox!MaxSavesAssumption, Single!Boxes!MaxSavesAssumption
<1>7. OneBox!pageVars = Single!Boxes!pageVars
  BY DEF OneBox!pageVars, Single!Boxes!pageVars
<1> QED
  BY <1>1, <1>2, <1>3, <1>4, <1>5, <1>6, <1>7

LEMMA SameSide ==
  /\ Side!Init <=> Client!Side!Init
  /\ Side!Next <=> Client!Side!Next
  /\ Side!TypeOK <=> Client!Side!TypeOK
  /\ Side!SidebarFollows <=> Client!Side!SidebarFollows
  /\ Side!SidebarAssumption <=> Client!Side!SidebarAssumption
  /\ Side!sidebarVars = Client!Side!sidebarVars
<1>1. Side!Init <=> Client!Side!Init
  BY DEF Side!Table, Client!Side!Table, Side!In, Client!Side!In, Side!Idle,
         Client!Side!Idle, Side!Init, Client!Side!Init
<1>2. Side!Next <=> Client!Side!Next
  BY DEF Side!In, Client!Side!In, Side!Idle, Client!Side!Idle, Side!Loading,
         Client!Side!Loading, Side!UnderWay, Client!Side!UnderWay, Side!Active,
         Client!Side!Active, Side!Follow, Client!Side!Follow, Side!Send, Client!Side!Send,
         Side!Rename, Client!Side!Rename, Side!Delete, Client!Side!Delete, Side!Answered,
         Client!Side!Answered, Side!Serve, Client!Side!Serve, Side!Refuse,
         Client!Side!Refuse, Side!Refetch, Client!Side!Refetch, Side!OnSuccess,
         Client!Side!OnSuccess, Side!ReadList, Client!Side!ReadList, Side!Arrive,
         Client!Side!Arrive, Side!ListFails, Client!Side!ListFails, Side!End,
         Client!Side!End, Side!Next, Client!Side!Next
<1>3. Side!TypeOK <=> Client!Side!TypeOK
  BY DEF Side!Table, Client!Side!Table, Side!TypeOK, Client!Side!TypeOK
<1>4. Side!SidebarFollows <=> Client!Side!SidebarFollows
  BY DEF Side!AtRest, Client!Side!AtRest, Side!LastGiven, Client!Side!LastGiven,
         Side!ListFollows, Client!Side!ListFollows, Side!DeletedIsLeft,
         Client!Side!DeletedIsLeft, Side!SidebarFollows, Client!Side!SidebarFollows
<1>5. Side!SidebarAssumption <=> Client!Side!SidebarAssumption
  BY DEF Side!SidebarAssumption, Client!Side!SidebarAssumption
<1>6. Side!sidebarVars = Client!Side!sidebarVars
  BY DEF Side!sidebarVars, Client!Side!sidebarVars
<1> QED
  BY <1>1, <1>2, <1>3, <1>4, <1>5, <1>6

LEMMA SameAccount ==
  /\ Account!Init <=> Client!Account!Init
  /\ Account!Next <=> Client!Account!Next
  /\ Account!TypeOK <=> Client!Account!TypeOK
  /\ Account!AccountSound <=> Client!Account!AccountSound
  /\ Account!DevicesAssumption <=> Client!Account!DevicesAssumption
  /\ Account!devicesVars = Client!Account!devicesVars
<1>1. Account!Init <=> Client!Account!Init
  BY DEF Account!Sessions, Client!Account!Sessions, Account!None, Client!Account!None,
         Account!Idle, Client!Account!Idle, Account!Init, Client!Account!Init
<1>2. Account!Next <=> Client!Account!Next
  BY DEF Account!Devices, Client!Account!Devices, Account!Sessions, Client!Account!Sessions,
         Account!None, Client!Account!None, Account!Idle, Client!Account!Idle, Account!Of,
         Client!Account!Of, Account!Create, Client!Account!Create, Account!SignIn,
         Client!Account!SignIn, Account!Rotate, Client!Account!Rotate, Account!SignOut,
         Client!Account!SignOut, Account!Loading, Client!Account!Loading, Account!Refetch,
         Client!Account!Refetch, Account!Guarded, Client!Account!Guarded, Account!PassGuard,
         Client!Account!PassGuard, Account!ListSessions, Client!Account!ListSessions,
         Account!Revoke, Client!Account!Revoke, Account!PassRevokeGuard,
         Client!Account!PassRevokeGuard, Account!Revoked, Client!Account!Revoked,
         Account!RevokeOwnedSession, Client!Account!RevokeOwnedSession, Account!Refresh,
         Client!Account!Refresh, Account!SignOutAll, Client!Account!SignOutAll,
         Account!Next, Client!Account!Next
<1>3. Account!TypeOK <=> Client!Account!TypeOK
  BY DEF Account!Devices, Client!Account!Devices, Account!Sessions, Client!Account!Sessions,
         Account!None, Client!Account!None, Account!Listing, Client!Account!Listing,
         Account!TypeOK, Client!Account!TypeOK
<1>4. Account!AccountSound <=> Client!Account!AccountSound
  BY DEF Account!AtRest, Client!Account!AtRest, Account!DevicesListed,
         Client!Account!DevicesListed, Account!OwnSessionKept,
         Client!Account!OwnSessionKept, Account!AccountSound, Client!Account!AccountSound
<1>5. Account!DevicesAssumption <=> Client!Account!DevicesAssumption
  BY DEF Account!DevicesAssumption, Client!Account!DevicesAssumption
<1>6. Account!devicesVars = Client!Account!devicesVars
  BY DEF Account!devicesVars, Client!Account!devicesVars
<1> QED
  BY <1>1, <1>2, <1>3, <1>4, <1>5, <1>6

LEMMA SameUsage ==
  /\ Reports!Init <=> Api!Usage!Init
  /\ Reports!Next <=> Api!Usage!Next
  /\ Reports!TypeOK <=> Api!Usage!TypeOK
  /\ Reports!UsageSound <=> Api!Usage!UsageSound
  /\ Reports!OwnersAssumption <=> Api!Usage!OwnersAssumption
  /\ Reports!EntriesAssumption <=> Api!Usage!EntriesAssumption
  /\ Reports!SizesAssumption <=> Api!Usage!SizesAssumption
  /\ Reports!RangesAssumption <=> Api!Usage!RangesAssumption
  /\ Reports!reportsVars = Api!Usage!reportsVars
<1>1. Reports!Init <=> Api!Usage!Init
  BY DEF Reports!Rows, Api!Usage!Rows, Reports!NoPage, Api!Usage!NoPage, Reports!AllTime,
         Api!Usage!AllTime, Reports!NoWalk, Api!Usage!NoWalk, Reports!Init, Api!Usage!Init
<1>2. Reports!Next <=> Api!Usage!Next
  BY Zenon DEF Reports!Owners, Api!Usage!Owners, Reports!Rows, Api!Usage!Rows, Reports!AllTime,
         Api!Usage!AllTime, Reports!NoWalk, Api!Usage!NoWalk, Reports!NoPage,
         Api!Usage!NoPage, Reports!InWhere, Api!Usage!InWhere, Reports!Logged,
         Api!Usage!Logged, Reports!Record, Api!Usage!Record, Reports!CreateChat,
         Api!Usage!CreateChat, Reports!Reassign, Api!Usage!Reassign, Reports!Skip,
         Api!Usage!Skip, Reports!Newer, Api!Usage!Newer, Reports!Page, Api!Usage!Page,
         Reports!Read, Api!Usage!Read, Reports!Open, Api!Usage!Open, Reports!ReadOn,
         Api!Usage!ReadOn, Reports!Ceil, Api!Usage!Ceil, Reports!Count, Api!Usage!Count,
         Reports!ShowKept, Api!Usage!ShowKept, Reports!Beside, Api!Usage!Beside,
         Reports!TurnPage, Api!Usage!TurnPage, Reports!Refocus, Api!Usage!Refocus,
         Reports!Age, Api!Usage!Age, Reports!Next, Api!Usage!Next, Reports!Cardinality,
         Api!Usage!Cardinality
<1>3. Reports!TypeOK <=> Api!Usage!TypeOK
  BY DEF Reports!Owners, Api!Usage!Owners, Reports!Rows, Api!Usage!Rows, Reports!AllTime,
         Api!Usage!AllTime, Reports!TypeOK, Api!Usage!TypeOK
<1>4. Reports!UsageSound <=> Api!Usage!UsageSound
  BY Zenon DEF Reports!Owners, Api!Usage!Owners, Reports!AllTime, Api!Usage!AllTime,
         Reports!NoWalk, Api!Usage!NoWalk, Reports!InWhere, Api!Usage!InWhere,
         Reports!Logged, Api!Usage!Logged, Reports!Units, Api!Usage!Units, Reports!Sum,
         Api!Usage!Sum, Reports!Report, Api!Usage!Report, Reports!Totals, Api!Usage!Totals,
         Reports!Groups, Api!Usage!Groups, Reports!Breakdown, Api!Usage!Breakdown,
         Reports!Detail, Api!Usage!Detail, Reports!InRangeSql, Api!Usage!InRangeSql,
         Reports!Aggregate, Api!Usage!Aggregate, Reports!HasActivity, Api!Usage!HasActivity,
         Reports!ListUsers, Api!Usage!ListUsers, Reports!ListVisitors,
         Api!Usage!ListVisitors, Reports!AllRequests, Api!Usage!AllRequests, Reports!AllInput,
         Api!Usage!AllInput, Reports!AllOutput, Api!Usage!AllOutput, Reports!ReportsAgree,
         Api!Usage!ReportsAgree, Reports!NoRowSkipped, Api!Usage!NoRowSkipped,
         Reports!UsageSound, Api!Usage!UsageSound, Reports!Cardinality,
         Api!Usage!Cardinality
<1>5. Reports!OwnersAssumption <=> Api!Usage!OwnersAssumption
  BY DEF Reports!OwnersAssumption, Api!Usage!OwnersAssumption
<1>6. Reports!EntriesAssumption <=> Api!Usage!EntriesAssumption
  BY DEF Reports!EntriesAssumption, Api!Usage!EntriesAssumption
<1>7. Reports!SizesAssumption <=> Api!Usage!SizesAssumption
  BY DEF Reports!SizesAssumption, Api!Usage!SizesAssumption
<1>8. Reports!RangesAssumption <=> Api!Usage!RangesAssumption
  BY DEF Reports!Owners, Api!Usage!Owners, Reports!Times, Api!Usage!Times,
         Reports!RangesAssumption, Api!Usage!RangesAssumption
<1>9. Reports!reportsVars = Api!Usage!reportsVars
  BY DEF Reports!reportsVars, Api!Usage!reportsVars
<1> QED
  BY <1>1, <1>2, <1>3, <1>4, <1>5, <1>6, <1>7, <1>8, <1>9

LEMMA SameLists ==
  /\ Lists!Init <=> Client!Lists!Init
  /\ Lists!Next <=> Client!Lists!Next
  /\ Lists!TypeOK <=> Client!Lists!TypeOK
  /\ Lists!PagesSound <=> Client!Lists!PagesSound
  /\ Lists!BoundsAssumption <=> Client!Lists!BoundsAssumption
  /\ Lists!PageSizeAssumption <=> Client!Lists!PageSizeAssumption
  /\ Lists!pagesVars = Client!Lists!pagesVars
<1>1. Lists!Init <=> Client!Lists!Init
  BY Zenon DEF Lists!Top, Client!Lists!Top, Lists!PageSize, Client!Lists!PageSize, Lists!Fresh,
         Client!Lists!Fresh, Lists!NoFetch, Client!Lists!NoFetch, Lists!Init,
         Client!Lists!Init
<1>2. Lists!Next <=> Client!Lists!Next
  BY Zenon DEF Lists!Rows, Client!Lists!Rows, Lists!Top, Client!Lists!Top, Lists!table,
         Client!Lists!table, Lists!Fresh, Client!Lists!Fresh, Lists!NoFetch,
         Client!Lists!NoFetch, Lists!Visible, Client!Lists!Visible, Lists!Newer,
         Client!Lists!Newer, Lists!After, Client!Lists!After, Lists!Take, Client!Lists!Take,
         Lists!Oldest, Client!Lists!Oldest, Lists!NextCursor, Client!Lists!NextCursor,
         Lists!Page, Client!Lists!Page, Lists!Touch, Client!Lists!Touch, Lists!Now,
         Client!Lists!Now, Lists!Create, Client!Lists!Create, Lists!TouchChat,
         Client!Lists!TouchChat, Lists!Bump, Client!Lists!Bump, Lists!Delete,
         Client!Lists!Delete, Lists!Archive, Client!Lists!Archive, Lists!More,
         Client!Lists!More, Lists!FetchNextPage, Client!Lists!FetchNextPage, Lists!Refetch,
         Client!Lists!Refetch, Lists!Arrived, Client!Lists!Arrived, Lists!PageArrives,
         Client!Lists!PageArrives, Lists!FetchFails, Client!Lists!FetchFails, Lists!Next,
         Client!Lists!Next,
         Lists!Cardinality, Client!Lists!Cardinality
<1>3. Lists!TypeOK <=> Client!Lists!TypeOK
  BY Zenon DEF Lists!Rows, Client!Lists!Rows, Lists!Top, Client!Lists!Top, Lists!Past,
         Client!Lists!Past, Lists!Pages, Client!Lists!Pages, Lists!TypeOK,
         Client!Lists!TypeOK
<1>4. Lists!PagesSound <=> Client!Lists!PagesSound
  BY Zenon DEF Lists!Top, Client!Lists!Top, Lists!Visible, Client!Lists!Visible, Lists!More,
         Client!Lists!More, Lists!Screen, Client!Lists!Screen, Lists!PageOf,
         Client!Lists!PageOf, Lists!Complete, Client!Lists!Complete, Lists!ListComplete,
         Client!Lists!ListComplete, Lists!ListedOnce, Client!Lists!ListedOnce,
         Lists!Gapless, Client!Lists!Gapless, Lists!PagesSound, Client!Lists!PagesSound
<1>5. Lists!BoundsAssumption <=> Client!Lists!BoundsAssumption
  BY Zenon DEF Lists!BoundsAssumption, Client!Lists!BoundsAssumption
<1>6. Lists!PageSizeAssumption <=> Client!Lists!PageSizeAssumption
  BY Zenon DEF Lists!PageSizeAssumption, Client!Lists!PageSizeAssumption
<1>7. Lists!pagesVars = Client!Lists!pagesVars
  BY Zenon DEF Lists!table, Client!Lists!table, Lists!pagesVars, Client!Lists!pagesVars
<1> QED
  BY <1>1, <1>2, <1>3, <1>4, <1>5, <1>6, <1>7

LEMMA SameReader ==
  /\ Reader!Init <=> Client!Reader!Init
  /\ Reader!Next <=> Client!Reader!Next
  /\ Reader!TypeOK <=> Client!Reader!TypeOK
  /\ Reader!ReadingSound <=> Client!Reader!ReadingSound
  /\ Reader!GeometryAssumption <=> Client!Reader!GeometryAssumption
  /\ Reader!scrollVars = Client!Reader!scrollVars
<1>1. Reader!Init <=> Client!Reader!Init
  BY Zenon DEF Reader!Pending, Client!Reader!Pending, Reader!Nobody, Client!Reader!Nobody,
         Reader!NoAnchor, Client!Reader!NoAnchor, Reader!Unseen, Client!Reader!Unseen,
         Reader!NoPlace, Client!Reader!NoPlace, Reader!Rendered, Client!Reader!Rendered,
         Reader!Init, Client!Reader!Init
<1>2. Reader!Next <=> Client!Reader!Next
  BY Zenon DEF Reader!Pending, Client!Reader!Pending, Reader!Nobody, Client!Reader!Nobody,
         Reader!NoAnchor, Client!Reader!NoAnchor, Reader!Unseen, Client!Reader!Unseen,
         Reader!NoPlace, Client!Reader!NoPlace, Reader!content, Client!Reader!content,
         Reader!refs, Client!Reader!refs, Reader!highlight, Client!Reader!highlight,
         Reader!Height, Client!Reader!Height, Reader!Floor, Client!Reader!Floor,
         Reader!Clamp, Client!Reader!Clamp, Reader!NearBottom, Client!Reader!NearBottom,
         Reader!Place, Client!Reader!Place, Reader!Rendered, Client!Reader!Rendered,
         Reader!PlaceOf, Client!Reader!PlaceOf, Reader!Begins, Client!Reader!Begins,
         Reader!MovesTo, Client!Reader!MovesTo, Reader!HasGone, Client!Reader!HasGone,
         Reader!Note, Client!Reader!Note, Reader!Stream, Client!Reader!Stream,
         Reader!EndTurn, Client!Reader!EndTurn, Reader!RowsArrive, Client!Reader!RowsArrive,
         Reader!Read, Client!Reader!Read, Reader!Kept, Client!Reader!Kept, Reader!LoadOlder,
         Client!Reader!LoadOlder, Reader!OlderArrive, Client!Reader!OlderArrive,
         Reader!OlderFail, Client!Reader!OlderFail, Reader!ScrollToBottom,
         Client!Reader!ScrollToBottom, Reader!ScrollToPrompt, Client!Reader!ScrollToPrompt,
         Reader!Reset, Client!Reader!Reset, Reader!Remount, Client!Reader!Remount,
         Reader!RunEffects, Client!Reader!RunEffects, Reader!PinnedNow,
         Client!Reader!PinnedNow, Reader!Settled, Client!Reader!Settled, Reader!InBand,
         Client!Reader!InBand, Reader!LastOf, Client!Reader!LastOf, Reader!Present,
         Client!Reader!Present, Reader!Before, Client!Reader!Before, Reader!LeavesDown,
         Client!Reader!LeavesDown, Reader!HasEntry, Client!Reader!HasEntry, Reader!CameIn,
         Client!Reader!CameIn, Reader!Observe, Client!Reader!Observe, Reader!Skips,
         Client!Reader!Skips, Reader!Frame, Client!Reader!Frame, Reader!Next,
         Client!Reader!Next
<1>3. Reader!TypeOK <=> Client!Reader!TypeOK
  BY Zenon DEF Reader!Pending, Client!Reader!Pending, Reader!Nobody, Client!Reader!Nobody,
         Reader!NoAnchor, Client!Reader!NoAnchor, Reader!Unseen, Client!Reader!Unseen,
         Reader!Offsets, Client!Reader!Offsets, Reader!TypeOK, Client!Reader!TypeOK
<1>4. Reader!ReadingSound <=> Client!Reader!ReadingSound
  BY Zenon DEF Reader!Pending, Client!Reader!Pending, Reader!Nobody, Client!Reader!Nobody,
         Reader!NoPlace, Client!Reader!NoPlace, Reader!Height, Client!Reader!Height,
         Reader!Floor, Client!Reader!Floor, Reader!Clamp, Client!Reader!Clamp,
         Reader!NearBottom, Client!Reader!NearBottom, Reader!Place, Client!Reader!Place,
         Reader!Rendered, Client!Reader!Rendered, Reader!PlaceOf, Client!Reader!PlaceOf,
         Reader!LastOf, Client!Reader!LastOf, Reader!AtRest, Client!Reader!AtRest,
         Reader!FollowsTheEnd, Client!Reader!FollowsTheEnd, Reader!KeepsThePlace,
         Client!Reader!KeepsThePlace, Reader!Spaced, Client!Reader!Spaced,
         Reader!LastCrossed, Client!Reader!LastCrossed, Reader!HighlightsTheRead,
         Client!Reader!HighlightsTheRead, Reader!ReadingSound, Client!Reader!ReadingSound
<1>5. Reader!GeometryAssumption <=> Client!Reader!GeometryAssumption
  BY Zenon DEF Reader!GeometryAssumption, Client!Reader!GeometryAssumption
<1>6. Reader!scrollVars = Client!Reader!scrollVars
  BY Zenon DEF Reader!content, Client!Reader!content, Reader!refs, Client!Reader!refs,
         Reader!highlight, Client!Reader!highlight, Reader!scrollVars,
         Client!Reader!scrollVars
<1> QED
  BY <1>1, <1>2, <1>3, <1>4, <1>5, <1>6

-----------------------------------------------------------------------------
(* What the components keep                                                *)

\* A component that runs has run from its initial state, in steps of its own.
LEMMA Begins ==
  ASSUME ComponentsInit
  PROVE  /\ part = "registry" => Registry!Init
         /\ part = "admin" => Admin!Init
         /\ part = "visit" => Visit!Init
         /\ part = "lists" => Lists!Init
         /\ part = "reader" => Reader!Init
         /\ part = "reports" => Reports!Init
         /\ part = "web" => Web!Init
         /\ part = "search" => Search!Init
         /\ part = "boxes" => Boxes!Init
         /\ part = "one box" => OneBox!Init
         /\ part = "side" => Side!Init
         /\ part = "account" => Account!Init
         /\ Init
BY DEF ComponentsInit, IdleLease

LEMMA Runs ==
  ASSUME [ComponentsNext]_ComponentsVars
  PROVE  /\ UNCHANGED part
         /\ part = "registry" => [Registry!Next]_(Registry!registryVars)
         /\ part = "admin" => [Admin!Next]_(Admin!adminVars)
         /\ part = "visit" => [Visit!Next]_(Visit!visitorVars)
         /\ part = "lists" => [Lists!Next]_(Lists!pagesVars)
         /\ part = "reader" => [Reader!Next]_(Reader!scrollVars)
         /\ part = "reports" => [Reports!Next]_(Reports!reportsVars)
         /\ part = "web" => [Web!Next]_(Web!webVars)
         /\ part = "search" => [Search!Next]_(Search!searchVars)
         /\ part = "boxes" => [Boxes!Next]_(Boxes!pageVars)
         /\ part = "one box" => [OneBox!Next]_(OneBox!pageVars)
         /\ part = "side" => [Side!Next]_(Side!sidebarVars)
         /\ part = "account" => [Account!Next]_(Account!devicesVars)
         /\ [Next]_leaseVars
<1>1. CASE UNCHANGED ComponentsVars
  BY <1>1 DEF ComponentsVars, leaseVars, Rest0, Rest5, Rest6, Rest7, Rest8, Rest9, Rest10, Rest15,
     Registry!registryVars, Admin!adminVars, Admin!sessions, Admin!browser, Visit!visitorVars,
     Visit!past,
     Search!searchVars, Boxes!pageVars, OneBox!pageVars, Side!sidebarVars,
     Account!devicesVars, Web!webVars, Reports!reportsVars, Lists!pagesVars, Lists!table,
     Reader!scrollVars, Reader!content, Reader!refs, Reader!highlight
<1>2. CASE ComponentsNext
  BY <1>2 DEF ComponentsNext, LeaseStep, RegistryStep, AdminStep, WebStep, VisitStep, ListsStep,
     ReaderStep, ReportsStep, SearchStep, BoxesStep, OneBoxStep, SideStep, AccountStep
<1> QED
  BY <1>1, <1>2

\* What each component keeps, whichever of them runs.
LEMMA RegistryKept == ComponentsSpec => [](part = "registry" => Reg!EInv)
<1> DEFINE Kept == part = "registry" => Reg!EInv
<1>0. Reg!SeedAssumption /\ Reg!WritersAssumption
  BY ComponentsAssumption, SameRegistry
<1>1. ComponentsInit => Kept
  BY <1>0, Begins, SameRegistry, Reg!InitRegistry, Reg!EditsInit
<1>2. Kept /\ [ComponentsNext]_ComponentsVars => Kept'
  <2> SUFFICES ASSUME Kept, [ComponentsNext]_ComponentsVars, part' = "registry"
               PROVE  Reg!EInv'
    OBVIOUS
  <2>1. Reg!EInv /\ [Reg!Next]_(Reg!registryVars)
    BY Runs, SameRegistry
       DEF Registry!registryVars, Reg!registryVars
  <2>2. Reg!RInv
    BY <2>1 DEF Reg!EInv
  <2>3. Reg!RInv'
    BY <1>0, <2>1, <2>2, Reg!RegistryKeeps
  <2> QED
    BY <1>0, <2>1, <2>3, Reg!EditsKeep
<1> QED
  BY <1>1, <1>2, PTL DEF ComponentsSpec

LEMMA AdminKept == ComponentsSpec => [](part = "admin" => Api!AdminInv)
<1> DEFINE Kept == part = "admin" => Api!AdminInv
<1>0. Api!Admin!BoundAssumption
  BY ComponentsAssumption, SameAdmin
<1>1. ComponentsInit => Kept
  BY <1>0, Begins, SameAdmin, Api!AdminInit
<1>2. Kept /\ [ComponentsNext]_ComponentsVars => Kept'
  <2> SUFFICES ASSUME Kept, [ComponentsNext]_ComponentsVars, part' = "admin"
               PROVE  Api!AdminInv'
    OBVIOUS
  <2>1. Api!AdminInv /\ [Api!Admin!Next]_(Api!Admin!adminVars)
    BY Runs, SameAdmin
       DEF Admin!adminVars, Api!Admin!adminVars, Admin!sessions, Api!Admin!sessions,
           Admin!browser, Api!Admin!browser
  <2> QED
    BY <1>0, <2>1, Api!AdminKeeps
<1> QED
  BY <1>1, <1>2, PTL DEF ComponentsSpec

LEMMA VisitKept == ComponentsSpec => [](part = "visit" => Api!VisitInv)
<1> DEFINE Kept == part = "visit" => Api!VisitInv
<1>0. Api!Visit!VisitorsAssumption
  BY ComponentsAssumption, SameVisit
<1>1. ComponentsInit => Kept
  BY <1>0, Begins, SameVisit, Api!VisitInit
<1>2. Kept /\ [ComponentsNext]_ComponentsVars => Kept'
  <2> SUFFICES ASSUME Kept, [ComponentsNext]_ComponentsVars, part' = "visit"
               PROVE  Api!VisitInv'
    OBVIOUS
  <2>1. Api!VisitInv /\ [Api!Visit!Next]_(Api!Visit!visitorVars)
    BY Runs, SameVisit
       DEF Visit!visitorVars, Api!Visit!visitorVars, Visit!past, Api!Visit!past
  <2> QED
    BY <1>0, <2>1, Api!VisitKeeps
<1> QED
  BY <1>1, <1>2, PTL DEF ComponentsSpec

LEMMA UsageKept == ComponentsSpec => [](part = "reports" => Api!UsageInv)
<1> DEFINE Kept == part = "reports" => Api!UsageInv
<1>0. Api!UsageAssumption
  BY ComponentsAssumption, SameUsage DEF Api!UsageAssumption
<1>1. ComponentsInit => Kept
  BY <1>0, Begins, SameUsage, Api!UsageInit
<1>2. Kept /\ [ComponentsNext]_ComponentsVars => Kept'
  <2> SUFFICES ASSUME Kept, [ComponentsNext]_ComponentsVars, part' = "reports"
               PROVE  Api!UsageInv'
    OBVIOUS
  <2>1. Api!UsageInv /\ [Api!Usage!Next]_(Api!Usage!reportsVars)
    BY Runs, SameUsage
       DEF Reports!reportsVars, Api!Usage!reportsVars
  <2> QED
    BY <1>0, <2>1, Api!UsageKeeps
<1> QED
  BY <1>1, <1>2, PTL DEF ComponentsSpec

LEMMA WebKept == ComponentsSpec => [](part = "web" => Client!WebInv)
<1> DEFINE Kept == part = "web" => Client!WebInv
<1>0. Client!Web!WebChatAssumption
  BY ComponentsAssumption, SameWeb
<1>1. ComponentsInit => Kept
  BY <1>0, Begins, SameWeb, Client!WebInit
<1>2. Kept /\ [ComponentsNext]_ComponentsVars => Kept'
  <2> SUFFICES ASSUME Kept, [ComponentsNext]_ComponentsVars, part' = "web"
               PROVE  Client!WebInv'
    OBVIOUS
  <2>1. Client!WebInv /\ [Client!Web!Next]_(Client!Web!webVars)
    BY Runs, SameWeb
       DEF Web!webVars, Client!Web!webVars
  <2> QED
    BY <1>0, <2>1, Client!WebKeeps
<1> QED
  BY <1>1, <1>2, PTL DEF ComponentsSpec

LEMMA ListsKept == ComponentsSpec => [](part = "lists" => Client!ListsInv)
<1> DEFINE Kept == part = "lists" => Client!ListsInv
<1>0. Client!PageBounds
  BY ComponentsAssumption, SameLists DEF Client!PageBounds
<1>1. ComponentsInit => Kept
  BY <1>0, Begins, SameLists, Client!ListsInit
<1>2. Kept /\ [ComponentsNext]_ComponentsVars => Kept'
  <2> SUFFICES ASSUME Kept, [ComponentsNext]_ComponentsVars, part' = "lists"
               PROVE  Client!ListsInv'
    OBVIOUS
  <2>1. Client!ListsInv /\ [Client!Lists!Next]_(Client!Lists!pagesVars)
    BY Runs, SameLists
       DEF Lists!pagesVars, Client!Lists!pagesVars, Lists!table, Client!Lists!table
  <2> QED
    BY <1>0, <2>1, Client!ListsKeep
<1> QED
  BY <1>1, <1>2, PTL DEF ComponentsSpec

LEMMA ReaderKept == ComponentsSpec => [](part = "reader" => Client!ReaderInv)
<1> DEFINE Kept == part = "reader" => Client!ReaderInv
<1>0. Client!Reader!GeometryAssumption
  BY ComponentsAssumption, SameReader
<1>1. ComponentsInit => Kept
  BY <1>0, Begins, SameReader, Client!ReaderInit
<1>2. Kept /\ [ComponentsNext]_ComponentsVars => Kept'
  <2> SUFFICES ASSUME Kept, [ComponentsNext]_ComponentsVars, part' = "reader"
               PROVE  Client!ReaderInv'
    OBVIOUS
  <2>1. Client!ReaderInv /\ [Client!Reader!Next]_(Client!Reader!scrollVars)
    BY Runs, SameReader
       DEF Reader!scrollVars, Client!Reader!scrollVars, Reader!content,
           Client!Reader!content, Reader!refs, Client!Reader!refs, Reader!highlight,
           Client!Reader!highlight
  <2> QED
    BY <1>0, <2>1, Client!ReaderKeeps
<1> QED
  BY <1>1, <1>2, PTL DEF ComponentsSpec

LEMMA SearchKept == ComponentsSpec => [](part = "search" => Client!SearchInv)
<1> DEFINE Kept == part = "search" => Client!SearchInv
<1>0. Client!Search!TextsAssumption
  BY ComponentsAssumption, SameSearch
<1>1. ComponentsInit => Kept
  BY <1>0, Begins, SameSearch, Client!SearchInit
<1>2. Kept /\ [ComponentsNext]_ComponentsVars => Kept'
  <2> SUFFICES ASSUME Kept, [ComponentsNext]_ComponentsVars, part' = "search"
               PROVE  Client!SearchInv'
    OBVIOUS
  <2>1. Client!SearchInv /\ [Client!Search!Next]_(Client!Search!searchVars)
    BY Runs, SameSearch
       DEF Search!searchVars, Client!Search!searchVars
  <2> QED
    BY <1>0, <2>1, Client!SearchKeeps
<1> QED
  BY <1>1, <1>2, PTL DEF ComponentsSpec

LEMMA BoxesKept == ComponentsSpec => [](part = "boxes" => Client!BoxInv)
<1> DEFINE Kept == part = "boxes" => Client!BoxInv
<1>0. Client!Boxes!ContextsAssumption /\ Client!Boxes!MaxSavesAssumption
  BY ComponentsAssumption, SameBoxes
<1>1. ComponentsInit => Kept
  BY <1>0, Begins, SameBoxes, Client!BoxInit
<1>2. Kept /\ [ComponentsNext]_ComponentsVars => Kept'
  <2> SUFFICES ASSUME Kept, [ComponentsNext]_ComponentsVars, part' = "boxes"
               PROVE  Client!BoxInv'
    OBVIOUS
  <2>1. Client!BoxInv /\ [Client!Boxes!Next]_(Client!Boxes!pageVars)
    BY Runs, SameBoxes
       DEF Boxes!pageVars, Client!Boxes!pageVars
  <2> QED
    BY <1>0, <2>1, Client!BoxKeeps
<1> QED
  BY <1>1, <1>2, PTL DEF ComponentsSpec

LEMMA OneBoxKept == ComponentsSpec => [](part = "one box" => Single!BoxInv)
<1> DEFINE Kept == part = "one box" => Single!BoxInv
<1>0. Single!Boxes!ContextsAssumption /\ Single!Boxes!MaxSavesAssumption
  BY ComponentsAssumption, SameOneBox
<1>1. ComponentsInit => Kept
  BY <1>0, Begins, SameOneBox, Single!BoxInit
<1>2. Kept /\ [ComponentsNext]_ComponentsVars => Kept'
  <2> SUFFICES ASSUME Kept, [ComponentsNext]_ComponentsVars, part' = "one box"
               PROVE  Single!BoxInv'
    OBVIOUS
  <2>1. Single!BoxInv /\ [Single!Boxes!Next]_(Single!Boxes!pageVars)
    BY Runs, SameOneBox
       DEF OneBox!pageVars, Single!Boxes!pageVars
  <2> QED
    BY <1>0, <2>1, Single!BoxKeeps
<1> QED
  BY <1>1, <1>2, PTL DEF ComponentsSpec

LEMMA SideKept == ComponentsSpec => [](part = "side" => Client!SideInv)
<1> DEFINE Kept == part = "side" => Client!SideInv
<1>0. Client!Side!SidebarAssumption
  BY ComponentsAssumption, SameSide
<1>1. ComponentsInit => Kept
  BY <1>0, Begins, SameSide, Client!SideInit
<1>2. Kept /\ [ComponentsNext]_ComponentsVars => Kept'
  <2> SUFFICES ASSUME Kept, [ComponentsNext]_ComponentsVars, part' = "side"
               PROVE  Client!SideInv'
    OBVIOUS
  <2>1. Client!SideInv /\ [Client!Side!Next]_(Client!Side!sidebarVars)
    BY Runs, SameSide
       DEF Side!sidebarVars, Client!Side!sidebarVars
  <2> QED
    BY <1>0, <2>1, Client!SideKeeps
<1> QED
  BY <1>1, <1>2, PTL DEF ComponentsSpec

LEMMA AccountKept == ComponentsSpec => [](part = "account" => Client!DevicesInv)
<1> DEFINE Kept == part = "account" => Client!DevicesInv
<1>0. Client!Account!DevicesAssumption
  BY ComponentsAssumption, SameAccount
<1>1. ComponentsInit => Kept
  BY <1>0, Begins, SameAccount, Client!DevicesInit
<1>2. Kept /\ [ComponentsNext]_ComponentsVars => Kept'
  <2> SUFFICES ASSUME Kept, [ComponentsNext]_ComponentsVars, part' = "account"
               PROVE  Client!DevicesInv'
    OBVIOUS
  <2>1. Client!DevicesInv /\ [Client!Account!Next]_(Client!Account!devicesVars)
    BY Runs, SameAccount
       DEF Account!devicesVars, Client!Account!devicesVars
  <2> QED
    BY <1>0, <2>1, Client!DevicesKeep
<1> QED
  BY <1>1, <1>2, PTL DEF ComponentsSpec

LEMMA LeasesKept == ComponentsSpec => []LeaseInv
<1>1. ComponentsInit => LeaseInv
  BY Begins, LeaseInit DEF LeaseInv
<1>2. LeaseInv /\ [ComponentsNext]_ComponentsVars => LeaseInv'
  BY Runs, LeaseStepTypes, LeasesInductive DEF LeaseInv
<1> QED
  BY <1>1, <1>2, PTL DEF ComponentsSpec

\* No two requests work under one lock, whatever else runs (stream() and refreshSummary).
THEOREM LocksExclude == ComponentsSpec => []Exclusive
<1>1. LeaseInv => Exclusive
  BY LeaseSound
<1> QED
  BY <1>1, LeasesKept, PTL

\* The API serves with exactly one available default model, and no two edits of models
\* wait for each other: model-administration.service.ts, applyDefault of
\* models.repository.ts, and the seeders.
THEOREM RegistryStaysSound == ComponentsSpec => []RegistrySound
<1>1. (part = "registry" => Reg!EInv) => RegistrySound
  BY SameRegistry, Reg!RegistryServes, Reg!SomeEditMoves DEF RegistrySound, Reg!EInv
<1> QED
  BY <1>1, RegistryKept, PTL

\* An administrator's refresh token is redeemed once, a sign-out is final, and no tab
\* presents a token it has seen rotated: admin-sessions.repository.ts and the admin client.
THEOREM AdminSessionsStaySound == ComponentsSpec => []AdminSessionsSound
<1>1. (part = "admin" => Api!AdminInv) => AdminSessionsSound
  BY SameAdmin, Api!AdminSound
     DEF AdminSessionsSound, Admin!AdminSessionsSound, Api!Admin!AdminSessionsSound
<1> QED
  BY <1>1, AdminKept, PTL

\* No chat of a visitor is left to a session that the browser has lost, unless the answer
\* with its cookie was, its requests overlapped or its time is over: the middleware,
\* ensureAnonymous, and the sign-in that takes a visitor's chats over.
THEOREM VisitorsKeepTheirChats == ComponentsSpec => []NoChatStranded
<1>1. (part = "visit" => Api!VisitInv) => NoChatStranded
  BY SameVisit, Api!VisitSound DEF NoChatStranded
<1> QED
  BY <1>1, VisitKept, PTL

\* What administrators see of the usage log is what was logged, and paging through it skips
\* nothing, but for what was kept from before the first page: usage.repository.ts, the SQL
\* of the lists and the admin client's pages.
THEOREM UsageStaysSound == ComponentsSpec => []UsageSound
<1>0. Api!UsageAssumption
  BY ComponentsAssumption, SameUsage DEF Api!UsageAssumption
<1>1. (part = "reports" => Api!UsageInv) => UsageSound
  BY <1>0, SameUsage, Api!ReportsSound DEF UsageSound
<1> QED
  BY <1>1, UsageKept, PTL

\* The composer is busy only while a send runs that will end that, and a send that meets no other
\* leaves its text, its draft and its rows in order: composer.tsx, chat-page.tsx and
\* use-chat-stream.ts.
THEOREM SendsStaySound == ComponentsSpec => []SendsSound
<1>1. (part = "web" => Client!WebInv) => SendsSound
  BY SameWeb, Client!WebSound DEF SendsSound
<1> QED
  BY <1>1, WebKept, PTL

\* Pages fetched one after the other while the rows change show every row once and without
\* gaps, and a reader of a conversation keeps the place that was being read: ChatsService.list
\* and .get, useInfiniteQuery, use-scroll-tracking.ts and message-list.tsx.
THEOREM ReadingStaysSound == ComponentsSpec => []ReadingSound
<1>0. Client!PageBounds /\ Client!Reader!GeometryAssumption
  BY ComponentsAssumption, SameLists, SameReader DEF Client!PageBounds
<1>1. (part = "lists" => Client!ListsInv) => (part = "lists" => Lists!PagesSound)
  BY <1>0, SameLists, Client!ListsSound
<1>2. (part = "reader" => Client!ReaderInv) => (part = "reader" => Reader!ReadingSound)
  BY <1>0, SameReader, Client!ReaderSound
<1>3. /\ part = "lists" => Lists!PagesSound
      /\ part = "reader" => Reader!ReadingSound
      => ReadingSound
  BY DEF ReadingSound
<1> QED
  BY <1>1, <1>2, <1>3, ListsKept, ReaderKept, PTL

\* At rest, what a page shows is what its address says and what the server stores,
\* whatever was sent, loaded and answered in between: users-page.tsx, models-page.tsx,
\* chat-sidebar.tsx and account-page.tsx.
THEOREM PagesAllFollow == ComponentsSpec => []PagesFollow
<1>1. (part = "search" => Client!SearchInv) => (part = "search" => Search!OneSearch)
  BY SameSearch, Client!SearchSound
<1>2. (part = "boxes" => Client!BoxInv) => (part = "boxes" => Boxes!BoxesFollow)
  BY SameBoxes, Client!BoxSound
<1>3. (part = "one box" => Single!BoxInv) => (part = "one box" => OneBox!BoxesFollow)
  BY SameOneBox, Single!BoxSound
<1>4. (part = "side" => Client!SideInv) => (part = "side" => Side!SidebarFollows)
  BY SameSide, Client!SideSound
<1>5. (part = "account" => Client!DevicesInv) => (part = "account" => Account!AccountSound)
  BY SameAccount, Client!DevicesSound
<1>6. /\ part = "search" => Search!OneSearch
      /\ part = "boxes" => Boxes!BoxesFollow
      /\ part = "one box" => OneBox!BoxesFollow
      /\ part = "side" => Side!SidebarFollows
      /\ part = "account" => Account!AccountSound
      => PagesFollow
  BY DEF PagesFollow
<1> QED
  BY <1>1, <1>2, <1>3, <1>4, <1>5, <1>6, SearchKept, BoxesKept, OneBoxKept, SideKept,
     AccountKept, PTL

\* Every component stays within its type, whichever of them runs: the sets of states, steps
\* and answers that the modules name are all that the code can come to.
THEOREM TypesStay == ComponentsSpec => []ComponentTypes
<1>1. LeaseInv => TypeOK
  BY DEF LeaseInv
<1>2. (part = "registry" => Reg!EInv) => (part = "registry" => Registry!TypeOK)
  BY SameRegistry DEF Reg!EInv, Reg!RInv
<1>3. (part = "admin" => Api!AdminInv) => (part = "admin" => Admin!TypeOK)
  BY SameAdmin DEF Api!AdminInv
<1>4. (part = "web" => Client!WebInv) => (part = "web" => Web!TypeOK)
  BY SameWeb, Client!WebTyped
<1>5. (part = "visit" => Api!VisitInv) => (part = "visit" => Visit!TypeOK)
  BY SameVisit DEF Api!VisitInv
<1>6. (part = "lists" => Client!ListsInv) => (part = "lists" => Lists!TypeOK)
  BY SameLists DEF Client!ListsInv
<1>7. (part = "reader" => Client!ReaderInv) => (part = "reader" => Reader!TypeOK)
  BY SameReader DEF Client!ReaderInv
<1>8. (part = "reports" => Api!UsageInv) => (part = "reports" => Reports!TypeOK)
  BY SameUsage DEF Api!UsageInv, Api!UsageTyped
<1>9. (part = "search" => Client!SearchInv) => (part = "search" => Search!TypeOK)
  BY SameSearch, Client!SearchTyped
<1>10. (part = "boxes" => Client!BoxInv) => (part = "boxes" => Boxes!TypeOK)
  BY SameBoxes, Client!BoxesTyped
<1>11. (part = "one box" => Single!BoxInv) => (part = "one box" => OneBox!TypeOK)
  BY SameOneBox, Single!BoxesTyped
<1>12. (part = "side" => Client!SideInv) => (part = "side" => Side!TypeOK)
  BY SameSide, Client!SideTyped
<1>13. (part = "account" => Client!DevicesInv) => (part = "account" => Account!TypeOK)
  BY SameAccount DEF Client!DevicesInv
<1>14. /\ TypeOK
       /\ part = "registry" => Registry!TypeOK
       /\ part = "admin" => Admin!TypeOK
       /\ part = "web" => Web!TypeOK
       /\ part = "visit" => Visit!TypeOK
       /\ part = "lists" => Lists!TypeOK
       /\ part = "reader" => Reader!TypeOK
       /\ part = "reports" => Reports!TypeOK
       /\ part = "search" => Search!TypeOK
       /\ part = "boxes" => Boxes!TypeOK
       /\ part = "one box" => OneBox!TypeOK
       /\ part = "side" => Side!TypeOK
       /\ part = "account" => Account!TypeOK
       => ComponentTypes
  BY DEF ComponentTypes
<1> QED
  BY <1>1, <1>2, <1>3, <1>4, <1>5, <1>6, <1>7, <1>8, <1>9, <1>10, <1>11, <1>12, <1>13, <1>14,
     LeasesKept, RegistryKept, AdminKept, WebKept, VisitKept, ListsKept, ReaderKept, UsageKept,
     SearchKept, BoxesKept, OneBoxKept, SideKept, AccountKept, PTL
=============================================================================
