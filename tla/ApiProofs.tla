----------------------------- MODULE ApiProofs ------------------------------
(***************************************************************************)
(* What five services of the API promise, for every value of their         *)
(* constants: the administrators' sessions, the summaries of chats, the    *)
(* chats of visitors, the calls to Ollama, and the reports on usage; and   *)
(* what a browser keeps of its user's login.                               *)
(***************************************************************************)
EXTENDS Naturals, Sequences, FiniteSets, FiniteSetTheorems, FunctionTheorems,
        SequenceTheorems, WellFoundedInduction, TLAPS

-----------------------------------------------------------------------------
(* Administrators' sessions                                                *)

CONSTANTS Tabs, Calls, MaxSessions
VARIABLES tab, created, revoked, expired, successor, signedOut, jar, call, arriving, delivered

Admin == INSTANCE AdminAuth

Records == [at : {"idle", "sent", "guarded", "back", "waiting"} \cup Admin!Asking,
            token : Admin!Tokens, again : BOOLEAN, signOut : BOOLEAN, made : Admin!Tokens]

\* Where a call holds the refresh token it presents.
Presenting == {"asked", "checked", "answered"}

\* A session has at most one successor, and none unless it was rotated.
Rotated ==
  /\ \A s \in Admin!Sessions :
       successor[s] # {} => s \in revoked /\ \E x \in Admin!Sessions : successor[s] = {x}
  /\ \A s \in signedOut : s \in revoked /\ successor[s] = {}

\* The calls of a tab share one refresh.
OneRefresh ==
  \A k, m \in Calls :
    tab[k] = tab[m] /\ call[k].at \in Admin!Asking /\ call[m].at \in Admin!Asking => k = m

\* What a call knows at each place of its way.
Knows(c) == /\ c.made # 0 => c.at = "answered"
            /\ c.at \in {"guarded", "checked"} => c.token # 0
            /\ c.made # 0 => c.token # 0

\* A session that the jar, a refresh or a tab has seen, and one that is on its way to
\* the jar for the first time.
Seen(s) == \/ s = jar.refresh
           \/ \E t \in Tabs : s \in delivered[t]
           \/ \E k \in Calls : call[k].at \in Presenting /\ call[k].token = s
ComesWith(s, k) == call[k].made = s
OnItsWay(s) == s = arriving \/ \E k \in Calls : ComesWith(s, k)

Exist ==
  /\ jar.refresh <= created /\ jar.access <= created /\ arriving <= created
  /\ \A k \in Calls : call[k].token <= created /\ call[k].made <= created
  /\ \A t \in Tabs : \A s \in delivered[t] : s <= created

FirstSight ==
  /\ \A s \in Admin!Sessions : OnItsWay(s) => ~Seen(s)
  /\ \A k \in Calls : call[k].made # 0 => call[k].made # arriving
  /\ \A k, m \in Calls : call[k].made # 0 /\ call[k].made = call[m].made => k = m

\* No tab has a token in its hand, or takes one from the jar, that it has seen rotated.
NotAgain ==
  /\ \A t \in Tabs : jar.refresh \notin delivered[t]
  /\ \A k \in Calls : call[k].at \in {"asked", "checked"} => call[k].token \notin delivered[tab[k]]

AdminInv ==
  /\ Admin!TypeOK /\ Rotated /\ OneRefresh /\ Exist /\ FirstSight /\ NotAgain
  /\ \A k \in Calls : Knows(call[k])

LEMMA AdminInit ==
  ASSUME Admin!BoundAssumption, Admin!Init
  PROVE  AdminInv
<1>1. Admin!Idle \in Records
  BY DEF Admin!Idle, Records, Admin!Asking, Admin!Tokens, Admin!None
<1>2. Admin!TypeOK
  BY <1>1 DEF Admin!Init, Admin!TypeOK, Records, Admin!Tokens, Admin!None, Admin!BoundAssumption
<1>3. \A k \in Calls : /\ call[k].at = "idle" /\ call[k].made = 0 /\ call[k].token = 0
  BY DEF Admin!Init, Admin!Idle, Admin!None
<1>4. Rotated /\ OneRefresh
  BY <1>3 DEF Admin!Init, Rotated, OneRefresh, Admin!Asking
<1>5. Exist /\ FirstSight /\ NotAgain
  BY <1>3 DEF Admin!Init, Exist, FirstSight, OnItsWay, ComesWith, NotAgain, Admin!None,
              Admin!Sessions, Seen, Presenting
<1>6. \A k \in Calls : Knows(call[k])
  BY <1>3 DEF Knows
<1> QED
  BY <1>2, <1>4, <1>5, <1>6 DEF AdminInv

\* How one call may move without a session being made: it asks only when its tab does
\* not, with what the jar has, and takes nothing for a new session that it had not.
Moves(k, c) ==
  /\ call' = [call EXCEPT ![k] = c]
  /\ c.at \in Admin!Asking => call[k].at \in Admin!Asking \/ ~Admin!Refreshing(tab[k])
  /\ c.at \in Presenting =>
       \/ c.token = jar.refresh
       \/ /\ call[k].at \in Presenting /\ c.token = call[k].token
          /\ c.at # "answered" => call[k].at # "answered"
  /\ c.made # 0 => c.made = call[k].made
  /\ c.token <= created /\ c.made <= created
  /\ Knows(c)

LEMMA MovesKeeps ==
  ASSUME Admin!BoundAssumption, AdminInv, NEW k \in Calls, NEW c \in Records, Moves(k, c),
         UNCHANGED <<tab, created, successor, arriving, delivered>>,
         revoked' \in SUBSET Admin!Sessions, revoked \subseteq revoked',
         signedOut' \in SUBSET Admin!Sessions,
         \A s \in signedOut' : s \in signedOut \/ (s \notin revoked /\ s \in revoked'),
         expired' \in SUBSET Admin!Sessions,
         jar' \in [access : Admin!Tokens, refresh : Admin!Tokens],
         jar'.refresh \in {jar.refresh, 0}, jar'.access \in {jar.access, 0}
  PROVE  AdminInv'
<1>1. /\ call' \in [Calls -> Records] /\ call'[k] = c
      /\ \A m \in Calls \ {k} : call'[m] = call[m]
  BY DEF Moves, AdminInv, Admin!TypeOK, Records
<1>2. Admin!TypeOK'
  BY <1>1 DEF AdminInv, Admin!TypeOK, Records
<1>3. Rotated'
  BY DEF AdminInv, Rotated, Admin!TypeOK
<1>4. OneRefresh'
  BY <1>1 DEF AdminInv, OneRefresh, Moves, Admin!Refreshing
<1>5. Exist'
  BY <1>1 DEF AdminInv, Exist, Moves, Admin!TypeOK, Admin!Tokens, Admin!None, Admin!Sessions,
              Admin!BoundAssumption
<1>6. FirstSight'
  <2>1. \A s \in Admin!Sessions : s # 0
    BY DEF Admin!Sessions
  <2>2. ASSUME NEW s \in Admin!Sessions, Seen(s)'
        PROVE  Seen(s)
    BY <1>1, <2>1, <2>2 DEF Seen, Moves, Presenting
  <2>3. \A m \in Calls : call'[m].made # 0 => call'[m].made = call[m].made
    BY <1>1 DEF Moves
  <2>4. ASSUME NEW s \in Admin!Sessions, OnItsWay(s)'
        PROVE  OnItsWay(s)
    BY <2>1, <2>3, <2>4 DEF OnItsWay, ComesWith
  <2>5. \A s \in Admin!Sessions : OnItsWay(s)' => ~Seen(s)'
    BY <2>2, <2>4 DEF AdminInv, FirstSight
  <2> QED
    BY <2>3, <2>5 DEF AdminInv, FirstSight
<1>7. NotAgain'
  <2>1. \A t \in Tabs : 0 \notin delivered[t]
    BY DEF AdminInv, Admin!TypeOK, Admin!Sessions
  <2>2. tab[k] \in Tabs
    BY DEF AdminInv, Admin!TypeOK
  <2> QED
    BY <1>1, <2>1, <2>2 DEF AdminInv, NotAgain, Moves, Presenting
<1>8. \A m \in Calls : Knows(call'[m])
  BY <1>1 DEF AdminInv, Moves
<1> QED
  BY <1>2, <1>3, <1>4, <1>5, <1>6, <1>7, <1>8 DEF AdminInv

\* The steps of one call that make no session are such moves.
LEMMA CallStepKeeps ==
  ASSUME Admin!BoundAssumption, AdminInv, UNCHANGED tab, NEW k \in Calls,
         \/ Admin!Guard(k) \/ Admin!Check(k) \/ Admin!Lost(k) \/ Admin!Unauthorized(k)
         \/ Admin!Ask(k) \/ Admin!Succeeds(k) \/ \E signOut \in BOOLEAN : Admin!Start(k, signOut)
  PROVE  AdminInv'
<1> DEFINE old == call[k]
<1> signedOut \in SUBSET Admin!Sessions
  BY DEF AdminInv, Admin!TypeOK
<1>1. /\ old \in Records /\ Knows(old) /\ old.token <= created /\ old.made <= created
      /\ created \in Nat /\ revoked \in SUBSET Admin!Sessions
      /\ jar \in [access : Admin!Tokens, refresh : Admin!Tokens]
      /\ jar.access <= created /\ jar.refresh <= created /\ expired \in SUBSET Admin!Sessions
  BY DEF AdminInv, Admin!TypeOK, Exist, Records, Admin!BoundAssumption
<1>2. Admin!Idle \in Records /\ Admin!Idle.at = "idle" /\ Admin!Idle.made = 0 /\ Admin!Idle.token = 0
  BY DEF Admin!Idle, Records, Admin!Asking, Admin!Tokens, Admin!None
<1>3. Moves(k, Admin!Idle) <=> call' = [call EXCEPT ![k] = Admin!Idle]
  BY <1>1, <1>2 DEF Moves, Knows, Admin!Asking, Presenting
<1>4. ASSUME Admin!Guard(k)
      PROVE  AdminInv'
  <2> DEFINE c == [old EXCEPT
                     !.at = IF Admin!Live(old.token) /\ old.signOut THEN "guarded" ELSE "back",
                     !.token = IF Admin!Live(@) THEN @ ELSE Admin!None]
  <2>1. /\ c \in Records /\ c.at \in {"guarded", "back"} /\ c.made = 0 /\ old.at = "sent"
        /\ c.at = "guarded" => Admin!Live(old.token) /\ c.token = old.token
        /\ c.token \in {old.token, 0}
    BY <1>1, <1>4 DEF Admin!Guard, Records, Knows, Admin!Tokens, Admin!None
  <2>2. Moves(k, c)
    BY <1>1, <1>4, <2>1 DEF Admin!Guard, Admin!Set, Moves, Knows, Admin!Live, Admin!Asking, Presenting
  <2> QED
    BY <1>1, <1>4, <2>1, <2>2, MovesKeeps DEF Admin!Guard, Admin!sessions, Admin!browser
<1>5. ASSUME Admin!Check(k)
      PROVE  AdminInv'
  <2> DEFINE c == [old EXCEPT !.at = IF Admin!Live(old.token) THEN "checked" ELSE "answered"]
  <2>1. /\ c \in Records /\ c.at \in {"checked", "answered"} /\ c.made = 0 /\ old.at = "asked"
        /\ c.at = "checked" => Admin!Live(old.token)
        /\ c.token = old.token
    BY <1>1, <1>5 DEF Admin!Check, Records, Knows, Admin!Asking
  <2>2. Moves(k, c)
    BY <1>1, <1>5, <2>1 DEF Admin!Check, Admin!Set, Moves, Knows, Admin!Live, Admin!Asking, Presenting
  <2> QED
    BY <1>1, <1>5, <2>1, <2>2, MovesKeeps DEF Admin!Check, Admin!sessions, Admin!browser
<1>6. ASSUME Admin!Lost(k)
      PROVE  AdminInv'
  <2>1. Moves(k, Admin!Idle)
    BY <1>3, <1>6 DEF Admin!Lost, Admin!Set
  <2> QED
    BY <1>1, <1>2, <1>6, <2>1, MovesKeeps DEF Admin!Lost, Admin!sessions, Admin!browser
<1>7. ASSUME Admin!Unauthorized(k)
      PROVE  AdminInv'
  <2>1. CASE old.again
    <3>1. Moves(k, Admin!Idle)
      BY <1>3, <1>7, <2>1 DEF Admin!Unauthorized, Admin!Set
    <3> QED
      BY <1>1, <1>2, <1>7, <3>1, MovesKeeps DEF Admin!Unauthorized, Admin!sessions, Admin!browser
  <2>2. CASE ~old.again
    <3> DEFINE c == [old EXCEPT !.at = IF Admin!Refreshing(tab[k]) THEN "waiting" ELSE "asking"]
    <3>1. /\ c \in Records /\ c.at \in {"waiting", "asking"} /\ c.made = 0 /\ c.token = old.token
          /\ c.at = "asking" => ~Admin!Refreshing(tab[k])
      BY <1>1, <1>7 DEF Admin!Unauthorized, Records, Knows, Admin!Asking
    <3>2. Moves(k, c)
      BY <1>1, <1>7, <2>2, <3>1 DEF Admin!Unauthorized, Admin!Set, Moves, Knows, Admin!Asking, Presenting
    <3> QED
      BY <1>1, <1>7, <3>1, <3>2, MovesKeeps DEF Admin!Unauthorized, Admin!sessions, Admin!browser
  <2> QED
    BY <2>1, <2>2
<1>8. ASSUME Admin!Ask(k)
      PROVE  AdminInv'
  <2> DEFINE c == [old EXCEPT !.at = "asked", !.token = jar.refresh]
  <2>1. c \in Records /\ c.at = "asked" /\ c.made = 0 /\ c.token = jar.refresh
    BY <1>1, <1>8 DEF Admin!Ask, Records, Knows, Admin!Asking
  <2>2. Moves(k, c)
    BY <1>1, <1>8, <2>1 DEF Admin!Ask, Admin!Set, Moves, Knows, Admin!Asking, Presenting
  <2> QED
    BY <1>1, <1>8, <2>1, <2>2, MovesKeeps DEF Admin!Ask, Admin!sessions, Admin!browser
<1>9. ASSUME Admin!Succeeds(k)
      PROVE  AdminInv'
  <2>1. Moves(k, Admin!Idle)
    BY <1>3, <1>9 DEF Admin!Succeeds, Admin!Set
  <2>2. /\ jar' \in [access : Admin!Tokens, refresh : Admin!Tokens]
        /\ jar'.refresh \in {jar.refresh, 0} /\ jar'.access \in {jar.access, 0}
    BY <1>1, <1>9 DEF Admin!Succeeds, Admin!Cookies, Admin!None, Admin!Tokens
  <2> QED
    BY <1>1, <1>2, <1>9, <2>1, <2>2, MovesKeeps DEF Admin!Succeeds, Admin!sessions
<1>10. ASSUME NEW signOut \in BOOLEAN, Admin!Start(k, signOut)
       PROVE  AdminInv'
  <2> DEFINE c == [Admin!Idle EXCEPT !.at = "sent", !.token = jar.access, !.signOut = signOut]
  <2>1. c \in Records /\ c.at = "sent" /\ c.made = 0 /\ c.token = jar.access
    BY <1>1 DEF Admin!Idle, Admin!None, Admin!Tokens, Records, Admin!Asking
  <2>2. call' = [call EXCEPT ![k] = c]
    BY <1>10 DEF Admin!Start, Admin!Set
  <2>3. Moves(k, c)
    <3> HIDE DEF c
    <3> QED
      BY <1>1, <2>1, <2>2 DEF Moves, Knows, Admin!Asking, Presenting
  <2> QED
    BY <1>1, <1>10, <2>1, <2>3, MovesKeeps DEF Admin!Start, Admin!sessions, Admin!browser
<1> QED
  BY <1>4, <1>5, <1>6, <1>7, <1>8, <1>9, <1>10

\* A rotation that comes too late answers its call without a session; one that does not
\* makes a session that nobody has seen.
LEMMA RotateKeeps ==
  ASSUME Admin!BoundAssumption, AdminInv, UNCHANGED tab, NEW k \in Calls, Admin!Rotate(k)
  PROVE  AdminInv'
<1> DEFINE old == call[k]
           s == old.token
<1>1. /\ old \in Records /\ old.at = "checked" /\ old.made = 0 /\ s \in Admin!Sessions
      /\ s <= created /\ created \in Nat /\ revoked \in SUBSET Admin!Sessions
      /\ \A m \in Calls : call[m] \in Records
  BY DEF Admin!Rotate, AdminInv, Admin!TypeOK, Exist, Records, Knows, Admin!BoundAssumption,
         Admin!Tokens, Admin!None
<1>2. CASE ~Admin!StillUnrevoked(s)
  <2> DEFINE c == [old EXCEPT !.at = "answered"]
  <2>1. c \in Records /\ c.at = "answered" /\ c.made = 0 /\ c.token = s
    BY <1>1 DEF Records, Admin!Asking
  <2>2. call' = [call EXCEPT ![k] = c]
    BY <1>2 DEF Admin!Rotate, Admin!Set
  <2>3. Moves(k, c)
    <3> HIDE DEF c
    <3> QED
      BY <1>1, <2>1, <2>2 DEF Moves, Knows, Admin!Asking, Presenting
  <2>4. /\ UNCHANGED <<tab, created, revoked, successor, signedOut, arriving, delivered, jar, expired>>
        /\ expired \in SUBSET Admin!Sessions /\ signedOut \in SUBSET Admin!Sessions
        /\ jar \in [access : Admin!Tokens, refresh : Admin!Tokens]
    BY <1>2 DEF Admin!Rotate, Admin!browser, AdminInv, Admin!TypeOK
  <2> QED
    BY <1>1, <2>1, <2>3, <2>4, MovesKeeps
<1>3. CASE Admin!StillUnrevoked(s)
  <2> DEFINE new == created + 1
             c == [old EXCEPT !.at = "answered", !.made = new]
  <2>1. /\ s \notin revoked /\ created' = new /\ new \in Admin!Sessions
        /\ revoked' = revoked \cup {s}
        /\ successor' = [successor EXCEPT ![s] = @ \cup {new}]
        /\ call' = [call EXCEPT ![k] = c]
        /\ UNCHANGED <<tab, expired, signedOut, jar, arriving, delivered>>
    <3>1. created' = new /\ created < MaxSessions
      BY <1>3 DEF Admin!Rotate, Admin!Create
    <3>2. new \in Admin!Sessions
      BY <1>1, <3>1 DEF Admin!Sessions, Admin!BoundAssumption
    <3>3. /\ s \notin revoked /\ revoked' = revoked \cup {s}
          /\ successor' = [successor EXCEPT ![s] = @ \cup {new}]
          /\ call' = [call EXCEPT ![k] = c]
      BY <1>3, <3>1 DEF Admin!Rotate, Admin!StillUnrevoked, Admin!Set
    <3>4. UNCHANGED <<tab, expired, signedOut, jar, arriving, delivered>>
      BY DEF Admin!Rotate, Admin!browser
    <3> QED
      BY <3>1, <3>2, <3>3, <3>4
  <2>2. c \in Records /\ c.at = "answered" /\ c.made = new /\ c.token = s
    BY <1>1, <2>1 DEF Records, Admin!Asking, Admin!Tokens
  <2> HIDE DEF c
  <2>3. /\ call' \in [Calls -> Records] /\ call'[k] = c
        /\ \A m \in Calls \ {k} : call'[m] = call[m]
    BY <1>1, <2>1, <2>2 DEF AdminInv, Admin!TypeOK, Records
  <2>4. Admin!TypeOK'
    <3>1. created' \in 0 .. MaxSessions
      BY <1>1, <2>1 DEF Admin!Sessions
    <3>2. successor' \in [Admin!Sessions -> SUBSET Admin!Sessions]
      BY <1>1, <2>1 DEF AdminInv, Admin!TypeOK
    <3> QED
      BY <1>1, <2>1, <2>3, <3>1, <3>2 DEF AdminInv, Admin!TypeOK, Records
  <2>5. Rotated'
    <3>1. successor[s] = {}
      BY <1>1, <2>1 DEF AdminInv, Rotated
    <3>2. /\ successor'[s] = {new}
          /\ \A x \in Admin!Sessions \ {s} : successor'[x] = successor[x]
      BY <1>1, <2>1, <3>1 DEF AdminInv, Admin!TypeOK
    <3>3. signedOut \subseteq Admin!Sessions /\ s \notin signedOut
      BY <2>1 DEF AdminInv, Admin!TypeOK, Rotated
    <3> QED
      BY <1>1, <2>1, <3>2, <3>3 DEF AdminInv, Rotated
  <2>6. OneRefresh'
    BY <1>1, <2>1, <2>3 DEF AdminInv, OneRefresh, Admin!Asking
  <2>7. /\ \A x \in Admin!Tokens : x <= created => x # new /\ x <= new
        /\ \A m \in Calls : call[m].token \in Admin!Tokens /\ call[m].made \in Admin!Tokens
        /\ jar.refresh \in Admin!Tokens /\ jar.access \in Admin!Tokens /\ arriving \in Admin!Tokens
        /\ \A t \in Tabs : delivered[t] \subseteq Admin!Tokens
    BY <1>1 DEF AdminInv, Admin!TypeOK, Records, Admin!Tokens, Admin!Sessions, Admin!None
  <2>8. Exist'
    BY <1>1, <2>1, <2>2, <2>3, <2>7 DEF AdminInv, Exist
  <2>9. FirstSight'
    <3>1. /\ \A x \in Admin!Sessions : x = new => ~Seen(x)'
          /\ arriving # new /\ \A m \in Calls : call[m].made # new
      BY <1>1, <2>1, <2>2, <2>3, <2>7 DEF AdminInv, Exist, Seen
    <3>2. ASSUME NEW x \in Admin!Sessions, OnItsWay(x)', x # new
          PROVE  ~Seen(x)'
      <4>1. OnItsWay(x)
        BY <2>1, <2>2, <2>3, <3>2 DEF OnItsWay, ComesWith
      <4>2. ~Seen(x)
        BY <4>1 DEF AdminInv, FirstSight
      <4>3. Seen(x)' => Seen(x)
        BY <1>1, <2>1, <2>2, <2>3 DEF Seen, Presenting
      <4> QED
        BY <4>2, <4>3
    <3>3. /\ \A m \in Calls : call'[m].made # 0 => call'[m].made # arriving'
          /\ \A n, m \in Calls : call'[n].made # 0 /\ call'[n].made = call'[m].made => n = m
      BY <1>1, <2>1, <2>2, <2>3, <3>1 DEF AdminInv, FirstSight
    <3> QED
      BY <3>1, <3>2, <3>3 DEF FirstSight
  <2>10. NotAgain'
    BY <1>1, <2>1, <2>2, <2>3 DEF AdminInv, NotAgain
  <2>11. \A m \in Calls : Knows(call'[m])
    <3>1. Knows(c)
      BY <1>1, <2>2 DEF Knows, Admin!Sessions
    <3> QED
      BY <2>3, <3>1 DEF AdminInv
  <2> QED
    BY <2>4, <2>5, <2>6, <2>8, <2>9, <2>10, <2>11 DEF AdminInv
<1> QED
  BY <1>2, <1>3

LEMMA RevokeKeeps ==
  ASSUME Admin!BoundAssumption, AdminInv, UNCHANGED tab, NEW k \in Calls, Admin!Revoke(k)
  PROVE  AdminInv'
<1> DEFINE old == call[k]
           s == old.token
           c == [old EXCEPT !.at = "back"]
<1>1. /\ old \in Records /\ old.at = "guarded" /\ old.made = 0 /\ s \in Admin!Sessions
      /\ s <= created /\ created \in Nat
  BY DEF Admin!Revoke, AdminInv, Admin!TypeOK, Exist, Records, Knows, Admin!BoundAssumption,
         Admin!Tokens, Admin!None
<1>2. c \in Records /\ c.at = "back" /\ c.made = 0 /\ c.token = s
  BY <1>1 DEF Records
<1>3. call' = [call EXCEPT ![k] = c]
  BY DEF Admin!Revoke, Admin!Set
<1> HIDE DEF c
<1>4. Moves(k, c)
  BY <1>1, <1>2, <1>3 DEF Moves, Knows, Admin!Asking, Presenting
<1>5. /\ revoked' = revoked \cup {s}
      /\ signedOut' = IF s \in revoked THEN signedOut ELSE signedOut \cup {s}
      /\ UNCHANGED <<created, expired, successor, jar, arriving, delivered>>
  BY DEF Admin!Revoke, Admin!browser
<1>6. /\ revoked \in SUBSET Admin!Sessions /\ signedOut \in SUBSET Admin!Sessions
      /\ expired \in SUBSET Admin!Sessions
      /\ jar \in [access : Admin!Tokens, refresh : Admin!Tokens]
  BY DEF AdminInv, Admin!TypeOK
<1>7. /\ revoked' \in SUBSET Admin!Sessions /\ revoked \subseteq revoked'
      /\ signedOut' \in SUBSET Admin!Sessions
      /\ \A x \in signedOut' : x \in signedOut \/ (x \notin revoked /\ x \in revoked')
  BY <1>1, <1>5, <1>6
<1> QED
  BY <1>2, <1>4, <1>5, <1>6, <1>7, MovesKeeps

\* A refresh that failed, and the calls that shared it, are over.
LEMMA RefreshFailsKeeps ==
  ASSUME Admin!BoundAssumption, AdminInv, UNCHANGED tab, NEW k \in Calls, Admin!RefreshFails(k)
  PROVE  AdminInv'
<1>1. /\ call' = [m \in Calls |-> IF m \in Admin!Party(k) THEN Admin!Idle ELSE call[m]]
      /\ UNCHANGED <<tab, created, revoked, expired, successor, signedOut, jar, arriving, delivered>>
  BY DEF Admin!RefreshFails, Admin!sessions, Admin!browser
<1>2. Admin!Idle \in Records /\ Admin!Idle.at = "idle" /\ Admin!Idle.made = 0 /\ Admin!Idle.token = 0
  BY DEF Admin!Idle, Records, Admin!Asking, Admin!Tokens, Admin!None
<1>3. \A m \in Calls : call'[m] = Admin!Idle \/ call'[m] = call[m]
  BY <1>1
<1>4. Admin!TypeOK'
  <2>1. call' \in [Calls -> Records]
    BY <1>1, <1>2 DEF AdminInv, Admin!TypeOK, Records
  <2> QED
    BY <1>1, <2>1 DEF AdminInv, Admin!TypeOK, Records
<1>5. Rotated'
  BY <1>1 DEF AdminInv, Rotated
<1>6. OneRefresh'
  BY <1>1, <1>2, <1>3 DEF AdminInv, OneRefresh, Admin!Asking
<1>7. Exist'
  BY <1>1, <1>2, <1>3 DEF AdminInv, Exist, Admin!TypeOK
<1>8. FirstSight'
  <2>1. \A s \in Admin!Sessions : s # 0
    BY DEF Admin!Sessions
  <2>2. \A s \in Admin!Sessions : (Seen(s)' => Seen(s)) /\ (OnItsWay(s)' => OnItsWay(s))
    BY <1>1, <1>2, <1>3, <2>1 DEF Seen, OnItsWay, ComesWith, Presenting
  <2> QED
    BY <1>1, <1>2, <1>3, <2>2 DEF AdminInv, FirstSight
<1>9. NotAgain'
  BY <1>1, <1>2, <1>3 DEF AdminInv, NotAgain
<1>10. \A m \in Calls : Knows(call'[m])
  BY <1>2, <1>3 DEF AdminInv, Knows
<1> QED
  BY <1>4, <1>5, <1>6, <1>7, <1>8, <1>9, <1>10 DEF AdminInv

\* The new session comes into the jar for the first time, and its tab sees the old one
\* rotated, which no other call of that tab holds.
LEMMA RefreshedKeeps ==
  ASSUME Admin!BoundAssumption, AdminInv, UNCHANGED tab, NEW k \in Calls, Admin!Refreshed(k)
  PROVE  AdminInv'
<1> DEFINE s == call[k].made
           old == call[k].token
           Again(m) == Admin!Resend(m, s)
<1>1. /\ call[k].at = "answered" /\ s # 0
      /\ jar' = [access |-> s, refresh |-> s]
      /\ delivered' = [delivered EXCEPT ![tab[k]] = @ \cup {old}]
      /\ call' = [m \in Calls |-> IF m \in Admin!Party(k) THEN Again(m) ELSE call[m]]
      /\ UNCHANGED <<tab, created, revoked, expired, successor, signedOut, arriving>>
  BY DEF Admin!Refreshed, Admin!sessions, Admin!Cookies, Admin!None
<1>2. /\ s \in Admin!Sessions /\ old \in Admin!Sessions /\ tab[k] \in Tabs
      /\ s <= created /\ old <= created /\ created \in Nat
      /\ \A m \in Calls : call[m] \in Records
  BY <1>1 DEF AdminInv, Admin!TypeOK, Exist, Records, Knows, Admin!BoundAssumption,
              Admin!Tokens, Admin!None
<1>3. \A m \in Calls : /\ Again(m) \in Records /\ Again(m).at = "sent"
                       /\ Again(m).made = 0 /\ Again(m).token = s
  BY <1>2 DEF Admin!Resend, Records, Admin!None, Admin!Tokens
<1> HIDE DEF Again
<1>4. \A m \in Calls : IF m \in Admin!Party(k) THEN call'[m] = Again(m) ELSE call'[m] = call[m]
  BY <1>1
<1>5. /\ k \in Admin!Party(k) /\ Admin!Party(k) \subseteq Calls
      /\ \A m \in Admin!Party(k) : call'[m] = Again(m)
      /\ \A m \in Calls \ Admin!Party(k) : call'[m] = call[m]
  BY <1>4 DEF Admin!Party
<1>6. Admin!TypeOK'
  <2>1. call' \in [Calls -> Records]
    BY <1>1, <1>2, <1>3
  <2>2. jar' \in [access : Admin!Tokens, refresh : Admin!Tokens]
    BY <1>1, <1>2 DEF Admin!Tokens
  <2>3. delivered' \in [Tabs -> SUBSET Admin!Sessions]
    BY <1>1, <1>2 DEF AdminInv, Admin!TypeOK
  <2> QED
    BY <1>1, <2>1, <2>2, <2>3 DEF AdminInv, Admin!TypeOK, Records
<1>7. Rotated'
  BY <1>1 DEF AdminInv, Rotated
<1>8. OneRefresh'
  BY <1>1, <1>3, <1>5 DEF AdminInv, OneRefresh, Admin!Asking
<1>9. \A t \in Tabs : \A x \in delivered'[t] : x \in delivered[t] \/ (t = tab[k] /\ x = old)
  BY <1>1, <1>2 DEF AdminInv, Admin!TypeOK
<1>10. Exist'
  BY <1>1, <1>2, <1>3, <1>5, <1>9 DEF AdminInv, Exist
<1>11. ~Seen(s) /\ Seen(old)
  BY <1>1, <1>2 DEF AdminInv, FirstSight, OnItsWay, ComesWith, Seen, Presenting
<1>12. FirstSight'
  <2>1. ASSUME NEW x \in Admin!Sessions, OnItsWay(x)'
        PROVE  OnItsWay(x) /\ x # s
    <3>1. x # 0
      BY DEF Admin!Sessions
    <3>2. CASE x = arriving
      BY <1>1, <1>2, <3>2 DEF AdminInv, FirstSight, OnItsWay
    <3>3. CASE x # arriving
      <4>1. PICK m \in Calls : call'[m].made = x
        BY <1>1, <2>1, <3>3 DEF OnItsWay, ComesWith
      <4>2. m \notin Admin!Party(k) /\ call[m].made = x
        BY <1>3, <1>5, <3>1, <4>1
      <4>3. x # s
        BY <1>1, <1>5, <4>2 DEF AdminInv, FirstSight
      <4> QED
        BY <4>2, <4>3 DEF OnItsWay, ComesWith
    <3> QED
      BY <3>2, <3>3
  <2>2. ASSUME NEW x \in Admin!Sessions, Seen(x)', x # s
        PROVE  Seen(x)
    <3>1. CASE x = old
      BY <1>11, <3>1 DEF Seen
    <3>2. CASE x # old
      <4>1. jar'.refresh = s
        BY <1>1
      <4>2. \A m \in Calls : call'[m].at \in Presenting => call'[m] = call[m]
        BY <1>3, <1>5 DEF Presenting
      <4> QED
        BY <1>9, <2>2, <3>2, <4>1, <4>2 DEF Seen
    <3> QED
      BY <3>1, <3>2
  <2>3. \A x \in Admin!Sessions : OnItsWay(x)' => ~Seen(x)'
    BY <2>1, <2>2 DEF AdminInv, FirstSight
  <2>4. \A m \in Calls : call'[m].made # 0 => call'[m].made = call[m].made
    BY <1>3, <1>5
  <2> QED
    BY <1>1, <2>3, <2>4 DEF AdminInv, FirstSight
<1>13. NotAgain'
  <2>1. \A t \in Tabs : jar'.refresh \notin delivered'[t]
    <3>1. s # old /\ \A t \in Tabs : s \notin delivered[t]
      BY <1>1, <1>2, <1>11 DEF Seen, Presenting
    <3> QED
      BY <1>1, <1>9, <3>1
  <2>2. ASSUME NEW m \in Calls, call'[m].at \in {"asked", "checked"}
        PROVE  call'[m].token \notin delivered'[tab[m]]
    <3>1. m \notin Admin!Party(k) /\ call'[m] = call[m]
      BY <1>3, <1>5, <2>2
    <3>2. tab[m] # tab[k]
      BY <1>1, <1>5, <2>2, <3>1 DEF AdminInv, OneRefresh, Admin!Asking
    <3>3. tab[m] \in Tabs
      BY DEF AdminInv, Admin!TypeOK
    <3> QED
      BY <1>9, <2>2, <3>1, <3>2, <3>3 DEF AdminInv, NotAgain
  <2> QED
    BY <1>1, <2>1, <2>2 DEF NotAgain
<1>14. \A m \in Calls : Knows(call'[m])
  BY <1>3, <1>5 DEF AdminInv, Knows
<1> QED
  BY <1>6, <1>7, <1>8, <1>10, <1>12, <1>13, <1>14 DEF AdminInv

\* A sign-in makes a session that nobody has seen and brings it to the jar, or loses it.
LEMMA SignInKeeps ==
  ASSUME Admin!BoundAssumption, AdminInv, UNCHANGED tab,
         Admin!SignIn \/ Admin!SignedIn \/ Admin!SignInFails
  PROVE  AdminInv'
<1>1. /\ UNCHANGED <<tab, revoked, expired, successor, signedOut, delivered, call>>
      /\ created \in Nat /\ created' \in Nat /\ created <= created'
      /\ created' <= MaxSessions
  BY DEF Admin!SignIn, Admin!SignedIn, Admin!SignInFails, Admin!Create, Admin!sessions,
         AdminInv, Admin!TypeOK, Admin!BoundAssumption
<1>2. /\ \A m \in Calls : call[m].token \in Admin!Tokens /\ call[m].made \in Admin!Tokens
      /\ jar.refresh \in Admin!Tokens /\ jar.access \in Admin!Tokens /\ arriving \in Admin!Tokens
      /\ \A t \in Tabs : delivered[t] \subseteq Admin!Tokens
      /\ \A x \in Admin!Tokens : x \in Nat
      /\ \A x \in Admin!Sessions : x # 0 /\ x \in Admin!Tokens
  BY DEF AdminInv, Admin!TypeOK, Records, Admin!Tokens, Admin!Sessions, Admin!None
<1>3. \/ /\ arriving = 0 /\ created' = created + 1 /\ arriving' = created' /\ UNCHANGED jar
         /\ arriving' \in Admin!Sessions
      \/ /\ arriving # 0 /\ created' = created /\ arriving' = 0
         /\ jar' = [access |-> arriving, refresh |-> arriving] \/ UNCHANGED jar
  BY <1>1 DEF Admin!SignIn, Admin!SignedIn, Admin!SignInFails, Admin!Create, Admin!sessions,
              Admin!Cookies, Admin!None, Admin!Sessions
<1>4. Admin!TypeOK'
  <2>1. jar' \in [access : Admin!Tokens, refresh : Admin!Tokens] /\ arriving' \in Admin!Tokens
    BY <1>2, <1>3 DEF AdminInv, Admin!TypeOK, Admin!Tokens, Admin!None
  <2>2. created' \in 0 .. MaxSessions
    BY <1>1 DEF Admin!BoundAssumption
  <2> QED
    BY <1>1, <2>1, <2>2 DEF AdminInv, Admin!TypeOK
<1>5. Rotated' /\ OneRefresh'
  BY <1>1 DEF AdminInv, Rotated, OneRefresh
<1>6. Exist'
  <2>1. \A x \in Admin!Tokens : x <= created => x <= created'
    BY <1>1, <1>2
  <2>2. jar'.refresh <= created' /\ jar'.access <= created' /\ arriving' <= created'
    BY <1>1, <1>2, <1>3, <2>1 DEF AdminInv, Exist
  <2> QED
    BY <1>1, <1>2, <2>1, <2>2 DEF AdminInv, Exist
<1>7. /\ \A x \in Admin!Sessions : OnItsWay(x)' => ~Seen(x)'
      /\ \A m \in Calls : call'[m].made # 0 => call'[m].made # arriving'
  <2>1. CASE arriving = 0 /\ created' = created + 1 /\ arriving' = created' /\ UNCHANGED jar
    <3>1. \A x \in Admin!Tokens : x <= created => x # arriving'
      BY <1>1, <1>2, <2>1
    <3>2. \A x \in Admin!Sessions : x = arriving' => ~Seen(x)'
      BY <1>1, <1>2, <2>1, <3>1 DEF AdminInv, Exist, Seen
    <3>3. \A x \in Admin!Sessions : x # arriving' => (Seen(x)' => Seen(x)) /\ (OnItsWay(x)' => OnItsWay(x))
      BY <1>1, <2>1 DEF Seen, OnItsWay, ComesWith
    <3>4. \A m \in Calls : call'[m].made # arriving'
      BY <1>1, <1>2, <3>1 DEF AdminInv, Exist
    <3> QED
      BY <3>2, <3>3, <3>4 DEF AdminInv, FirstSight
  <2>2. CASE arriving # 0 /\ arriving' = 0
             /\ (jar' = [access |-> arriving, refresh |-> arriving] \/ UNCHANGED jar)
    <3>1. ASSUME NEW x \in Admin!Sessions, OnItsWay(x)'
          PROVE  OnItsWay(x) /\ x # arriving
      BY <1>1, <1>2, <2>2, <3>1 DEF OnItsWay, ComesWith, AdminInv, FirstSight
    <3>2. ASSUME NEW x \in Admin!Sessions, Seen(x)', x # arriving
          PROVE  Seen(x)
      BY <1>1, <2>2, <3>2 DEF Seen
    <3>3. \A m \in Calls : call'[m].made # 0 => call'[m].made # arriving'
      BY <2>2
    <3> QED
      BY <3>1, <3>2, <3>3 DEF AdminInv, FirstSight
  <2> QED
    BY <1>3, <2>1, <2>2
<1>8. FirstSight'
  BY <1>1, <1>7 DEF AdminInv, FirstSight
<1>9. NotAgain'
  <2>1. \A t \in Tabs : jar'.refresh \notin delivered'[t]
    <3>1. CASE UNCHANGED jar
      BY <1>1, <3>1 DEF AdminInv, NotAgain
    <3>2. CASE arriving # 0 /\ jar' = [access |-> arriving, refresh |-> arriving]
      <4>1. arriving \in Admin!Sessions
        BY <3>2, <1>2 DEF Admin!Tokens, Admin!None
      <4>2. ~Seen(arriving)
        BY <4>1 DEF AdminInv, FirstSight, OnItsWay
      <4> QED
        BY <1>1, <3>2, <4>2 DEF Seen
    <3> QED
      BY <1>3, <3>1, <3>2
  <2> QED
    BY <1>1, <2>1 DEF AdminInv, NotAgain
<1>10. \A m \in Calls : Knows(call'[m])
  BY <1>1 DEF AdminInv
<1> QED
  BY <1>4, <1>5, <1>6, <1>8, <1>9, <1>10 DEF AdminInv

LEMMA LapseKeeps ==
  ASSUME Admin!BoundAssumption, AdminInv, UNCHANGED tab,
         Admin!AccessLapses \/ \E s \in Admin!Sessions : Admin!Expire(s)
  PROVE  AdminInv'
<1>1. /\ UNCHANGED <<tab, created, revoked, successor, signedOut, arriving, delivered, call>>
      /\ expired' \in SUBSET Admin!Sessions
      /\ jar' \in [access : Admin!Tokens, refresh : Admin!Tokens]
      /\ jar'.refresh = jar.refresh /\ jar'.access \in {jar.access, 0}
  BY DEF Admin!AccessLapses, Admin!Expire, Admin!sessions, Admin!browser, Admin!None,
         Admin!Tokens, AdminInv, Admin!TypeOK
<1>2. Admin!TypeOK'
  BY <1>1 DEF AdminInv, Admin!TypeOK
<1>3. Rotated' /\ OneRefresh' /\ NotAgain' /\ \A m \in Calls : Knows(call'[m])
  BY <1>1 DEF AdminInv, Rotated, OneRefresh, NotAgain
<1>4. Exist'
  BY <1>1 DEF AdminInv, Exist, Admin!TypeOK
<1>5. FirstSight'
  BY <1>1 DEF AdminInv, FirstSight, OnItsWay, ComesWith, Seen
<1> QED
  BY <1>2, <1>3, <1>4, <1>5 DEF AdminInv
LEMMA AdminKeeps ==
  ASSUME Admin!BoundAssumption
  PROVE  AdminInv /\ [Admin!Next]_(Admin!adminVars) => AdminInv'
<1> SUFFICES ASSUME AdminInv, [Admin!Next]_(Admin!adminVars)
             PROVE  AdminInv'
  OBVIOUS
<1>1. CASE Admin!Next
  <2>1. UNCHANGED tab
    BY <1>1 DEF Admin!Next
  <2>2. ASSUME NEW k \in Calls,
               \/ Admin!Guard(k) \/ Admin!Check(k) \/ Admin!Lost(k) \/ Admin!Unauthorized(k)
               \/ Admin!Ask(k) \/ Admin!Succeeds(k)
               \/ \E signOut \in BOOLEAN : Admin!Start(k, signOut)
        PROVE  AdminInv'
    BY <2>1, <2>2, CallStepKeeps
  <2>3. ASSUME NEW k \in Calls,
               Admin!Revoke(k) \/ Admin!Rotate(k) \/ Admin!Refreshed(k) \/ Admin!RefreshFails(k)
        PROVE  AdminInv'
    BY <2>1, <2>3, RevokeKeeps, RotateKeeps, RefreshedKeeps, RefreshFailsKeeps
  <2>4. CASE Admin!SignIn \/ Admin!SignedIn \/ Admin!SignInFails
    BY <2>1, <2>4, SignInKeeps
  <2>5. CASE Admin!AccessLapses \/ \E s \in Admin!Sessions : Admin!Expire(s)
    BY <2>1, <2>5, LapseKeeps
  <2> QED
    BY <1>1, <2>2, <2>3, <2>4, <2>5 DEF Admin!Next, Admin!Act
<1>2. CASE UNCHANGED Admin!adminVars
  BY <1>2 DEF Admin!adminVars, Admin!sessions, Admin!browser, AdminInv, Admin!TypeOK, Rotated,
     OneRefresh, Exist, FirstSight, OnItsWay, ComesWith, Seen, NotAgain
<1> QED
  BY <1>1, <1>2
LEMMA AdminSound ==
  AdminInv => Admin!TypeOK /\ Admin!AdminSessionsSound
<1> SUFFICES ASSUME AdminInv
             PROVE  Admin!TypeOK /\ Admin!AdminSessionsSound
  OBVIOUS
<1>1. \A s \in Admin!Sessions : Cardinality(successor[s]) <= 1
  <2> SUFFICES ASSUME NEW s \in Admin!Sessions
               PROVE  Cardinality(successor[s]) <= 1
    OBVIOUS
  <2>1. CASE successor[s] = {}
    BY <2>1, FS_EmptySet
  <2>2. CASE successor[s] # {}
    <3>1. PICK x \in Admin!Sessions : successor[s] = {x}
      BY <2>2 DEF AdminInv, Rotated
    <3>2. Cardinality({x}) = 1
      BY FS_Singleton
    <3> QED
      BY <3>1, <3>2
  <2> QED
    BY <2>1, <2>2
<1> QED
  <2>1. Admin!RedeemedOnce
    BY <1>1 DEF Admin!RedeemedOnce, Cardinality, Admin!Cardinality
  <2>2. Admin!SignOutIsFinal
    BY DEF AdminInv, Rotated, Admin!SignOutIsFinal
  <2>3. Admin!NoTokenPresentedAgain
    BY DEF AdminInv, NotAgain, Admin!NoTokenPresentedAgain
  <2> QED
    BY <2>1, <2>2, <2>3 DEF AdminInv, Admin!AdminSessionsSound

\* An administrator's refresh token is redeemed once, a session that was signed out has no
\* successor, and no tab presents a token again that it has had rotated: rotate and
\* revoke of admin-sessions.repository.ts, and the shared refresh of admin.ts.
THEOREM AdminSessionsHold ==
  ASSUME Admin!BoundAssumption
  PROVE  Admin!Spec => [](Admin!TypeOK /\ Admin!AdminSessionsSound)
<1>1. Admin!Init => AdminInv
  BY AdminInit
<1>2. AdminInv /\ [Admin!Next]_(Admin!adminVars) => AdminInv'
  BY AdminKeeps
<1>3. AdminInv => Admin!TypeOK /\ Admin!AdminSessionsSound
  BY AdminSound
<1> QED
  BY <1>1, <1>2, <1>3, PTL DEF Admin!Spec

-----------------------------------------------------------------------------
(* The summaries of chats                                                  *)

CONSTANTS Cards, Others, MaxMessages, MaxFaults
VARIABLES count, exists, summary, lock, req, card, faults, overlapped

Refresh == INSTANCE AdminSummary

RequestRecords ==
  [at : {"none", "closed", "exists", "peek", "acquire", "load", "generate", "save", "reload",
         "release", "answer"},
   count : 0 .. Refresh!Unread, summary : Refresh!Summary \cup {Refresh!UnreadSummary},
   draft : Refresh!Summary, out : {"none", "state", "inProgress", "failed", "notFound"},
   state : Refresh!State]

CardRecords ==
  [view : Refresh!State, failed : BOOLEAN, conflict : BOOLEAN, over : BOOLEAN,
   attempted : SUBSET ((0 .. MaxMessages) \X (0 .. Refresh!Unread)),
   mutation : {"idle", "pending", "error"}]

Whole(s) == s.covers = 1 .. s.through

\* What a request has read and drafted at each place of its way.
ReadSoFar(q) ==
  LET r == req[q] IN
  /\ q \in Refresh!Gets =>
       /\ r.count = Refresh!Unread
       /\ r.at \in {"none", "closed", "exists", "peek", "load", "answer"}
  /\ q \in Refresh!Posts => r.at # "peek"
  /\ r.at \notin {"load", "reload", "generate", "save"} =>
       r.count = Refresh!Unread /\ r.summary = Refresh!UnreadSummary
  /\ r.summary # Refresh!UnreadSummary => Whole(r.summary)
  /\ r.at \in {"generate", "save"} =>
       Whole(r.draft) /\ r.draft.through <= r.count /\ r.count <= MaxMessages
  /\ exists /\ r.count # Refresh!Unread => r.count <= count

UnderLock == {"load", "generate", "save", "reload", "release"}

\* Until a lease lapses, a refresh holds the lock from its first read to its release, so
\* that what it read of the stored summary stays true.
Exclusively(q) ==
  LET r == req[q] IN
  q \in Refresh!Posts /\ ~overlapped =>
    /\ r.at \in UnderLock => lock = q
    /\ exists /\ r.at = "load" =>
         /\ r.summary # Refresh!UnreadSummary => r.summary = summary
         /\ r.count # Refresh!Unread => summary.through <= r.count
    /\ exists /\ r.at = "generate" => summary.through <= r.draft.through

Anchored == Whole(summary) /\ summary.through <= count

SummaryInv ==
  /\ Refresh!TypeOK /\ Anchored
  /\ \A q \in Refresh!Requests : ReadSoFar(q) /\ Exclusively(q)

\* A request that is where it was, beside a step that neither takes its lock nor writes
\* the summary while it is locked.
LEMMA RequestKept ==
  ASSUME SummaryInv, NEW q \in Refresh!Requests, req'[q] = req[q],
         exists' => exists /\ count <= count', count' \in 0 .. MaxMessages,
         ~overlapped' => ~overlapped,
         ~overlapped' /\ lock = q /\ req[q].at \in UnderLock => lock' = q,
         exists' /\ ~overlapped' /\ lock = q /\ req[q].at \in UnderLock => summary' = summary
  PROVE  ReadSoFar(q)' /\ Exclusively(q)'
<1>1. req[q] \in RequestRecords /\ count \in 0 .. MaxMessages
  BY DEF SummaryInv, Refresh!TypeOK, RequestRecords
<1>2. ReadSoFar(q) /\ Exclusively(q)
  BY DEF SummaryInv
<1>3. ReadSoFar(q)'
  BY <1>1, <1>2 DEF ReadSoFar, RequestRecords, Refresh!Unread, Whole
<1>4. Exclusively(q)'
  BY <1>2 DEF Exclusively, UnderLock
<1> QED
  BY <1>3, <1>4

\* A request that has nothing in hand: not sent, sent, or answered.
AtRest == {"none", "closed", "exists", "answer"}
Empty(r) == /\ r \in RequestRecords /\ r.at \in AtRest
            /\ r.count = Refresh!Unread /\ r.summary = Refresh!UnreadSummary

LEMMA EmptyRequest ==
  ASSUME Refresh!BoundsAssumption, NEW q \in Refresh!Requests, Empty(req'[q])
  PROVE  ReadSoFar(q)' /\ Exclusively(q)'
BY DEF Empty, AtRest, ReadSoFar, Exclusively, UnderLock, Refresh!Requests, Refresh!Gets, Refresh!Posts

LEMMA IdleRecords ==
  ASSUME Refresh!BoundsAssumption
  PROVE  /\ Empty(Refresh!Idle) /\ Empty(Refresh!Closed)
         /\ Empty([Refresh!Idle EXCEPT !.at = "exists"])
         /\ Refresh!NoState \in Refresh!State
         /\ Refresh!NoSummary \in Refresh!Summary
         /\ Refresh!Idle \in RequestRecords
<1>1. Refresh!NoState \in Refresh!State
  BY DEF Refresh!NoState, Refresh!State, Refresh!Unread, Refresh!BoundsAssumption
<1>2. Refresh!NoSummary \in Refresh!Summary
  BY DEF Refresh!NoSummary, Refresh!Summary, Refresh!Messages, Refresh!BoundsAssumption
<1>3. Refresh!Unread \in 0 .. Refresh!Unread
  BY DEF Refresh!Unread, Refresh!BoundsAssumption
<1>4. Refresh!Idle \in RequestRecords
  BY <1>1, <1>2, <1>3 DEF Refresh!Idle, RequestRecords
<1>5. /\ Refresh!Idle.count = Refresh!Unread /\ Refresh!Idle.summary = Refresh!UnreadSummary
      /\ Refresh!Idle.at = "none"
  BY DEF Refresh!Idle
<1>6. \A a \in AtRest : Empty([Refresh!Idle EXCEPT !.at = a])
  BY <1>4, <1>5 DEF Empty, AtRest, RequestRecords
<1> QED
  BY <1>1, <1>2, <1>4, <1>5, <1>6 DEF Empty, Refresh!Closed, AtRest

LEMMA Apart ==
  /\ Refresh!Nobody \notin Refresh!Requests
  /\ Refresh!Gets \cap Refresh!Posts = {}
<1>1. \A x : Refresh!Nobody \notin x \X {"get"} /\ Refresh!Nobody \notin x \X {"post"}
  BY DEF Refresh!Nobody
<1> QED
  BY <1>1 DEF Refresh!Requests, Refresh!Gets, Refresh!Posts

\* One request moves; if the summary is written or the lock changes hands, no other
\* request was under the lock, or a lease has lapsed.
LEMMA QuietStep ==
  ASSUME Refresh!BoundsAssumption, SummaryInv,
         NEW q \in Refresh!Requests, NEW r \in RequestRecords, req' = [req EXCEPT ![q] = r],
         UNCHANGED <<count, exists, card, overlapped>>, faults' \in 0 .. MaxFaults,
         lock' \in Refresh!Posts \cup {Refresh!Nobody},
         lock' = lock \/ lock = Refresh!Nobody \/ lock = q,
         summary' \in Refresh!Summary, Anchored',
         summary' = summary \/ overlapped \/ lock = q,
         ReadSoFar(q)', Exclusively(q)'
  PROVE  SummaryInv'
<1>1. /\ req' \in [Refresh!Requests -> RequestRecords]
      /\ \A p \in Refresh!Requests \ {q} : req'[p] = req[p]
  BY DEF SummaryInv, Refresh!TypeOK, RequestRecords
<1>2. Refresh!TypeOK'
  BY <1>1 DEF SummaryInv, Refresh!TypeOK, RequestRecords
<1>3. ASSUME NEW p \in Refresh!Requests \ {q}
      PROVE  ReadSoFar(p)' /\ Exclusively(p)'
  <2>1. p # Refresh!Nobody /\ count \in 0 .. MaxMessages
    BY Apart DEF SummaryInv, Refresh!TypeOK
  <2> QED
    BY <1>1, <2>1, RequestKept
<1> QED
  BY <1>2, <1>3 DEF SummaryInv

\* A request that answers keeps nothing.
LEMMA AnswerRecord ==
  ASSUME Refresh!BoundsAssumption, NEW o \in {"none", "state", "inProgress", "failed", "notFound"},
         NEW st \in Refresh!State, NEW a \in {"answer", "release"}
  PROVE  LET r == [Refresh!Idle EXCEPT !.at = a, !.out = o, !.state = st]
         IN  /\ r \in RequestRecords /\ r.at = a
             /\ r.count = Refresh!Unread /\ r.summary = Refresh!UnreadSummary
<1>1. /\ Refresh!Idle \in RequestRecords
      /\ Refresh!Idle.count = Refresh!Unread /\ Refresh!Idle.summary = Refresh!UnreadSummary
  BY IdleRecords DEF Empty
<1> QED
  BY <1>1 DEF RequestRecords

\* What can be said of every step that serves one request.
Serving(q) ==
  /\ req[q] \in RequestRecords /\ ReadSoFar(q) /\ Exclusively(q)
  /\ count \in 0 .. MaxMessages /\ faults \in 0 .. MaxFaults /\ exists \in BOOLEAN
  /\ lock \in Refresh!Posts \cup {Refresh!Nobody} /\ summary \in Refresh!Summary
  /\ MaxMessages \in Nat /\ Refresh!Unread = MaxMessages + 1
  /\ q \in Refresh!Gets \/ q \in Refresh!Posts

LEMMA Served ==
  ASSUME Refresh!BoundsAssumption, SummaryInv, NEW q \in Refresh!Requests
  PROVE  Serving(q)
BY DEF Serving, SummaryInv, Refresh!TypeOK, RequestRecords, Refresh!BoundsAssumption,
       Refresh!Unread, Refresh!Requests

LEMMA ExistsKeeps ==
  ASSUME Refresh!BoundsAssumption, SummaryInv, NEW q \in Refresh!Requests,
         Refresh!AssertChatExists(q)
  PROVE  SummaryInv'
<1> DEFINE r == IF ~exists
                THEN [Refresh!Idle EXCEPT !.at = "answer", !.out = "notFound", !.state = Refresh!NoState]
                ELSE [req[q] EXCEPT !.at = IF q \in Refresh!Gets THEN "peek" ELSE "acquire"]
<1>1. /\ req[q].at = "exists" /\ req' = [req EXCEPT ![q] = r]
      /\ UNCHANGED <<count, exists, summary, lock, card, faults, overlapped>>
  BY DEF Refresh!AssertChatExists, Refresh!End, Refresh!Goto, Refresh!chat, Refresh!history
<1>2. Serving(q)
  BY Served
<1>3. /\ r \in RequestRecords /\ r.count = Refresh!Unread /\ r.summary = Refresh!UnreadSummary
      /\ r.at \in {"answer", "peek", "acquire"}
      /\ r.at = "peek" => q \in Refresh!Gets
      /\ r.at = "acquire" => q \notin Refresh!Gets
  <2>1. CASE ~exists
    BY <2>1, AnswerRecord, IdleRecords
  <2>2. CASE exists
    BY <1>1, <1>2, <2>2 DEF Serving, ReadSoFar, RequestRecords
  <2> QED
    BY <2>1, <2>2
<1>4. req'[q] = r
  BY <1>1 DEF SummaryInv, Refresh!TypeOK
<1> HIDE DEF r
<1>5. ReadSoFar(q)' /\ Exclusively(q)'
  BY <1>1, <1>2, <1>3, <1>4, Apart DEF ReadSoFar, Exclusively, UnderLock, Serving
<1>6. Anchored'
  BY <1>1 DEF SummaryInv, Anchored
<1> QED
  BY <1>1, <1>2, <1>3, <1>5, <1>6, QuietStep DEF Serving

LEMMA PeekKeeps ==
  ASSUME Refresh!BoundsAssumption, SummaryInv, NEW q \in Refresh!Requests,
         Refresh!Peek(q)
  PROVE  SummaryInv'
<1> DEFINE r == [req[q] EXCEPT !.state = [@ EXCEPT !.generating = lock # Refresh!Nobody], !.at = "load"]
<1>1. /\ req[q].at = "peek" /\ req' = [req EXCEPT ![q] = r]
      /\ UNCHANGED <<count, exists, summary, lock, card, faults, overlapped>>
  BY DEF Refresh!Peek, Refresh!chat, Refresh!history
<1>2. Serving(q)
  BY Served
<1>3. /\ r \in RequestRecords /\ r.count = req[q].count /\ r.summary = req[q].summary
      /\ r.at = "load"
  <2>1. [req[q].state EXCEPT !.generating = lock # Refresh!Nobody] \in Refresh!State
    BY <1>2 DEF Serving, RequestRecords, Refresh!State
  <2> QED
    BY <1>2, <2>1 DEF Serving, RequestRecords
<1>4. req'[q] = r
  BY <1>1 DEF SummaryInv, Refresh!TypeOK
<1> HIDE DEF r
<1>5. ReadSoFar(q)' /\ Exclusively(q)'
  BY <1>1, <1>2, <1>3, <1>4, Apart DEF ReadSoFar, Exclusively, UnderLock, Serving
<1>6. Anchored'
  BY <1>1 DEF SummaryInv, Anchored
<1> QED
  BY <1>1, <1>2, <1>3, <1>5, <1>6, QuietStep DEF Serving

LEMMA LookKeeps ==
  ASSUME Refresh!BoundsAssumption, SummaryInv, NEW q \in Refresh!Requests,
         Refresh!Look(q)
  PROVE  SummaryInv'
<1> DEFINE st == [through |-> summary.through, pending |-> count - summary.through,
                  generating |-> req[q].state.generating]
           r == [Refresh!Idle EXCEPT !.at = "answer", !.out = "state", !.state = st]
<1>1. /\ req' = [req EXCEPT ![q] = r]
      /\ UNCHANGED <<count, exists, summary, lock, card, faults, overlapped>>
  BY DEF Refresh!Look, Refresh!End, Refresh!chat, Refresh!history
<1>2. Serving(q)
  BY Served
<1>3. st \in Refresh!State
  <2>1. summary.through \in 0 .. MaxMessages /\ summary.through <= count
    BY <1>2 DEF Serving, Refresh!Summary, SummaryInv, Anchored
  <2>2. count - summary.through \in 0 .. Refresh!Unread
    BY <1>2, <2>1 DEF Serving
  <2>3. req[q].state.generating \in BOOLEAN
    BY <1>2 DEF Serving, RequestRecords, Refresh!State
  <2> QED
    BY <2>1, <2>2, <2>3 DEF Refresh!State
<1>4. /\ r \in RequestRecords /\ r.at = "answer"
      /\ r.count = Refresh!Unread /\ r.summary = Refresh!UnreadSummary
  BY <1>3, AnswerRecord
<1>5. req'[q] = r
  BY <1>1 DEF SummaryInv, Refresh!TypeOK
<1> HIDE DEF r
<1>6. ReadSoFar(q)' /\ Exclusively(q)'
  BY <1>4, <1>5, EmptyRequest DEF Empty, AtRest
<1>7. Anchored'
  BY <1>1 DEF SummaryInv, Anchored
<1> QED
  BY <1>1, <1>2, <1>4, <1>6, <1>7, QuietStep DEF Serving

LEMMA AcquireKeeps ==
  ASSUME Refresh!BoundsAssumption, SummaryInv, NEW q \in Refresh!Requests,
         Refresh!Acquire(q)
  PROVE  SummaryInv'
<1>1. Serving(q) /\ Anchored
  BY Served DEF SummaryInv
<1>2. /\ req[q].at = "acquire" /\ UNCHANGED <<count, exists, summary, card, faults, overlapped>>
      /\ Anchored' /\ q \in Refresh!Posts /\ q \notin Refresh!Gets
  BY <1>1, Apart DEF Refresh!Acquire, Refresh!chat, Refresh!history, Anchored, Serving, ReadSoFar
<1>3. CASE Refresh!MayAcquire(q)
  <2> DEFINE r == [req[q] EXCEPT !.at = "load"]
  <2>1. lock = Refresh!Nobody /\ lock' = q /\ req' = [req EXCEPT ![q] = r]
    BY <1>3 DEF Refresh!Acquire, Refresh!MayAcquire, Refresh!Goto
  <2>2. /\ r \in RequestRecords /\ r.count = Refresh!Unread /\ r.summary = Refresh!UnreadSummary
        /\ r.at = "load"
    BY <1>1, <1>2 DEF Serving, RequestRecords, ReadSoFar
  <2>3. req'[q] = r
    BY <2>1 DEF SummaryInv, Refresh!TypeOK
  <2> HIDE DEF r
  <2>4. ReadSoFar(q)' /\ Exclusively(q)'
    BY <1>2, <2>1, <2>2, <2>3 DEF ReadSoFar, Exclusively, UnderLock
  <2> QED
    BY <1>1, <1>2, <2>1, <2>2, <2>4, QuietStep DEF Serving
<1>4. CASE ~Refresh!MayAcquire(q)
  <2> DEFINE r == [Refresh!Idle EXCEPT !.at = "answer", !.out = "inProgress", !.state = Refresh!NoState]
  <2>1. lock' = lock /\ req' = [req EXCEPT ![q] = r]
    BY <1>4 DEF Refresh!Acquire, Refresh!End
  <2>2. /\ r \in RequestRecords /\ r.at = "answer"
        /\ r.count = Refresh!Unread /\ r.summary = Refresh!UnreadSummary
    BY AnswerRecord, IdleRecords
  <2>3. req'[q] = r
    BY <2>1 DEF SummaryInv, Refresh!TypeOK
  <2> HIDE DEF r
  <2>4. ReadSoFar(q)' /\ Exclusively(q)'
    BY <2>2, <2>3, EmptyRequest DEF Empty, AtRest
  <2> QED
    BY <1>1, <1>2, <2>1, <2>2, <2>4, QuietStep DEF Serving
<1> QED
  BY <1>3, <1>4

LEMMA ReadKeeps ==
  ASSUME Refresh!BoundsAssumption, SummaryInv, NEW q \in Refresh!Requests,
         Refresh!ReadMessages(q) \/ Refresh!ReadSummary(q)
  PROVE  SummaryInv'
<1>1. Serving(q) /\ Anchored
  BY Served DEF SummaryInv
<1>2. /\ req[q].at \in {"load", "reload"}
      /\ UNCHANGED <<count, exists, summary, lock, card, faults, overlapped>>
      /\ Anchored' /\ q \in Refresh!Posts /\ q \notin Refresh!Gets
  BY <1>1, Apart DEF Refresh!ReadMessages, Refresh!ReadSummary, Refresh!chat, Refresh!history, Anchored
<1>3. CASE Refresh!ReadMessages(q)
  <2> DEFINE r == [req[q] EXCEPT !.count = count]
  <2>1. req' = [req EXCEPT ![q] = r]
    BY <1>3 DEF Refresh!ReadMessages
  <2>2. /\ r \in RequestRecords /\ r.count = count /\ r.summary = req[q].summary
        /\ r.at = req[q].at
    BY <1>1 DEF Serving, RequestRecords
  <2>3. req'[q] = r
    BY <2>1 DEF SummaryInv, Refresh!TypeOK
  <2> HIDE DEF r
  <2>4. ReadSoFar(q)' /\ Exclusively(q)'
    BY <1>1, <1>2, <2>2, <2>3 DEF ReadSoFar, Exclusively, UnderLock, Serving, Anchored
  <2> QED
    BY <1>1, <1>2, <2>1, <2>2, <2>4, QuietStep DEF Serving
<1>4. CASE Refresh!ReadSummary(q)
  <2> DEFINE r == [req[q] EXCEPT !.summary = summary]
  <2>1. req' = [req EXCEPT ![q] = r] /\ req[q].at = "load"
    BY <1>4 DEF Refresh!ReadSummary
  <2>2. /\ r \in RequestRecords /\ r.count = req[q].count /\ r.summary = summary
        /\ r.at = "load"
    BY <1>1, <2>1 DEF Serving, RequestRecords
  <2>3. req'[q] = r
    BY <2>1 DEF SummaryInv, Refresh!TypeOK
  <2> HIDE DEF r
  <2>4. ReadSoFar(q)' /\ Exclusively(q)'
    BY <1>1, <1>2, <2>1, <2>2, <2>3 DEF ReadSoFar, Exclusively, UnderLock, Serving, Anchored
  <2> QED
    BY <1>1, <1>2, <2>1, <2>2, <2>4, QuietStep DEF Serving
<1> QED
  BY <1>3, <1>4

\* Who has read both is a POST, and what it read is bounded.
LEMMA LoadedRead ==
  ASSUME Refresh!BoundsAssumption, SummaryInv, NEW q \in Refresh!Requests, Refresh!Loaded(q)
  PROVE  /\ q \in Refresh!Posts /\ q \notin Refresh!Gets
         /\ req[q].count \in 0 .. MaxMessages
         /\ req[q].summary \in Refresh!Summary /\ Whole(req[q].summary)
         /\ Refresh!StateOf(q) \in Refresh!State
<1>1. Serving(q)
  BY Served
<1>2. /\ q \in Refresh!Posts /\ q \notin Refresh!Gets
      /\ req[q].count \in 0 .. MaxMessages
      /\ req[q].summary \in Refresh!Summary /\ Whole(req[q].summary)
  BY <1>1, Apart DEF Refresh!Loaded, Serving, ReadSoFar, RequestRecords
<1>3. req[q].summary.through \in 0 .. MaxMessages
  BY <1>2 DEF Refresh!Summary
<1>4. Cardinality(Refresh!Pending(q)) \in 0 .. Refresh!Unread
  <2> DEFINE a == IF Refresh!AnchorSeen(q) THEN req[q].summary.through + 1 ELSE 1
             b == req[q].count
  <2>1. a \in Int /\ b \in Int /\ a >= 1 /\ b <= MaxMessages /\ b >= 0 /\ MaxMessages \in Nat
    BY <1>1, <1>2, <1>3 DEF Serving
  <2>2. Refresh!Pending(q) = a .. b
    BY DEF Refresh!Pending
  <2> HIDE DEF a, b
  <2>3. Cardinality(a .. b) = IF a > b THEN 0 ELSE b - a + 1
    BY <2>1, FS_Interval
  <2> QED
    BY <1>1, <2>1, <2>2, <2>3 DEF Serving
<1>5. Refresh!Cardinality(Refresh!Pending(q)) = Cardinality(Refresh!Pending(q))
  BY DEF Cardinality, Refresh!Cardinality
<1> QED
  BY <1>2, <1>3, <1>4, <1>5 DEF Refresh!StateOf, Refresh!State

LEMMA PresentKeeps ==
  ASSUME Refresh!BoundsAssumption, SummaryInv, NEW q \in Refresh!Requests,
         Refresh!Present(q)
  PROVE  SummaryInv'
<1> DEFINE st == Refresh!StateOf(q)
           r == [Refresh!Idle EXCEPT !.at = "release", !.out = "state", !.state = st]
<1>1. Serving(q) /\ Refresh!Loaded(q)
  BY Served DEF Refresh!Present
<1>2. /\ req' = [req EXCEPT ![q] = r] /\ req[q].at \in {"load", "reload"}
      /\ UNCHANGED <<count, exists, summary, lock, card, faults, overlapped>>
  BY DEF Refresh!Present, Refresh!End, Refresh!chat, Refresh!history, Refresh!Loaded
<1>3. st \in Refresh!State /\ q \in Refresh!Posts /\ q \notin Refresh!Gets
  BY <1>1, LoadedRead
<1> HIDE DEF st
<1>4. /\ r \in RequestRecords /\ r.at = "release"
      /\ r.count = Refresh!Unread /\ r.summary = Refresh!UnreadSummary
  BY <1>3, AnswerRecord
<1>5. req'[q] = r
  BY <1>2 DEF SummaryInv, Refresh!TypeOK
<1> HIDE DEF r
<1>6. ReadSoFar(q)' /\ Exclusively(q)'
  BY <1>1, <1>2, <1>3, <1>4, <1>5 DEF ReadSoFar, Exclusively, UnderLock, Serving
<1>7. Anchored'
  BY <1>2 DEF SummaryInv, Anchored
<1> QED
  BY <1>1, <1>2, <1>4, <1>6, <1>7, QuietStep DEF Serving

LEMMA GenerateKeeps ==
  ASSUME Refresh!BoundsAssumption, SummaryInv, NEW q \in Refresh!Requests,
         Refresh!Generate(q)
  PROVE  SummaryInv'
<1> DEFINE d == Refresh!Previous(q)
           r == [req[q] EXCEPT !.draft = d, !.summary = Refresh!UnreadSummary, !.at = "generate"]
<1>1. Serving(q) /\ Refresh!Loaded(q)
  BY Served DEF Refresh!Generate
<1>2. /\ req' = [req EXCEPT ![q] = r] /\ req[q].at = "load"
      /\ UNCHANGED <<count, exists, summary, lock, card, faults, overlapped>>
  BY DEF Refresh!Generate, Refresh!chat, Refresh!history
<1>3. /\ q \in Refresh!Posts /\ q \notin Refresh!Gets
      /\ req[q].count \in 0 .. MaxMessages
      /\ req[q].summary \in Refresh!Summary /\ Whole(req[q].summary)
      /\ req[q].summary # Refresh!UnreadSummary /\ req[q].count # Refresh!Unread
  BY <1>1, LoadedRead DEF Refresh!Loaded
<1>4. /\ d \in Refresh!Summary /\ Whole(d) /\ d.through <= req[q].count
      /\ d.through = IF Refresh!AnchorSeen(q) THEN req[q].summary.through ELSE 0
  BY <1>3, IdleRecords DEF Refresh!Previous, Refresh!AnchorSeen, Refresh!NoSummary, Whole
<1>5. req[q].summary.through \in 0 .. MaxMessages
  BY <1>3 DEF Refresh!Summary
<1>6. q \in Refresh!Posts /\ ~overlapped /\ exists => summary.through <= d.through
  BY <1>1, <1>2, <1>3, <1>4, <1>5 DEF Serving, Exclusively, Refresh!AnchorSeen
<1> HIDE DEF d
<1>7. /\ r \in RequestRecords /\ r.at = "generate" /\ r.draft = d
      /\ r.count = req[q].count /\ r.summary = Refresh!UnreadSummary
  BY <1>1, <1>4 DEF Serving, RequestRecords
<1>8. req'[q] = r
  BY <1>2 DEF SummaryInv, Refresh!TypeOK
<1> HIDE DEF r
<1>9. ReadSoFar(q)'
  BY <1>1, <1>2, <1>3, <1>4, <1>7, <1>8 DEF ReadSoFar, Serving
<1>10. Exclusively(q)'
  BY <1>1, <1>2, <1>3, <1>6, <1>7, <1>8 DEF Exclusively, UnderLock, Serving
<1>11. Anchored'
  BY <1>2 DEF SummaryInv, Anchored
<1> QED
  BY <1>1, <1>2, <1>7, <1>9, <1>10, <1>11, QuietStep DEF Serving

LEMMA CompleteKeeps ==
  ASSUME Refresh!BoundsAssumption, SummaryInv, NEW q \in Refresh!Requests,
         Refresh!Complete(q)
  PROVE  SummaryInv'
<1>1. Serving(q) /\ req[q].at = "generate"
      /\ UNCHANGED <<count, exists, summary, lock, card, faults, overlapped>>
  BY Served DEF Refresh!Complete, Refresh!chat, Refresh!history
<1> DEFINE old == req[q].draft
<1>2. /\ q \in Refresh!Posts /\ q \notin Refresh!Gets
      /\ old \in Refresh!Summary /\ Whole(old) /\ old.through <= req[q].count
      /\ req[q].count \in 0 .. MaxMessages
  BY <1>1, Apart DEF Serving, ReadSoFar, RequestRecords
<1>3. old.through \in 0 .. MaxMessages
  BY <1>2 DEF Refresh!Summary
<1>4. PICK last \in old.through + 1 .. req[q].count :
        req' = [req EXCEPT
          ![q].draft = [covers |-> @.covers \cup (@.through + 1 .. last), through |-> last],
          ![q].at = IF last = req[q].count THEN "save" ELSE "generate"]
  BY DEF Refresh!Complete
<1> DEFINE d == [covers |-> old.covers \cup (old.through + 1 .. last), through |-> last]
           r == [req[q] EXCEPT !.draft = d, !.at = IF last = req[q].count THEN "save" ELSE "generate"]
<1>5. req' = [req EXCEPT ![q] = r]
  BY <1>4
<1>6. /\ d \in Refresh!Summary /\ Whole(d) /\ d.through <= req[q].count
      /\ old.through <= d.through
  <2>1. last \in 1 .. MaxMessages /\ last <= req[q].count /\ old.through < last
    BY <1>1, <1>2, <1>3 DEF Serving
  <2>2. old.covers \cup (old.through + 1 .. last) = 1 .. last
    BY <1>2, <1>3, <2>1 DEF Whole
  <2>3. 1 .. last \in SUBSET Refresh!Messages
    BY <1>1, <2>1 DEF Refresh!Messages, Serving
  <2>4. d.covers = 1 .. last /\ d.through = last
    BY <2>2
  <2>5. d \in Refresh!Summary
    BY <2>1, <2>2, <2>3 DEF Refresh!Summary
  <2> QED
    BY <1>3, <2>1, <2>4, <2>5 DEF Whole
<1> HIDE DEF d
<1>7. /\ r \in RequestRecords /\ r.at \in {"generate", "save"} /\ r.draft = d
      /\ r.count = req[q].count /\ r.summary = req[q].summary
  BY <1>1, <1>6 DEF Serving, RequestRecords
<1>8. req'[q] = r
  BY <1>5 DEF SummaryInv, Refresh!TypeOK
<1> HIDE DEF r
<1>9. ReadSoFar(q)'
  BY <1>1, <1>2, <1>6, <1>7, <1>8 DEF ReadSoFar, Serving
<1>10. Exclusively(q)'
  <2>1. summary.through \in Int /\ d.through \in Int
    BY <1>1, <1>6 DEF Serving, Refresh!Summary
  <2> QED
    BY <1>1, <1>2, <1>3, <1>6, <1>7, <1>8, <2>1 DEF Exclusively, UnderLock, Serving
<1>11. Anchored'
  BY <1>1 DEF SummaryInv, Anchored
<1> QED
  BY <1>1, <1>5, <1>7, <1>9, <1>10, <1>11, QuietStep DEF Serving

LEMMA SaveKeeps ==
  ASSUME Refresh!BoundsAssumption, SummaryInv, NEW q \in Refresh!Requests,
         Refresh!Save(q)
  PROVE  SummaryInv'
<1>1. Serving(q) /\ req[q].at = "save"
      /\ UNCHANGED <<count, exists, lock, card, faults, overlapped>>
  BY Served DEF Refresh!Save, Refresh!history
<1> DEFINE d == req[q].draft
<1>2. /\ q \in Refresh!Posts /\ q \notin Refresh!Gets
      /\ d \in Refresh!Summary /\ Whole(d) /\ d.through <= req[q].count
      /\ req[q].count \in 0 .. MaxMessages
      /\ overlapped \/ lock = q
  BY <1>1, Apart DEF Serving, ReadSoFar, RequestRecords, Exclusively, UnderLock
<1>3. CASE exists
  <2> DEFINE r == [Refresh!Idle EXCEPT !.at = "reload", !.summary = d]
  <2>1. summary' = d /\ req' = [req EXCEPT ![q] = r]
    BY <1>3 DEF Refresh!Save, Refresh!Saved
  <2>2. /\ r \in RequestRecords /\ r.at = "reload" /\ r.count = Refresh!Unread /\ r.summary = d
    BY <1>2, IdleRecords DEF RequestRecords, Empty
  <2>3. req'[q] = r
    BY <2>1 DEF SummaryInv, Refresh!TypeOK
  <2> HIDE DEF r
  <2>4. ReadSoFar(q)' /\ Exclusively(q)'
    BY <1>1, <1>2, <2>2, <2>3 DEF ReadSoFar, Exclusively, UnderLock
  <2>5. Anchored'
    <3>1. req[q].count # Refresh!Unread
      BY <1>1, <1>2 DEF Serving
    <3>2. req[q].count <= count /\ d.through \in Int /\ count \in Int
      BY <1>1, <1>2, <1>3, <3>1 DEF Serving, ReadSoFar, Refresh!Summary
    <3> QED
      BY <1>1, <1>2, <2>1, <3>2 DEF Anchored
  <2> QED
    BY <1>1, <1>2, <2>1, <2>2, <2>4, <2>5, QuietStep DEF Serving
<1>4. CASE ~exists
  <2> DEFINE r == [Refresh!Idle EXCEPT !.at = "release", !.out = "notFound", !.state = Refresh!NoState]
  <2>1. summary' = summary /\ req' = [req EXCEPT ![q] = r]
    BY <1>4 DEF Refresh!Save, Refresh!End
  <2>2. /\ r \in RequestRecords /\ r.at = "release"
        /\ r.count = Refresh!Unread /\ r.summary = Refresh!UnreadSummary
    BY AnswerRecord, IdleRecords
  <2>3. req'[q] = r
    BY <2>1 DEF SummaryInv, Refresh!TypeOK
  <2> HIDE DEF r
  <2>4. ReadSoFar(q)' /\ Exclusively(q)'
    BY <1>1, <1>2, <2>2, <2>3 DEF ReadSoFar, Exclusively, UnderLock
  <2>5. Anchored'
    BY <1>1, <2>1 DEF SummaryInv, Anchored
  <2> QED
    BY <1>1, <2>1, <2>2, <2>4, <2>5, QuietStep DEF Serving
<1> QED
  BY <1>3, <1>4

LEMMA ReleaseKeeps ==
  ASSUME Refresh!BoundsAssumption, SummaryInv, NEW q \in Refresh!Requests,
         Refresh!Release(q)
  PROVE  SummaryInv'
<1> DEFINE r == [req[q] EXCEPT !.at = "answer"]
<1>1. /\ Serving(q) /\ req[q].at = "release" /\ req' = [req EXCEPT ![q] = r]
      /\ lock' = IF lock = q THEN Refresh!Nobody ELSE lock
      /\ UNCHANGED <<count, exists, summary, card, faults, overlapped>>
  BY Served DEF Refresh!Release, Refresh!Goto, Refresh!Freed, Refresh!chat, Refresh!history
<1>2. /\ r \in RequestRecords /\ r.at = "answer"
      /\ r.count = Refresh!Unread /\ r.summary = Refresh!UnreadSummary
  BY <1>1 DEF Serving, RequestRecords, ReadSoFar
<1>3. req'[q] = r
  BY <1>1 DEF SummaryInv, Refresh!TypeOK
<1> HIDE DEF r
<1>4. ReadSoFar(q)' /\ Exclusively(q)'
  BY <1>2, <1>3, EmptyRequest DEF Empty, AtRest
<1>5. Anchored'
  BY <1>1 DEF SummaryInv, Anchored
<1> QED
  BY <1>1, <1>2, <1>4, <1>5, QuietStep DEF Serving

LEMMA CallFailsKeeps ==
  ASSUME Refresh!BoundsAssumption, SummaryInv, NEW q \in Refresh!Requests,
         Refresh!CallFails(q)
  PROVE  SummaryInv'
<1> DEFINE a == IF Refresh!UnderLock(q) THEN "release" ELSE "answer"
           r == [Refresh!Idle EXCEPT !.at = a, !.out = "failed", !.state = Refresh!NoState]
<1>1. /\ Serving(q) /\ req' = [req EXCEPT ![q] = r]
      /\ UNCHANGED <<count, exists, summary, card, overlapped>>
      /\ faults' = faults + 1 /\ faults < MaxFaults
  BY Served DEF Refresh!CallFails, Refresh!End, Refresh!Fault, Refresh!chat
<1>2. \/ lock' = lock
      \/ req[q].at = "acquire" /\ lock = Refresh!Nobody /\ lock' = q
      \/ req[q].at = "release" /\ lock' = IF lock = q THEN Refresh!Nobody ELSE lock
  BY DEF Refresh!CallFails, Refresh!Freed
<1>3. req[q].at \in {"acquire", "release"} => q \in Refresh!Posts
  BY <1>1 DEF Serving, ReadSoFar
<1>4. a \in {"answer", "release"} /\ (a = "release" =>
        q \in Refresh!Posts /\ req[q].at \in {"load", "generate", "save", "reload"})
  BY DEF Refresh!UnderLock
<1> HIDE DEF a
<1>5. /\ r \in RequestRecords /\ r.at = a
      /\ r.count = Refresh!Unread /\ r.summary = Refresh!UnreadSummary
  <2>1. Refresh!NoState \in Refresh!State
    BY IdleRecords
  <2>2. ASSUME NEW b \in {"answer", "release"}
        PROVE  LET c == [Refresh!Idle EXCEPT !.at = b, !.out = "failed", !.state = Refresh!NoState]
               IN  /\ c \in RequestRecords /\ c.at = b
                   /\ c.count = Refresh!Unread /\ c.summary = Refresh!UnreadSummary
    <3>1. /\ Refresh!Idle \in RequestRecords
          /\ Refresh!Idle.count = Refresh!Unread /\ Refresh!Idle.summary = Refresh!UnreadSummary
      BY IdleRecords DEF Empty
    <3> QED
      BY <2>1, <3>1 DEF RequestRecords
  <2> QED
    BY <1>4, <2>2
<1>6. req'[q] = r
  BY <1>1 DEF SummaryInv, Refresh!TypeOK
<1> HIDE DEF r
<1>7. ReadSoFar(q)' /\ Exclusively(q)'
  <2>1. CASE a = "answer"
    BY <1>5, <1>6, <2>1, EmptyRequest DEF Empty, AtRest
  <2>2. CASE a = "release"
    BY <1>1, <1>2, <1>4, <1>5, <1>6, <2>2, Apart DEF ReadSoFar, Exclusively, UnderLock, Serving
  <2> QED
    BY <1>4, <2>1, <2>2
<1>8. Anchored'
  BY <1>1 DEF SummaryInv, Anchored
<1>9. faults' \in 0 .. MaxFaults
  BY <1>1 DEF Serving, Refresh!BoundsAssumption
<1>10. /\ lock' \in Refresh!Posts \cup {Refresh!Nobody}
       /\ lock' = lock \/ lock = Refresh!Nobody \/ lock = q
  BY <1>1, <1>2, <1>3 DEF Serving
<1> QED
  BY <1>1, <1>5, <1>7, <1>8, <1>9, <1>10, QuietStep DEF Serving

\* Crashes, leases that end or lapse, and the chat's owner.
LEMMA WorldKeeps ==
  ASSUME Refresh!BoundsAssumption, SummaryInv,
         Refresh!Expire \/ Refresh!Lapse \/ Refresh!TurnCompletes \/ Refresh!DeleteChat
  PROVE  SummaryInv'
<1>1. /\ UNCHANGED <<req, card>> /\ count \in 0 .. MaxMessages /\ Anchored
      /\ summary \in Refresh!Summary /\ faults \in 0 .. MaxFaults /\ exists \in BOOLEAN
      /\ lock \in Refresh!Posts \cup {Refresh!Nobody} /\ overlapped \in BOOLEAN
  BY DEF SummaryInv, Refresh!TypeOK, Refresh!Expire, Refresh!Lapse, Refresh!TurnCompletes, Refresh!DeleteChat
<1>2. /\ count' \in 0 .. MaxMessages /\ summary' \in Refresh!Summary /\ faults' \in 0 .. MaxFaults
      /\ exists' \in BOOLEAN /\ lock' \in Refresh!Posts \cup {Refresh!Nobody} /\ overlapped' \in BOOLEAN
      /\ exists' => exists /\ count <= count' /\ summary' = summary
      /\ ~overlapped' => ~overlapped
      /\ Anchored'
  <2>1. CASE Refresh!Expire
    BY <1>1, <2>1 DEF Refresh!Expire, Refresh!chat, Refresh!history, Anchored
  <2>2. CASE Refresh!Lapse
    BY <1>1, <2>2 DEF Refresh!Lapse, Refresh!chat, Anchored, Refresh!BoundsAssumption
  <2>3. CASE Refresh!TurnCompletes
    <3>1. summary.through \in Int
      BY <1>1 DEF Refresh!Summary
    <3> QED
      BY <1>1, <2>3, <3>1 DEF Refresh!TurnCompletes, Refresh!history, Anchored, Refresh!BoundsAssumption
  <2>4. CASE Refresh!DeleteChat
    <3>1. Refresh!NoSummary \in Refresh!Summary
      BY IdleRecords
    <3>2. /\ exists' = FALSE /\ count' = 0 /\ summary' = Refresh!NoSummary
          /\ UNCHANGED <<lock, faults, overlapped>>
      BY <2>4 DEF Refresh!DeleteChat, Refresh!history
    <3>3. 0 \in 0 .. MaxMessages
      BY DEF Refresh!BoundsAssumption
    <3>4. Anchored'
      BY <3>2 DEF Anchored, Whole, Refresh!NoSummary
    <3> QED
      BY <1>1, <3>1, <3>2, <3>3, <3>4
  <2> QED
    BY <2>1, <2>2, <2>3, <2>4
<1>3. ASSUME NEW q \in Refresh!Requests, ~overlapped', lock = q, req[q].at \in UnderLock
      PROVE  lock' = q
  BY <1>3 DEF Refresh!Expire, Refresh!Lapse, Refresh!TurnCompletes, Refresh!DeleteChat,
              Refresh!Running, UnderLock
<1>4. Refresh!TypeOK'
  BY <1>1, <1>2 DEF SummaryInv, Refresh!TypeOK
<1>5. ASSUME NEW q \in Refresh!Requests
      PROVE  ReadSoFar(q)' /\ Exclusively(q)'
  BY <1>1, <1>2, <1>3, RequestKept
<1> QED
  BY <1>2, <1>4, <1>5 DEF SummaryInv

LEMMA CrashKeeps ==
  ASSUME Refresh!BoundsAssumption, SummaryInv, Refresh!Crash
  PROVE  SummaryInv'
<1> DEFINE r == [Refresh!Idle EXCEPT !.at = "answer", !.out = "failed"]
<1>1. /\ req' = [q \in Refresh!Requests |-> IF Refresh!Running(q) THEN r ELSE req[q]]
      /\ UNCHANGED <<count, exists, summary, lock, card, overlapped>>
      /\ faults' = faults + 1 /\ faults < MaxFaults /\ faults \in 0 .. MaxFaults
      /\ count \in 0 .. MaxMessages
  BY DEF Refresh!Crash, Refresh!Fault, Refresh!chat, SummaryInv, Refresh!TypeOK
<1>2. Empty(r)
  <2>1. /\ Refresh!Idle \in RequestRecords
        /\ Refresh!Idle.count = Refresh!Unread /\ Refresh!Idle.summary = Refresh!UnreadSummary
    BY IdleRecords DEF Empty
  <2> QED
    BY <2>1 DEF Empty, AtRest, RequestRecords
<1> HIDE DEF r
<1>3. Refresh!TypeOK'
  <2>1. req' \in [Refresh!Requests -> RequestRecords]
    BY <1>1, <1>2 DEF Empty, SummaryInv, Refresh!TypeOK, RequestRecords
  <2>2. faults' \in 0 .. MaxFaults
    BY <1>1 DEF Refresh!BoundsAssumption
  <2> QED
    BY <1>1, <2>1, <2>2 DEF SummaryInv, Refresh!TypeOK, RequestRecords
<1>4. ASSUME NEW q \in Refresh!Requests
      PROVE  ReadSoFar(q)' /\ Exclusively(q)'
  <2>1. CASE Refresh!Running(q)
    BY <1>1, <1>2, <2>1, EmptyRequest
  <2>2. CASE ~Refresh!Running(q)
    BY <1>1, <2>2, RequestKept
  <2> QED
    BY <2>1, <2>2
<1>5. Anchored'
  BY <1>1 DEF SummaryInv, Anchored
<1> QED
  BY <1>3, <1>4, <1>5 DEF SummaryInv

\* The browsers only send requests and take answers.
LEMMA BrowserKeeps ==
  ASSUME Refresh!BoundsAssumption, SummaryInv, Refresh!Browse,
         card' \in [Cards -> CardRecords],
         req' \in [Refresh!Requests -> RequestRecords],
         \A q \in Refresh!Requests : req'[q] = req[q] \/ Empty(req'[q])
  PROVE  SummaryInv'
<1>1. /\ UNCHANGED <<count, exists, summary, lock, faults, overlapped>>
      /\ count \in 0 .. MaxMessages
  BY DEF Refresh!Browse, Refresh!chat, Refresh!history, SummaryInv, Refresh!TypeOK
<1>2. Refresh!TypeOK'
  BY <1>1 DEF SummaryInv, Refresh!TypeOK, RequestRecords, CardRecords
<1>3. ASSUME NEW q \in Refresh!Requests
      PROVE  ReadSoFar(q)' /\ Exclusively(q)'
  BY <1>1, RequestKept, EmptyRequest
<1>4. Anchored'
  BY <1>1 DEF SummaryInv, Anchored
<1> QED
  BY <1>2, <1>3, <1>4 DEF SummaryInv

LEMMA BeginSends ==
  ASSUME Refresh!BoundsAssumption, SummaryInv, NEW q \in Refresh!Requests, Refresh!Begin(q)
  PROVE  /\ req' \in [Refresh!Requests -> RequestRecords]
         /\ \A p \in Refresh!Requests : req'[p] = req[p] \/ Empty(req'[p])
<1> DEFINE r == [Refresh!Idle EXCEPT !.at = "exists"]
<1>1. Empty(r)
  BY IdleRecords
<1>2. req' = [req EXCEPT ![q] = r]
  BY DEF Refresh!Begin
<1>3. req \in [Refresh!Requests -> RequestRecords]
  BY DEF SummaryInv, Refresh!TypeOK, RequestRecords
<1> HIDE DEF r
<1> QED
  BY <1>1, <1>2, <1>3 DEF Empty

LEMMA AnswerTaken ==
  ASSUME Refresh!BoundsAssumption, SummaryInv, NEW q \in Refresh!Requests,
         NEW r, r \in {Refresh!Idle, Refresh!Closed},
         \/ req' = [req EXCEPT ![q] = r]
         \/ \E p \in Refresh!Requests : req' = [req EXCEPT ![q] = r, ![p] = r]
  PROVE  /\ req' \in [Refresh!Requests -> RequestRecords]
         /\ \A p \in Refresh!Requests : req'[p] = req[p] \/ Empty(req'[p])
<1>1. Empty(r)
  BY IdleRecords
<1>2. req \in [Refresh!Requests -> RequestRecords]
  BY DEF SummaryInv, Refresh!TypeOK, RequestRecords
<1> QED
  BY <1>1, <1>2 DEF Empty

LEMMA CardKeeps ==
  ASSUME Refresh!BoundsAssumption, SummaryInv, NEW c \in Cards,
         \/ Refresh!Poll(c) \/ Refresh!Refetch(c) \/ Refresh!GetAnswered(c)
         \/ Refresh!PostAnswered(c) \/ Refresh!EndConflict(c) \/ Refresh!AutoRefresh(c)
         \/ Refresh!Retry(c)
  PROVE  SummaryInv'
<1>1. /\ Refresh!Get(c) \in Refresh!Requests /\ Refresh!Post(c) \in Refresh!Requests
      /\ card \in [Cards -> CardRecords] /\ req \in [Refresh!Requests -> RequestRecords]
  BY DEF Refresh!Get, Refresh!Post, Refresh!Requests, Refresh!Gets, Refresh!Posts,
         SummaryInv, Refresh!TypeOK, CardRecords, RequestRecords
<1> DEFINE old == card[c]
<1>2. old \in CardRecords
  BY <1>1
<1>3. ASSUME NEW new \in CardRecords, card' = [card EXCEPT ![c] = new]
      PROVE  card' \in [Cards -> CardRecords]
  BY <1>1, <1>3
<1>4. \A q \in Refresh!Requests : req[q].state \in Refresh!State
  BY <1>1 DEF RequestRecords
<1>5. Refresh!Pair(c) \in SUBSET ((0 .. MaxMessages) \X (0 .. Refresh!Unread))
  BY <1>2 DEF Refresh!Pair, CardRecords, Refresh!State
<1>6. ASSUME Refresh!Begin(Refresh!Get(c)), UNCHANGED card, Refresh!Browse
      PROVE  SummaryInv'
  BY <1>1, <1>6, BeginSends, BrowserKeeps
<1>7. ASSUME Refresh!Mutate(c)
      PROVE  SummaryInv'
  <2> DEFINE new == [old EXCEPT !.conflict = FALSE, !.over = FALSE, !.mutation = "pending",
                                !.attempted = Refresh!Pair(c)]
  <2>1. card' = [card EXCEPT ![c] = new] /\ Refresh!Begin(Refresh!Post(c)) /\ Refresh!Browse
    BY <1>7 DEF Refresh!Mutate
  <2>2. new \in CardRecords
    BY <1>2, <1>5 DEF CardRecords
  <2> HIDE DEF new
  <2> QED
    BY <1>1, <1>3, <2>1, <2>2, BeginSends, BrowserKeeps
<1>8. CASE Refresh!Poll(c) \/ Refresh!Refetch(c)
  BY <1>6, <1>8 DEF Refresh!Poll, Refresh!Refetch
<1>9. CASE Refresh!AutoRefresh(c) \/ Refresh!Retry(c)
  BY <1>6, <1>7, <1>9 DEF Refresh!AutoRefresh, Refresh!Retry
<1>10. CASE Refresh!GetAnswered(c)
  <2> DEFINE q == Refresh!Get(c)
             new == IF req[q].out = "state"
                    THEN [old EXCEPT !.view = req[q].state, !.failed = FALSE,
                                     !.over = card[c].over \/ card[c].conflict]
                    ELSE [old EXCEPT !.failed = TRUE]
  <2>1. req' = [req EXCEPT ![q] = Refresh!Idle] /\ Refresh!Browse
    BY <1>10 DEF Refresh!GetAnswered
  <2>4. card' = [card EXCEPT ![c] = new]
    BY <1>10 DEF Refresh!GetAnswered
  <2>2. new \in CardRecords
    BY <1>1, <1>2, <1>4 DEF CardRecords
  <2> HIDE DEF new
  <2>3. card' \in [Cards -> CardRecords]
    BY <1>3, <2>2, <2>4
  <2> QED
    BY <1>1, <2>1, <2>3, AnswerTaken, BrowserKeeps
<1>11. CASE Refresh!PostSucceeded(c)
  <2> DEFINE q == Refresh!Post(c)
             new == [old EXCEPT !.view = req[q].state, !.failed = FALSE,
                                !.over = card[c].over \/ card[c].conflict, !.mutation = "idle"]
  <2>1. req' = [req EXCEPT ![q] = Refresh!Idle, ![Refresh!Get(c)] = Refresh!Idle] /\ Refresh!Browse
    BY <1>11 DEF Refresh!PostSucceeded
  <2>5. card' = [card EXCEPT ![c] = new]
    BY <1>11 DEF Refresh!PostSucceeded
  <2>2. new \in CardRecords
    BY <1>1, <1>2, <1>4 DEF CardRecords
  <2> HIDE DEF new
  <2>3. card' \in [Cards -> CardRecords]
    BY <1>3, <2>2, <2>5
  <2>4. /\ req' \in [Refresh!Requests -> RequestRecords]
        /\ \A p \in Refresh!Requests : req'[p] = req[p] \/ Empty(req'[p])
    BY <1>1, <2>1, AnswerTaken
  <2> QED
    BY <2>1, <2>3, <2>4, BrowserKeeps
<1>12. CASE Refresh!PostConflicted(c)
  <2> DEFINE q == Refresh!Post(c)
             new == [old EXCEPT !.attempted = Refresh!AfterConflict(c), !.conflict = TRUE,
                                !.over = FALSE, !.mutation = "idle"]
  <2>1. /\ card' = [card EXCEPT ![c] = new] /\ Refresh!Browse
        /\ req' = [req EXCEPT ![q] = Refresh!Idle]
    BY <1>1, <1>12 DEF Refresh!PostConflicted
  <2>2. new \in CardRecords
    BY <1>1, <1>2 DEF CardRecords, Refresh!AfterConflict
  <2> HIDE DEF new
  <2>3. card' \in [Cards -> CardRecords]
    BY <1>3, <2>1, <2>2
  <2> QED
    BY <1>1, <2>1, <2>3, AnswerTaken, BrowserKeeps
<1>13. CASE Refresh!PostFailed(c)
  <2> DEFINE q == Refresh!Post(c)
             new == [old EXCEPT !.mutation = "error"]
  <2>1. /\ card' = [card EXCEPT ![c] = new] /\ Refresh!Browse
        /\ req' = [req EXCEPT ![q] = Refresh!Idle]
    BY <1>1, <1>13 DEF Refresh!PostFailed
  <2>2. new \in CardRecords
    BY <1>2 DEF CardRecords
  <2> HIDE DEF new
  <2>3. card' \in [Cards -> CardRecords]
    BY <1>3, <2>1, <2>2
  <2> QED
    BY <1>1, <2>1, <2>3, AnswerTaken, BrowserKeeps
<1>14. CASE Refresh!EndConflict(c)
  <2> DEFINE new == [old EXCEPT !.conflict = FALSE, !.over = FALSE]
  <2>1. /\ card' = [card EXCEPT ![c] = new] /\ Refresh!Browse /\ UNCHANGED req
    BY <1>1, <1>14 DEF Refresh!EndConflict
  <2>2. new \in CardRecords
    BY <1>2 DEF CardRecords
  <2> HIDE DEF new
  <2>3. card' \in [Cards -> CardRecords]
    BY <1>3, <2>1, <2>2
  <2> QED
    BY <1>1, <2>1, <2>3, BrowserKeeps
<1> QED
  BY <1>8, <1>9, <1>10, <1>11, <1>12, <1>13, <1>14 DEF Refresh!PostAnswered

LEMMA OthersKeep ==
  ASSUME Refresh!BoundsAssumption, SummaryInv, NEW c \in Others,
         Refresh!OtherPosts(c) \/ Refresh!OtherAnswered(c)
  PROVE  SummaryInv'
<1>1. Refresh!Post(c) \in Refresh!Requests /\ card \in [Cards -> CardRecords]
  BY DEF Refresh!Post, Refresh!Requests, Refresh!Gets, Refresh!Posts,
         SummaryInv, Refresh!TypeOK, CardRecords
<1>2. CASE Refresh!OtherPosts(c)
  BY <1>1, <1>2, BeginSends, BrowserKeeps DEF Refresh!OtherPosts
<1>3. CASE Refresh!OtherAnswered(c)
  <2>1. /\ req' = [req EXCEPT ![Refresh!Post(c)] = Refresh!Closed]
        /\ UNCHANGED card /\ Refresh!Browse
    BY <1>3 DEF Refresh!OtherAnswered
  <2>2. /\ req' \in [Refresh!Requests -> RequestRecords]
        /\ \A p \in Refresh!Requests : req'[p] = req[p] \/ Empty(req'[p])
    BY <1>1, <2>1, AnswerTaken
  <2> QED
    BY <1>1, <2>1, <2>2, BrowserKeeps
<1> QED
  BY <1>2, <1>3

LEMMA SummaryInit ==
  ASSUME Refresh!BoundsAssumption, Refresh!Init
  PROVE  SummaryInv
<1>1. /\ Empty(Refresh!Idle) /\ Empty(Refresh!Closed)
      /\ Refresh!NoState \in Refresh!State /\ Refresh!NoSummary \in Refresh!Summary
  BY IdleRecords
<1>2. \A q \in Refresh!Requests : Empty(req[q])
  BY <1>1 DEF Refresh!Init
<1>3. Refresh!NewCard \in CardRecords
  BY <1>1 DEF Refresh!NewCard, CardRecords
<1>4. Refresh!TypeOK
  <2>1. req \in [Refresh!Requests -> RequestRecords]
    <3>1. PICK closed \in SUBSET (Cards \cup Others) :
            req = [q \in Refresh!Requests |-> IF q[1] \in closed THEN Refresh!Closed ELSE Refresh!Idle]
      BY DEF Refresh!Init
    <3> QED
      BY <1>1, <3>1 DEF Empty
  <2>2. card \in [Cards -> CardRecords]
    BY <1>3 DEF Refresh!Init
  <2>3. count \in 0 .. MaxMessages /\ faults \in 0 .. MaxFaults
    <3>1. count \in 0 .. 1 /\ faults \in 0 .. MaxFaults
      BY DEF Refresh!Init
    <3> QED
      BY <3>1 DEF Refresh!BoundsAssumption
  <2>4. /\ exists \in BOOLEAN /\ summary \in Refresh!Summary /\ overlapped \in BOOLEAN
        /\ lock \in Refresh!Posts \cup {Refresh!Nobody}
    BY <1>1 DEF Refresh!Init
  <2> QED
    BY <2>1, <2>2, <2>3, <2>4 DEF Refresh!TypeOK, RequestRecords, CardRecords
<1>5. Anchored
  BY DEF Refresh!Init, Anchored, Whole, Refresh!NoSummary
<1>6. \A q \in Refresh!Requests : ReadSoFar(q) /\ Exclusively(q)
  BY <1>2 DEF Empty, AtRest, ReadSoFar, Exclusively, UnderLock, Refresh!Requests, Refresh!Gets, Refresh!Posts
<1> QED
  BY <1>4, <1>5, <1>6 DEF SummaryInv
LEMMA SummaryKeeps ==
  ASSUME Refresh!BoundsAssumption
  PROVE  SummaryInv /\ [Refresh!Next]_(Refresh!summaryVars) => SummaryInv'
<1> SUFFICES ASSUME SummaryInv, [Refresh!Next]_(Refresh!summaryVars)
             PROVE  SummaryInv'
  OBVIOUS
<1>1. ASSUME NEW q \in Refresh!Requests, Refresh!Serve(q)
      PROVE  SummaryInv'
  BY <1>1, ExistsKeeps, PeekKeeps, LookKeeps, AcquireKeeps, ReadKeeps, PresentKeeps, GenerateKeeps,
     CompleteKeeps, SaveKeeps, ReleaseKeeps DEF Refresh!Serve
<1>2. ASSUME NEW q \in Refresh!Requests, Refresh!CallFails(q)
      PROVE  SummaryInv'
  BY <1>2, CallFailsKeeps
<1>3. ASSUME NEW c \in Cards,
             \/ Refresh!Poll(c) \/ Refresh!Refetch(c) \/ Refresh!GetAnswered(c)
             \/ Refresh!PostAnswered(c) \/ Refresh!EndConflict(c) \/ Refresh!AutoRefresh(c)
             \/ Refresh!Retry(c)
      PROVE  SummaryInv'
  BY <1>3, CardKeeps
<1>4. ASSUME NEW c \in Others, Refresh!OtherPosts(c) \/ Refresh!OtherAnswered(c)
      PROVE  SummaryInv'
  BY <1>4, OthersKeep
<1>5. CASE Refresh!Crash
  BY <1>5, CrashKeeps
<1>6. CASE Refresh!Expire \/ Refresh!Lapse \/ Refresh!TurnCompletes \/ Refresh!DeleteChat
  BY <1>6, WorldKeeps
<1>7. CASE UNCHANGED Refresh!summaryVars
  BY <1>7 DEF Refresh!summaryVars, Refresh!chat, Refresh!history, SummaryInv, Refresh!TypeOK,
     Anchored, ReadSoFar, Exclusively
<1> QED
  BY <1>1, <1>2, <1>3, <1>4, <1>5, <1>6, <1>7 DEF Refresh!Next
LEMMA SummarySound ==
  ASSUME Refresh!BoundsAssumption
  PROVE  SummaryInv => Refresh!TypeOK /\ Refresh!CoversThroughAnchor /\ Refresh!NothingBilledTwice
<1> SUFFICES ASSUME SummaryInv
             PROVE  Refresh!CoversThroughAnchor /\ Refresh!NothingBilledTwice
  BY DEF SummaryInv
<1>1. Refresh!CoversThroughAnchor
  BY DEF SummaryInv, Anchored, Whole, Refresh!CoversThroughAnchor
<1>2. ASSUME NEW q \in Refresh!Posts, req[q].at = "generate", exists, ~overlapped
      PROVE  summary.covers \cap (req[q].draft.through + 1 .. req[q].count) = {}
  <2>1. q \in Refresh!Requests
    BY DEF Refresh!Requests
  <2>2. summary.through <= req[q].draft.through /\ summary.covers = 1 .. summary.through
    BY <1>2, <2>1 DEF SummaryInv, Exclusively, Anchored, Whole
  <2>3. /\ summary.through \in Int /\ req[q].draft.through \in Int /\ req[q].count \in Int
    BY <2>1, Served DEF Serving, RequestRecords, Refresh!Summary, Refresh!Unread
  <2> QED
    BY <2>2, <2>3
<1> QED
  BY <1>1, <1>2 DEF Refresh!NothingBilledTwice

\* The stored summary covers the chat's messages up to its anchor, and a message is not
\* sent to the model again once it is covered: refreshSummary of
\* admin-chat-summary.service.ts under failures, crashes and leases that lapse.
THEOREM SummariesHold ==
  ASSUME Refresh!BoundsAssumption
  PROVE  Refresh!Spec => [](/\ Refresh!TypeOK /\ Refresh!CoversThroughAnchor
                            /\ Refresh!NothingBilledTwice)
<1>1. Refresh!Init => SummaryInv
  BY SummaryInit
<1>2. SummaryInv /\ [Refresh!Next]_(Refresh!summaryVars) => SummaryInv'
  BY SummaryKeeps
<1>3. SummaryInv => Refresh!TypeOK /\ Refresh!CoversThroughAnchor /\ Refresh!NothingBilledTwice
  BY SummarySound
<1> QED
  BY <1>1, <1>2, <1>3, PTL DEF Refresh!Spec

-----------------------------------------------------------------------------
(* Visitors and their chats                                                *)

CONSTANTS Requests, VisitorIds, Chats
VARIABLES visitors, lapsed, owner, cookies, request, raced, lost

Visit == INSTANCE Visitors WITH jar <- cookies, overlapped <- raced

VisitRecords ==
  [kind : Visit!Kinds \cup {"none"},
   at : {"idle", "sent", "touching", "resolved", "answered", "failed"},
   user : BOOLEAN, anon : VisitorIds \cup {Visit!Nobody},
   principal : VisitorIds \cup {Visit!User, Visit!Nobody},
   sets : VisitorIds \cup {Visit!Nobody}]

\* An owner's session is there.
Stored == \A c \in Chats : owner[c] \in VisitorIds => owner[c] \in visitors

\* The rest holds of a browser whose requests have not raced.
OneAtATime == \A r, q \in Requests : request[r].at # "idle" /\ request[q].at # "idle" => r = q

\* The browser still holds an owner's session, is about to, has seen its time run out, or
\* was never told of it.
Reachable(v) ==
  v = cookies.anon \/ (\E r \in Requests : request[r].sets = v) \/ v \in lapsed \cup lost
Kept == \A c \in Chats : owner[c] \in VisitorIds => Reachable(owner[c])

\* What a request knows of the browser's session on its way.
Follows(q) ==
  /\ q.anon = cookies.anon \/ (q.anon \in lapsed /\ cookies.anon = Visit!Nobody)
  /\ q.principal \in VisitorIds => q.principal \in {q.anon, q.sets}
  /\ q.sets # Visit!Nobody => q.kind = "create"
  /\ q.at \in {"sent", "touching"} => q.principal = Visit!Nobody

\* A session replaces the browser's only when that one is of no use any more.
Replaces(q) ==
  q.sets # Visit!Nobody \/ (q.at = "resolved" /\ q.principal = Visit!Nobody)
    => q.anon \notin visitors \ lapsed

\* A sign-in leaves nothing to the session that it ends.
TakesOver(q) ==
  q.kind = "signIn" /\ q.at = "answered" /\ q.principal \in VisitorIds
    => \A c \in Chats : owner[c] # q.principal

InStep(r) == request[r].at # "idle" => /\ Follows(request[r]) /\ Replaces(request[r])
                                       /\ TakesOver(request[r])

VisitInv ==
  /\ Visit!TypeOK /\ Stored
  /\ \A r \in Requests : request[r].at = "idle" => request[r].sets = Visit!Nobody
  /\ ~raced => OneAtATime /\ Kept /\ \A r \in Requests : InStep(r)

LEMMA VisitInit ==
  ASSUME Visit!VisitorsAssumption, Visit!Init
  PROVE  VisitInv
<1>1. /\ visitors = {} /\ lapsed = {} /\ owner = [c \in Chats |-> Visit!Nobody]
      /\ cookies = [user |-> FALSE, anon |-> Visit!Nobody] /\ raced = FALSE
      /\ lost = {}
      /\ request = [r \in Requests |-> Visit!Idle]
  BY DEF Visit!Init
<1>2. /\ Visit!Idle \in VisitRecords /\ Visit!Idle.at = "idle" /\ Visit!Idle.sets = Visit!Nobody
  BY DEF Visit!Idle, VisitRecords
<1>3. Visit!TypeOK
  BY <1>1, <1>2 DEF Visit!TypeOK, VisitRecords
<1>4. Stored /\ Kept
  BY <1>1 DEF Stored, Kept, Visit!VisitorsAssumption
<1>5. OneAtATime /\ \A r \in Requests : InStep(r)
  BY <1>1, <1>2 DEF OneAtATime, InStep
<1> QED
  BY <1>1, <1>2, <1>3, <1>4, <1>5 DEF VisitInv

\* What a request brings along, and that a step moves it alone.
VisitMoves(r, q) ==
  /\ q \in VisitRecords /\ request' = [request EXCEPT ![r] = q]
  /\ request[r] \in VisitRecords /\ request \in [Requests -> VisitRecords]
  /\ visitors \subseteq VisitorIds /\ lapsed \subseteq VisitorIds
  /\ owner \in [Chats -> VisitorIds \cup {Visit!User, Visit!Nobody}]
  /\ cookies \in [user : BOOLEAN, anon : VisitorIds \cup {Visit!Nobody}]
  /\ raced \in BOOLEAN /\ lost \subseteq VisitorIds
  /\ request[r].at # "idle"
  /\ ~raced => /\ Kept /\ OneAtATime /\ InStep(r)
                    /\ \A p \in Requests : p # r => request[p].at = "idle" /\ request[p].sets = Visit!Nobody

LEMMA VisitTyped ==
  ASSUME VisitInv, NEW r \in Requests, NEW q \in VisitRecords,
         request' = [request EXCEPT ![r] = q], request[r].at # "idle"
  PROVE  VisitMoves(r, q)
BY DEF VisitInv, Visit!TypeOK, VisitRecords, VisitMoves, OneAtATime

\* A step on the way of one request, in which the browser's cookies stay.
LEMMA VisitStep ==
  ASSUME VisitInv, NEW r \in Requests, NEW q, VisitMoves(r, q),
         q.at # "idle",
         UNCHANGED <<lapsed, cookies, raced, lost>>,
         visitors' \subseteq VisitorIds,
         owner' \in [Chats -> VisitorIds \cup {Visit!User, Visit!Nobody}],
         Stored',
         ~raced => /\ Follows(q)' /\ Replaces(q)' /\ TakesOver(q)'
                        /\ request[r].sets \in {q.sets, Visit!Nobody},
         ~raced => \A c \in Chats : owner'[c] \in VisitorIds /\ owner'[c] # owner[c] =>
                          owner'[c] \in {cookies.anon, q.sets} \cup lapsed,
         \A v \in VisitorIds : v # Visit!Nobody
  PROVE  VisitInv'
<1>1. request' \in [Requests -> VisitRecords] /\ request'[r] = q
      /\ \A p \in Requests : p # r => request'[p] = request[p]
  BY DEF VisitMoves
<1>2. Visit!TypeOK'
  BY <1>1 DEF VisitMoves, Visit!TypeOK, VisitRecords
<1>3. ASSUME NEW p \in Requests, request'[p].at = "idle"
      PROVE  request'[p].sets = Visit!Nobody
  BY <1>1, <1>3 DEF VisitInv
<1>4. ASSUME ~raced
      PROVE  OneAtATime' /\ Kept' /\ \A p \in Requests : InStep(p)'
  <2>1. \A p \in Requests : p # r => request'[p].at = "idle"
    BY <1>1, <1>4 DEF VisitMoves
  <2>2. OneAtATime'
    BY <2>1 DEF OneAtATime
  <2>3. \A p \in Requests : InStep(p)'
    BY <1>1, <1>4, <2>1 DEF InStep, Follows, Replaces, TakesOver
  <2>4. ASSUME NEW c \in Chats, owner'[c] \in VisitorIds
        PROVE  Reachable(owner[c])'
    <3>1. CASE owner'[c] # owner[c]
      BY <1>1, <1>4, <2>4, <3>1 DEF Reachable
    <3>2. CASE owner'[c] = owner[c]
      <4>1. Reachable(owner[c])
        BY <1>4, <2>4, <3>2 DEF VisitMoves, Kept
      <4>2. ASSUME NEW p \in Requests, request[p].sets = owner[c]
            PROVE  request'[p].sets = owner[c]
        BY <1>1, <1>4, <2>4, <3>2, <4>2
      <4> QED
        BY <3>2, <4>1, <4>2 DEF Reachable
    <3> QED
      BY <3>1, <3>2
  <2> QED
    BY <2>2, <2>3, <2>4 DEF Kept, Reachable
<1> QED
  BY <1>2, <1>3, <1>4 DEF VisitInv

\* What holds of a request at the start of a step that moves it.
VisitServing(r) ==
  /\ request[r] \in VisitRecords /\ request \in [Requests -> VisitRecords]
  /\ visitors \subseteq VisitorIds /\ lapsed \subseteq VisitorIds
  /\ owner \in [Chats -> VisitorIds \cup {Visit!User, Visit!Nobody}]
  /\ cookies \in [user : BOOLEAN, anon : VisitorIds \cup {Visit!Nobody}]
  /\ Stored /\ \A v \in VisitorIds : v # Visit!Nobody /\ v # Visit!User
  /\ Visit!User # Visit!Nobody
  /\ ~raced /\ request[r].at # "idle" =>
       Follows(request[r]) /\ Replaces(request[r]) /\ TakesOver(request[r])

LEMMA VisitServed ==
  ASSUME Visit!VisitorsAssumption, VisitInv, NEW r \in Requests
  PROVE  VisitServing(r)
BY DEF VisitInv, Visit!TypeOK, VisitRecords, VisitServing, InStep, Visit!VisitorsAssumption,
       Visit!User, Visit!Nobody

LEMMA ResolvesKeeps ==
  ASSUME Visit!VisitorsAssumption, VisitInv, NEW r \in Requests,
         \/ Visit!Resolve(r) \/ Visit!Touch(r) \/ Visit!Read(r) \/ Visit!SignOut(r)
  PROVE  VisitInv'
<1>1. VisitServing(r) /\ UNCHANGED <<visitors, lapsed, owner, cookies, raced, lost>>
  BY VisitServed DEF Visit!Resolve, Visit!Touch, Visit!Read, Visit!SignOut, Visit!past
<1>2. ASSUME NEW q \in VisitRecords, request' = [request EXCEPT ![r] = q],
             request[r].at # "idle", q.at # "idle", q.sets = request[r].sets,
             ~raced => Follows(q) /\ Replaces(q) /\ TakesOver(q)
      PROVE  VisitInv'
  <2>1. VisitMoves(r, q)
    BY <1>2, VisitTyped
  <2>2. Stored'
    BY <1>1 DEF VisitServing, Stored
  <2>3. ~raced => Follows(q)' /\ Replaces(q)' /\ TakesOver(q)'
    BY <1>1, <1>2 DEF Follows, Replaces, TakesOver
  <2> QED
    BY <1>1, <1>2, <2>1, <2>2, <2>3, VisitStep DEF VisitServing
<1>3. ASSUME NEW p \in {"touching", "failed", "answered"},
             request[r].at \in {"sent", "touching", "resolved"},
             p = "answered" => request[r].at = "resolved",
             request[r].at = "resolved" => p # "touching" /\ request[r].kind # "signIn",
             request' = [request EXCEPT ![r].at = p]
      PROVE  VisitInv'
  <2> DEFINE q == [request[r] EXCEPT !.at = p]
  <2>1. /\ q \in VisitRecords /\ q.at = p /\ q.sets = request[r].sets /\ q.anon = request[r].anon
        /\ q.principal = request[r].principal /\ q.kind = request[r].kind
    BY <1>1 DEF VisitServing, VisitRecords
  <2>2. request' = [request EXCEPT ![r] = q]
    BY <1>1, <1>3 DEF VisitServing
  <2> HIDE DEF q
  <2>3. ~raced => Follows(q) /\ Replaces(q) /\ TakesOver(q)
    BY <1>1, <1>3, <2>1 DEF VisitServing, Follows, Replaces, TakesOver
  <2> QED
    BY <1>2, <1>3, <2>1, <2>2, <2>3
<1>4. ASSUME NEW v \in {request[r].anon, Visit!User, Visit!Nobody},
             request[r].at \in {"sent", "touching"},
             v = Visit!Nobody => request[r].anon \notin visitors \ lapsed,
             Visit!Resolved(r, v)
      PROVE  VisitInv'
  <2> DEFINE q == [request[r] EXCEPT !.at = "resolved", !.principal = v]
  <2>1. /\ q \in VisitRecords /\ q.at = "resolved" /\ q.sets = request[r].sets
        /\ q.anon = request[r].anon /\ q.principal = v /\ q.kind = request[r].kind
    BY <1>1, <1>4 DEF VisitServing, VisitRecords
  <2>2. request' = [request EXCEPT ![r] = q]
    BY <1>1, <1>4 DEF VisitServing, Visit!Resolved
  <2> HIDE DEF q
  <2>3. ~raced => Follows(q) /\ Replaces(q) /\ TakesOver(q)
    BY <1>1, <1>4, <2>1 DEF VisitServing, Follows, Replaces, TakesOver
  <2> QED
    BY <1>2, <1>4, <2>1, <2>2, <2>3
<1>5. CASE Visit!Resolve(r)
  <2>1. request[r].at = "sent"
    BY <1>5 DEF Visit!Resolve
  <2>2. CASE Visit!Resolved(r, Visit!User)
    BY <1>1, <1>4, <2>1, <2>2 DEF VisitServing
  <2>3. CASE Visit!Resolved(r, Visit!Nobody) /\ ~Visit!Active(request[r].anon)
    BY <1>4, <2>1, <2>3 DEF Visit!Active
  <2>4. CASE request' = [request EXCEPT ![r].at = "touching"]
    BY <1>3, <2>1, <2>4
  <2> QED
    BY <1>5, <2>2, <2>3, <2>4 DEF Visit!Resolve
<1>6. CASE Visit!Touch(r)
  <2>1. request[r].at = "touching"
    BY <1>6 DEF Visit!Touch
  <2>2. CASE request[r].anon \in visitors /\ Visit!Resolved(r, request[r].anon)
    BY <1>1, <1>4, <2>1, <2>2 DEF VisitServing
  <2>3. CASE request' = [request EXCEPT ![r].at = "failed"]
    BY <1>3, <2>1, <2>3
  <2> QED
    BY <1>6, <2>2, <2>3 DEF Visit!Touch
<1>7. CASE Visit!Read(r)
  <2>1. request[r].at = "resolved" /\ request[r].kind = "read"
    BY <1>7 DEF Visit!Read
  <2>2. \E p \in {"failed", "answered"} : request' = [request EXCEPT ![r].at = p]
    BY <1>7 DEF Visit!Read
  <2> QED
    BY <1>3, <2>1, <2>2
<1>8. CASE Visit!SignOut(r)
  BY <1>3, <1>8 DEF Visit!SignOut
<1> QED
  BY <1>5, <1>6, <1>7, <1>8

LEMMA EnsureKeeps ==
  ASSUME Visit!VisitorsAssumption, VisitInv, NEW r \in Requests, Visit!EnsureAnonymous(r)
  PROVE  VisitInv'
<1>1. PICK v \in VisitorIds \ visitors :
        /\ v \notin {owner[c] : c \in Chats} \cup lapsed \cup lost \cup {cookies.anon}
        /\ \A q \in Requests : v \notin {request[q].anon, request[q].sets}
        /\ visitors' = visitors \cup {v}
        /\ request' = [request EXCEPT ![r].principal = v, ![r].sets = v]
  BY DEF Visit!EnsureAnonymous
<1>2. /\ VisitServing(r) /\ UNCHANGED <<lapsed, owner, cookies, raced, lost>>
      /\ request[r].at = "resolved" /\ request[r].kind = "create"
      /\ request[r].principal = Visit!Nobody /\ request[r].sets = Visit!Nobody
  BY VisitServed DEF Visit!EnsureAnonymous, Visit!NeedsSession, Visit!past
<1>8. PICK q : q = [request[r] EXCEPT !.principal = v, !.sets = v]
  OBVIOUS
<1>3. /\ q \in VisitRecords /\ q.at = "resolved" /\ q.sets = v /\ q.anon = request[r].anon
      /\ q.principal = v /\ q.kind = "create"
  BY <1>2, <1>8 DEF VisitServing, VisitRecords
<1>4. request' = [request EXCEPT ![r] = q]
  BY <1>1, <1>2, <1>8 DEF VisitServing
<1>5. VisitMoves(r, q)
  BY <1>2, <1>3, <1>4, VisitTyped
<1>6. ASSUME ~raced
      PROVE  Follows(q)' /\ Replaces(q)' /\ TakesOver(q)'
  <2>1. Follows(q)'
    BY <1>1, <1>2, <1>3, <1>6 DEF VisitServing, Follows
  <2>2. Replaces(q)'
    BY <1>1, <1>2, <1>3, <1>6 DEF VisitServing, Replaces
  <2>3. TakesOver(q)'
    BY <1>3 DEF TakesOver
  <2> QED
    BY <2>1, <2>2, <2>3
<1>7. Stored' /\ visitors' \subseteq VisitorIds
  BY <1>1, <1>2 DEF VisitServing, Stored
<1> QED
  BY <1>2, <1>3, <1>5, <1>6, <1>7, VisitStep DEF VisitServing

LEMMA CreateKeeps ==
  ASSUME Visit!VisitorsAssumption, VisitInv, NEW r \in Requests, Visit!CreateChat(r)
  PROVE  VisitInv'
<1>1. /\ VisitServing(r) /\ UNCHANGED <<visitors, lapsed, cookies, raced, lost>>
      /\ request[r].at = "resolved" /\ request[r].kind = "create"
      /\ request[r].principal # Visit!Nobody \/ request[r].sets # Visit!Nobody
  BY VisitServed DEF Visit!CreateChat, Visit!NeedsSession, Visit!past
<1>2. ASSUME NEW p \in {"answered", "failed"}, request' = [request EXCEPT ![r].at = p],
             owner' \in [Chats -> VisitorIds \cup {Visit!User, Visit!Nobody}], Stored',
             \A c \in Chats : owner'[c] = owner[c] \/ owner'[c] = request[r].principal
      PROVE  VisitInv'
  <2>6. PICK q : q = [request[r] EXCEPT !.at = p]
    OBVIOUS
  <2>1. /\ q \in VisitRecords /\ q.at = p /\ q.sets = request[r].sets /\ q.anon = request[r].anon
        /\ q.principal = request[r].principal /\ q.kind = request[r].kind
    BY <1>1, <2>6 DEF VisitServing, VisitRecords
  <2>2. request' = [request EXCEPT ![r] = q]
    BY <1>1, <1>2, <2>6 DEF VisitServing
  <2>3. VisitMoves(r, q)
    BY <1>1, <2>1, <2>2, VisitTyped
  <2>4. ASSUME ~raced
        PROVE  Follows(q)' /\ Replaces(q)' /\ TakesOver(q)'
    <3>1. Follows(q)'
      BY <1>1, <1>2, <2>1, <2>4 DEF VisitServing, Follows
    <3>2. Replaces(q)'
      BY <1>1, <1>2, <2>1, <2>4 DEF VisitServing, Replaces
    <3>3. TakesOver(q)'
      BY <1>1, <2>1 DEF TakesOver
    <3> QED
      BY <3>1, <3>2, <3>3
  <2>5. ASSUME ~raced, NEW c \in Chats, owner'[c] \in VisitorIds, owner'[c] # owner[c]
        PROVE  owner'[c] \in {cookies.anon, q.sets} \cup lapsed
    BY <1>1, <1>2, <2>1, <2>5 DEF VisitServing, Follows
  <2> QED
    BY <1>1, <1>2, <2>1, <2>3, <2>4, <2>5, VisitStep DEF VisitServing
<1>3. CASE /\ request[r].principal \in visitors \cup {Visit!User}
           /\ \E c \in Chats : owner' = [owner EXCEPT ![c] = request[r].principal]
           /\ request' = [request EXCEPT ![r].at = "answered"]
  <2>1. PICK c \in Chats : owner' = [owner EXCEPT ![c] = request[r].principal]
    BY <1>3
  <2>2. request' = [request EXCEPT ![r].at = "answered"]
    BY <1>3
  <2>3. owner' \in [Chats -> VisitorIds \cup {Visit!User, Visit!Nobody}]
        /\ \A d \in Chats : owner'[d] = owner[d] \/ owner'[d] = request[r].principal
    BY <1>1, <1>3, <2>1 DEF VisitServing
  <2>4. Stored'
    BY <1>1, <1>3, <2>3 DEF VisitServing, Stored
  <2> QED
    BY <1>2, <2>2, <2>3, <2>4
<1>4. CASE request' = [request EXCEPT ![r].at = "failed"] /\ UNCHANGED owner
  <2>1. request' = [request EXCEPT ![r].at = "failed"] /\ owner' = owner
    BY <1>4
  <2>2. Stored'
    BY <1>1, <2>1 DEF VisitServing, Stored
  <2> QED
    BY <1>1, <1>2, <2>1, <2>2 DEF VisitServing
<1> QED
  BY <1>3, <1>4 DEF Visit!CreateChat

\* A sign-in that succeeds, or is refused and leaves everything as it was.
LEMMA SignsInKeeps ==
  ASSUME Visit!VisitorsAssumption, VisitInv, NEW r \in Requests, Visit!SignIn(r)
  PROVE  VisitInv'
<1>1. /\ VisitServing(r) /\ UNCHANGED <<lapsed, cookies, raced, lost>>
      /\ request[r].at = "resolved" /\ request[r].kind = "signIn"
  BY VisitServed DEF Visit!SignIn, Visit!past
<1>2. PICK v : v = request[r].principal
  OBVIOUS
<1>3. ASSUME NEW p \in {"answered", "failed"}, request' = [request EXCEPT ![r].at = p],
             visitors' \subseteq visitors, visitors \ {v} \subseteq visitors',
             owner' \in [Chats -> VisitorIds \cup {Visit!User, Visit!Nobody}],
             \A c \in Chats : owner'[c] \in VisitorIds =>
                owner'[c] = owner[c] /\ owner[c] \in visitors'
                /\ (p = "answered" => owner[c] # v)
      PROVE  VisitInv'
  <2>1. PICK q : q = [request[r] EXCEPT !.at = p]
    OBVIOUS
  <2>2. /\ q \in VisitRecords /\ q.at = p /\ q.sets = request[r].sets
        /\ q.anon = request[r].anon /\ q.principal = v /\ q.kind = "signIn"
    BY <1>1, <1>2, <2>1 DEF VisitServing, VisitRecords
  <2>3. request' = [request EXCEPT ![r] = q]
    BY <1>1, <1>3, <2>1 DEF VisitServing
  <2>4. VisitMoves(r, q)
    BY <1>1, <2>2, <2>3, VisitTyped
  <2>5. ASSUME ~raced
        PROVE  Follows(q)' /\ Replaces(q)' /\ TakesOver(q)'
    <3>1. Follows(q)'
      BY <1>1, <1>2, <1>3, <2>2, <2>5 DEF VisitServing, Follows
    <3>2. Replaces(q)'
      BY <1>1, <1>2, <1>3, <2>2, <2>5 DEF VisitServing, Replaces
    <3>3. TakesOver(q)'
      BY <1>3, <2>2 DEF TakesOver
    <3> QED
      BY <3>1, <3>2, <3>3
  <2>6. Stored' /\ visitors' \subseteq VisitorIds
    BY <1>1, <1>3 DEF VisitServing, Stored
  <2> QED
    BY <1>1, <1>3, <2>2, <2>4, <2>5, <2>6, VisitStep DEF VisitServing
<1>4. CASE request' = [request EXCEPT ![r].at = "failed"] /\ UNCHANGED <<visitors, owner>>
  BY <1>1, <1>3, <1>4 DEF VisitServing, Stored
<1>5. CASE v = Visit!User /\ request' = [request EXCEPT ![r].at = "answered"]
           /\ UNCHANGED <<visitors, owner>>
  BY <1>1, <1>3, <1>5 DEF VisitServing, Stored
<1>6. CASE /\ owner' = [c \in Chats |-> IF v # Visit!Nobody /\ owner[c] = v THEN Visit!User ELSE owner[c]]
           /\ visitors' = visitors \ {v} /\ request' = [request EXCEPT ![r].at = "answered"]
  <2>1. \A c \in Chats : owner'[c] \in VisitorIds =>
           owner'[c] = owner[c] /\ owner[c] \in visitors' /\ owner[c] # v
    BY <1>1, <1>6 DEF VisitServing, Stored
  <2>2. owner' \in [Chats -> VisitorIds \cup {Visit!User, Visit!Nobody}]
    BY <1>1, <1>6 DEF VisitServing
  <2> QED
    BY <1>3, <1>6, <2>1, <2>2
<1> QED
  BY <1>2, <1>4, <1>5, <1>6 DEF Visit!SignIn

LEMMA DeliversKeeps ==
  ASSUME Visit!VisitorsAssumption, VisitInv, NEW r \in Requests, Visit!Deliver(r)
  PROVE  VisitInv'
<1> DEFINE q == request[r]
<1>1. /\ VisitServing(r) /\ UNCHANGED <<visitors, lapsed, owner, raced, lost>>
      /\ q.at \in {"answered", "failed"}
      /\ request' = [request EXCEPT ![r] = Visit!Idle]
  BY VisitServed DEF Visit!Deliver, Visit!past
<1>2. /\ cookies' \in [user : BOOLEAN, anon : VisitorIds \cup {Visit!Nobody}]
      /\ cookies'.anon = IF q.kind = "signIn" /\ q.at = "answered" /\ q.principal \in VisitorIds THEN Visit!Nobody
                     ELSE IF q.sets # Visit!Nobody THEN q.sets ELSE cookies.anon
  BY <1>1 DEF Visit!Deliver, Visit!Did, VisitServing, VisitRecords
<1>3. /\ Visit!Idle \in VisitRecords /\ Visit!Idle.at = "idle" /\ Visit!Idle.sets = Visit!Nobody
  BY DEF Visit!Idle, VisitRecords
<1>4. /\ request' \in [Requests -> VisitRecords] /\ request'[r] = Visit!Idle
      /\ \A p \in Requests : p # r => request'[p] = request[p]
  BY <1>1, <1>3 DEF VisitServing
<1>5. VisitMoves(r, Visit!Idle)
  BY <1>1, <1>3, VisitTyped
<1>6. Visit!TypeOK'
  BY <1>1, <1>2, <1>4 DEF VisitInv, Visit!TypeOK, VisitRecords
<1>7. Stored' /\ \A p \in Requests : request'[p].at = "idle" => request'[p].sets = Visit!Nobody
  BY <1>1, <1>3, <1>4 DEF VisitInv, Stored
<1>8. ASSUME ~raced
      PROVE  OneAtATime' /\ Kept' /\ \A p \in Requests : InStep(p)'
  <2>1. \A p \in Requests : request'[p].at = "idle"
    BY <1>3, <1>4, <1>5, <1>8 DEF VisitMoves
  <2>2. ASSUME NEW c \in Chats, owner[c] \in VisitorIds
        PROVE  owner[c] = cookies'.anon \/ owner[c] \in lapsed \cup lost
    <3>1. Reachable(owner[c]) /\ owner[c] \in visitors
      BY <1>1, <1>5, <1>8, <2>2 DEF VisitMoves, Kept, VisitServing, Stored
    <3>2. \A p \in Requests : request[p].sets = owner[c] => p = r
      BY <1>1, <1>5, <1>8, <2>2 DEF VisitMoves, VisitServing
    <3>3. CASE owner[c] = q.sets
      BY <1>1, <1>2, <1>8, <2>2, <3>3 DEF VisitServing, Follows
    <3>4. CASE owner[c] = cookies.anon
      BY <1>1, <1>2, <1>8, <2>2, <3>1, <3>4 DEF VisitServing, Follows, Replaces, TakesOver
    <3> QED
      BY <3>1, <3>2, <3>3, <3>4 DEF Reachable
  <2> QED
    BY <1>1, <2>1, <2>2 DEF OneAtATime, InStep, Kept, Reachable
<1> QED
  BY <1>1, <1>6, <1>7, <1>8 DEF VisitInv

\* A request that is lost leaves the cookies, and its own session is among the lost ones.
LEMMA LosesKeeps ==
  ASSUME Visit!VisitorsAssumption, VisitInv, NEW r \in Requests, Visit!Lose(r)
  PROVE  VisitInv'
<1>1. /\ VisitServing(r) /\ UNCHANGED <<visitors, lapsed, owner, cookies, raced>>
      /\ request[r].at # "idle" /\ request' = [request EXCEPT ![r] = Visit!Idle]
      /\ lost' = lost \cup ({request[r].sets} \ {Visit!Nobody})
  BY VisitServed DEF Visit!Lose
<1>2. /\ Visit!Idle \in VisitRecords /\ Visit!Idle.at = "idle" /\ Visit!Idle.sets = Visit!Nobody
  BY DEF Visit!Idle, VisitRecords
<1>3. /\ request' \in [Requests -> VisitRecords] /\ request'[r] = Visit!Idle
      /\ \A p \in Requests : p # r => request'[p] = request[p]
  BY <1>1, <1>2 DEF VisitServing
<1>4. VisitMoves(r, Visit!Idle)
  BY <1>1, <1>2, VisitTyped
<1>5. lost' \subseteq VisitorIds
  BY <1>1, <1>4 DEF VisitMoves, VisitRecords
<1>6. Visit!TypeOK'
  BY <1>1, <1>3, <1>5 DEF VisitInv, Visit!TypeOK, VisitRecords
<1>7. Stored' /\ \A p \in Requests : request'[p].at = "idle" => request'[p].sets = Visit!Nobody
  BY <1>1, <1>2, <1>3 DEF VisitInv, Stored
<1>8. ASSUME ~raced
      PROVE  OneAtATime' /\ Kept' /\ \A p \in Requests : InStep(p)'
  <2>1. \A p \in Requests : request'[p].at = "idle"
    BY <1>2, <1>3, <1>4, <1>8 DEF VisitMoves
  <2>2. ASSUME NEW c \in Chats, owner[c] \in VisitorIds
        PROVE  owner[c] = cookies.anon \/ owner[c] \in lapsed \cup lost'
    BY <1>1, <1>4, <1>8, <2>2 DEF VisitMoves, VisitServing, Kept, Reachable
  <2> QED
    BY <1>1, <2>1, <2>2 DEF OneAtATime, InStep, Kept, Reachable
<1> QED
  BY <1>1, <1>6, <1>7, <1>8 DEF VisitInv

LEMMA SendsKeeps ==
  ASSUME Visit!VisitorsAssumption, VisitInv, NEW r \in Requests, NEW kind \in Visit!Kinds,
         Visit!Send(r, kind)
  PROVE  VisitInv'
<1> DEFINE q == [Visit!Idle EXCEPT !.kind = kind, !.at = "sent", !.user = cookies.user,
                                   !.anon = cookies.anon]
<1>1. /\ VisitServing(r) /\ UNCHANGED <<visitors, lapsed, owner, cookies, lost>>
      /\ request[r].at = "idle" /\ request' = [request EXCEPT ![r] = q]
      /\ raced' = (raced \/ \E p \in Requests : request[p].at # "idle")
  BY VisitServed DEF Visit!Send
<1>2. /\ q \in VisitRecords /\ q.at = "sent" /\ q.sets = Visit!Nobody /\ q.anon = cookies.anon
      /\ q.principal = Visit!Nobody /\ q.kind = kind
  BY <1>1 DEF Visit!Idle, VisitServing, VisitRecords
<1> HIDE DEF q
<1>3. /\ request' \in [Requests -> VisitRecords] /\ request'[r] = q
      /\ \A p \in Requests : p # r => request'[p] = request[p]
  BY <1>1, <1>2 DEF VisitServing
<1>4. raced' \in BOOLEAN
  BY <1>1
<1>5. Visit!TypeOK'
  BY <1>1, <1>3, <1>4 DEF VisitInv, Visit!TypeOK, VisitRecords
<1>6. Stored' /\ \A p \in Requests : request'[p].at = "idle" => request'[p].sets = Visit!Nobody
  BY <1>1, <1>2, <1>3 DEF VisitInv, Stored
<1>7. ASSUME ~raced'
      PROVE  OneAtATime' /\ Kept' /\ \A p \in Requests : InStep(p)'
  <2>1. ~raced /\ \A p \in Requests : request[p].at = "idle"
    BY <1>1, <1>7
  <2>2. OneAtATime'
    BY <1>3, <2>1 DEF OneAtATime
  <2>3. Kept'
    BY <1>1, <1>2, <1>3, <2>1 DEF VisitInv, Kept, Reachable, VisitServing
  <2>4. \A p \in Requests : InStep(p)'
    BY <1>1, <1>2, <1>3, <2>1 DEF InStep, Follows, Replaces, TakesOver, VisitServing
  <2> QED
    BY <2>2, <2>3, <2>4
<1> QED
  BY <1>5, <1>6, <1>7 DEF VisitInv

LEMMA LapsesKeeps ==
  ASSUME Visit!VisitorsAssumption, VisitInv, NEW v \in VisitorIds, Visit!Lapse(v)
  PROVE  VisitInv'
<1>1. /\ lapsed' = lapsed \cup {v} /\ UNCHANGED <<visitors, owner, request, raced, lost>>
      /\ cookies' = IF cookies.anon = v THEN [cookies EXCEPT !.anon = Visit!Nobody] ELSE cookies
      /\ cookies \in [user : BOOLEAN, anon : VisitorIds \cup {Visit!Nobody}]
  BY DEF Visit!Lapse, VisitInv, Visit!TypeOK, Visit!past
<1>2. /\ cookies' \in [user : BOOLEAN, anon : VisitorIds \cup {Visit!Nobody}]
      /\ cookies'.anon = IF cookies.anon = v THEN Visit!Nobody ELSE cookies.anon
  BY <1>1
<1>3. Visit!TypeOK'
  BY <1>1, <1>2 DEF VisitInv, Visit!TypeOK
<1>4. Stored' /\ \A p \in Requests : request'[p].at = "idle" => request'[p].sets = Visit!Nobody
  BY <1>1 DEF VisitInv, Stored
<1>5. ASSUME ~raced
      PROVE  OneAtATime' /\ Kept' /\ \A p \in Requests : InStep(p)'
  <2>1. OneAtATime'
    BY <1>1, <1>5 DEF VisitInv, OneAtATime
  <2>2. Kept'
    BY <1>1, <1>2, <1>5 DEF VisitInv, Kept, Reachable
  <2>3. ASSUME NEW p \in Requests
        PROVE  InStep(p)'
    BY <1>1, <1>2, <1>5 DEF VisitInv, InStep, Follows, Replaces, TakesOver
  <2> QED
    BY <2>1, <2>2, <2>3
<1> QED
  BY <1>1, <1>3, <1>4, <1>5 DEF VisitInv

LEMMA VisitKeeps ==
  ASSUME Visit!VisitorsAssumption
  PROVE  VisitInv /\ [Visit!Next]_(Visit!visitorVars) => VisitInv'
<1> SUFFICES ASSUME VisitInv, [Visit!Next]_(Visit!visitorVars)
             PROVE  VisitInv'
  OBVIOUS
<1>1. ASSUME NEW r \in Requests, NEW kind \in Visit!Kinds, Visit!Send(r, kind)
      PROVE  VisitInv'
  BY <1>1, SendsKeeps
<1>2. ASSUME NEW r \in Requests,
             \/ Visit!Resolve(r) \/ Visit!Touch(r) \/ Visit!EnsureAnonymous(r)
             \/ Visit!CreateChat(r) \/ Visit!Read(r) \/ Visit!SignIn(r) \/ Visit!SignOut(r)
             \/ Visit!Deliver(r) \/ Visit!Lose(r)
      PROVE  VisitInv'
  BY <1>2, ResolvesKeeps, EnsureKeeps, CreateKeeps, SignsInKeeps, DeliversKeeps,
     LosesKeeps
<1>3. ASSUME NEW v \in VisitorIds, Visit!Lapse(v)
      PROVE  VisitInv'
  BY <1>3, LapsesKeeps
<1>4. CASE UNCHANGED Visit!visitorVars
  BY <1>4 DEF Visit!visitorVars, Visit!past, VisitInv, Visit!TypeOK, Stored, OneAtATime, Kept, Reachable,
     InStep, Follows, Replaces, TakesOver
<1> QED
  BY <1>1, <1>2, <1>3, <1>4 DEF Visit!Next

LEMMA VisitSound ==
  VisitInv => Visit!TypeOK /\ Visit!NoChatStranded
BY DEF VisitInv, Stored, Kept, Reachable, Visit!NoChatStranded, Visit!Held

\* Every chat belongs to the user or to a session that is there, and to one that the
\* browser still holds, unless its requests raced, its time ran out or the answer with its
\* cookie was lost: the middleware, ensureAnonymous, and the sign-in that takes a visitor's
\* chats over; whatever else fails or is lost.
THEOREM VisitorsHold ==
  ASSUME Visit!VisitorsAssumption
  PROVE  Visit!Spec => [](Visit!TypeOK /\ Visit!NoChatStranded)
<1>1. Visit!Init => VisitInv
  BY VisitInit
<1>2. VisitInv /\ [Visit!Next]_(Visit!visitorVars) => VisitInv'
  BY VisitKeeps
<1>3. VisitInv => Visit!TypeOK /\ Visit!NoChatStranded
  BY VisitSound
<1> QED
  BY <1>1, <1>2, <1>3, PTL DEF Visit!Spec
-----------------------------------------------------------------------------
(* The Ollama client                                                       *)

CONSTANTS Kinds, Replies
VARIABLES kind, at, timers, fired, signal, listening, aborted, body, reply, pos, buffer,
          lines, said, outcome

Call == INSTANCE OllamaClient WITH delivered <- said

AllLines == Call!LinesIn(DOMAIN reply)

\* Up to the place that has been read each line is with the caller, or about to be handed
\* out, or not ended yet, in this order, as long as the call runs.
InOrder ==
  /\ Call!FirstOf(said, AllLines)
  /\ \A i \in said : reply[i] \in Call!Chunks
  /\ said \cap (lines \cup buffer) = {}
  /\ \A i \in lines, j \in buffer : i < j
  /\ at \notin {"ended", "parsing"} =>
       Call!LinesIn(1 .. pos) = said \cup lines \cup buffer

\* Where the call stands, and what it holds there.
Standing ==
  /\ at \in {"idle", "fetching", "reading"} => lines = {} /\ ~aborted
  /\ at \in {"idle", "fetching"} => pos = 0 /\ body = "none"
  /\ at = "parsing" => ~Call!Streaming /\ timers = {} /\ ~listening
  /\ at = "fetching" /\ ~Call!Streaming => timers \subseteq {"connect"} /\ ~listening
  /\ at \in {"reading", "yielding"} => body # "none"
  /\ at = "reading" => body = "open"
  /\ body = "drained" => pos = Len(reply)
  /\ at \in {"idle", "ended"} => timers = {} /\ ~listening
  /\ at # "ended" => outcome = "none"

\* An abort has its reason.
Reasons == aborted => fired \/ signal

CallTypes ==
  /\ kind \in Kinds /\ body \in {"none", "open", "drained"}
  /\ at \in {"idle", "fetching", "reading", "yielding", "parsing", "ended"}
  /\ timers \subseteq {"total", "connect", "read"}
  /\ fired \in BOOLEAN /\ signal \in BOOLEAN /\ listening \in BOOLEAN /\ aborted \in BOOLEAN
  /\ reply \in Replies \cup {Call!NoReply} /\ reply \in Seq(Call!Symbols)
  /\ pos \in Nat /\ pos <= Len(reply)
  /\ buffer \subseteq 1 .. pos /\ lines \subseteq 1 .. pos /\ said \subseteq 1 .. pos
  /\ outcome \in {"none", "completed", "left", "rethrown"} \cup Call!OllamaErrors

CallInv == CallTypes /\ InOrder /\ Standing /\ Reasons /\ Call!EndsTruthfully

\* How far the body has been read, and with whom its lines are.
lineVars == <<reply, pos, buffer, lines, said>>

LEMMA CallSound == CallInv => Call!TypeOK /\ Call!EndsTruthfully
<1> SUFFICES ASSUME CallInv PROVE Call!TypeOK
  BY DEF CallInv
<1>1. Len(reply) \in Nat
  BY DEF CallInv, CallTypes
<1> QED
  BY <1>1 DEF CallInv, CallTypes, Call!TypeOK

LEMMA CallInit ==
  ASSUME Call!OllamaAssumption, Call!Init
  PROVE  CallInv
<1> USE DEF Call!Init, Call!NoReply
<1>1. Len(reply) = 0 /\ DOMAIN reply = {} /\ reply \in Seq(Call!Symbols)
  OBVIOUS
<1>2. Call!LinesIn(DOMAIN reply) = {} /\ Call!LinesIn(1 .. pos) = {}
  BY <1>1 DEF Call!LinesIn
<1>3. CallTypes
  <2>1. fired \in BOOLEAN /\ signal \in BOOLEAN /\ listening \in BOOLEAN /\ aborted \in BOOLEAN
    OBVIOUS
  <2>2. pos \in Nat /\ pos <= Len(reply)
    BY <1>1
  <2> HIDE DEF Call!Init
  <2>3. /\ kind \in Kinds /\ body = "none" /\ at = "idle" /\ timers = {} /\ reply = <<>>
        /\ buffer = {} /\ lines = {} /\ said = {} /\ outcome = "none"
    BY DEF Call!Init
  <2> QED
    BY <1>1, <2>1, <2>2, <2>3 DEF CallTypes
<1>4. InOrder
  BY <1>1, <1>2 DEF InOrder, AllLines, Call!FirstOf
<1>5. Standing
  BY <1>1 DEF Standing
<1>6. Reasons
  BY DEF Reasons
<1>7. Call!EndsTruthfully
  BY <1>1, <1>2 DEF Call!EndsTruthfully, Call!FirstOf
<1> QED
  BY <1>3, <1>4, <1>5, <1>6, <1>7 DEF CallInv

\* The lines that are ended at some place come before those that are not.
LEMMA EndedFirst ==
  ASSUME reply \in Seq(Call!Symbols), NEW p \in Nat,
         NEW texts \in SUBSET Nat
  PROVE  /\ Call!Ended(texts, p) \subseteq texts
         /\ \A i \in Call!Ended(texts, p), j \in texts \ Call!Ended(texts, p) : i < j
BY DEF Call!Ended

\* Reading on adds the lines of the piece.
LEMMA LinesGrow ==
  ASSUME reply \in Seq(Call!Symbols), NEW p \in Nat, NEW n \in Nat
  PROVE  Call!LinesIn(1 .. p + n) = Call!LinesIn(1 .. p) \cup Call!LinesIn(p + 1 .. p + n)
BY DEF Call!LinesIn

\* What a step that leaves the body and its lines alone keeps of them.
LEMMA SameLines ==
  ASSUME CallInv, UNCHANGED lineVars
  PROVE  /\ AllLines' = AllLines /\ Call!LinesIn(1 .. pos)' = Call!LinesIn(1 .. pos)
         /\ DOMAIN reply' = DOMAIN reply
         /\ Call!FirstOf(said, AllLines)' /\ (\A i \in said : reply[i] \in Call!Chunks)'
         /\ (said \cap (lines \cup buffer) = {})'
         /\ (\A i \in lines, j \in buffer : i < j)'
<1>1. AllLines' = AllLines /\ Call!LinesIn(1 .. pos)' = Call!LinesIn(1 .. pos)
  BY DEF AllLines, Call!LinesIn, lineVars
<1> QED
  BY <1>1 DEF CallInv, InOrder, Call!FirstOf, lineVars

\* A step after which the call goes on, and which leaves the body and its lines alone.
LEMMA GoesOn ==
  ASSUME CallInv, UNCHANGED lineVars, CallTypes', Standing', Reasons',
         at \notin {"ended", "parsing"}, at' # "ended"
  PROVE  CallInv'
<1>1. InOrder'
  BY SameLines DEF CallInv, InOrder, lineVars
<1>2. Call!EndsTruthfully'
  BY SameLines DEF Call!EndsTruthfully, AllLines
<1> QED
  BY <1>1, <1>2 DEF CallInv

\* A call that ends without having handed out anything new.
LEMMA EndsSoundly ==
  ASSUME CallInv, UNCHANGED <<lineVars, kind, body>>, NEW result, Call!Settle(result),
         fired' \in BOOLEAN, signal' \in BOOLEAN, aborted' \in BOOLEAN, Reasons',
         result \in {"completed", "left", "rethrown"} \cup Call!OllamaErrors,
         result = "completed" /\ Call!Streaming => said = AllLines,
         result = "OLLAMA_TIMEOUT" => fired' /\ ~signal',
         result = "rethrown" => signal',
         result = "OLLAMA_UNAVAILABLE" /\ aborted' => \E i \in DOMAIN reply : reply[i] = "failed"
  PROVE  CallInv'
<1> USE DEF Call!Settle, Call!TimersLeft
<1>1. CallTypes'
  BY DEF CallInv, CallTypes, lineVars
<1>2. InOrder'
  BY SameLines DEF InOrder
<1>3. Standing'
  BY DEF CallInv, Standing, lineVars, Call!Streaming
<1>4. Call!EndsTruthfully'
  BY SameLines DEF Call!EndsTruthfully, AllLines, Call!Streaming, lineVars
<1> QED
  BY <1>1, <1>2, <1>3, <1>4 DEF CallInv

\* The catch clause tells the truth of any error but a timeout.
LEMMA FailsSoundly ==
  ASSUME CallInv, UNCHANGED <<lineVars, kind, body>>, NEW err, Call!Fails(err),
         fired' \in BOOLEAN, signal' \in BOOLEAN, aborted' \in BOOLEAN, Reasons',
         err # "OLLAMA_TIMEOUT",
         err = "OLLAMA_UNAVAILABLE" /\ aborted' => \E i \in DOMAIN reply : reply[i] = "failed"
  PROVE  CallInv'
<1> DEFINE result == Call!Caught(err, signal', aborted')
<1>1. /\ result \in {"rethrown"} \cup Call!OllamaErrors
      /\ result = "OLLAMA_TIMEOUT" => fired' /\ ~signal'
      /\ result = "rethrown" => signal'
      /\ result = "OLLAMA_UNAVAILABLE" /\ aborted' => err = "OLLAMA_UNAVAILABLE"
  BY DEF Call!Caught, Call!OllamaErrors, Reasons
<1>2. Call!Settle(result)
  BY DEF Call!Fails
<1> HIDE DEF result
<1> QED
  BY <1>1, <1>2, EndsSoundly DEF Call!OllamaErrors

LEMMA StartKeeps ==
  ASSUME CallInv, Call!Start
  PROVE  CallInv'
<1> USE DEF Call!Start, Call!unchangedInput
<1>1. UNCHANGED <<lineVars, kind, body>> /\ signal' = signal /\ fired' = fired /\ aborted' = signal
      /\ at = "idle"
  BY DEF lineVars
<1>2. Reasons' /\ fired' \in BOOLEAN /\ signal' \in BOOLEAN /\ aborted' \in BOOLEAN
  BY <1>1 DEF Reasons, CallInv, CallTypes
<1>3. CASE signal
  BY <1>1, <1>2, <1>3, FailsSoundly
<1>4. CASE ~signal
  <2>1. CallTypes'
    BY <1>1, <1>2, <1>4 DEF CallInv, CallTypes, lineVars, Call!Streaming
  <2>2. Standing'
    <3>1. ~Call!Streaming => timers' = {"connect"} /\ ~listening'
      BY <1>4 DEF Call!Streaming
    <3>2. at' = "fetching" /\ ~aborted'
      BY <1>1, <1>4
    <3> QED
      BY <1>1, <1>4, <3>1, <3>2 DEF CallInv, Standing, lineVars, Call!Streaming
  <2> QED
    BY <1>1, <1>2, <1>4, <2>1, <2>2, GoesOn
<1> QED
  BY <1>3, <1>4

LEMMA HeadersFineKeeps ==
  ASSUME Call!OllamaAssumption, CallInv, Call!HeadersFine
  PROVE  CallInv'
<1> USE DEF Call!HeadersFine
<1>0. reply' \in Replies /\ reply' \in Seq(Call!Symbols) /\ Len(reply') \in Nat
  BY DEF Call!OllamaAssumption
<1>1. pos = 0 /\ said = {} /\ lines = {} /\ buffer = {} /\ ~aborted
  BY DEF CallInv, CallTypes, Standing
<1>2. Call!LinesIn(1 .. pos)' = {}
  BY <1>1 DEF Call!LinesIn
<1>3. CallTypes'
  BY <1>0, <1>1 DEF CallInv, CallTypes, Call!AfterHeaders
<1>4. InOrder'
  BY <1>1, <1>2 DEF InOrder, Call!FirstOf
<1>5. Standing'
  BY <1>1 DEF CallInv, Standing, CallTypes, Call!AfterHeaders, Call!Streaming
<1>6. Reasons'
  BY <1>1 DEF Reasons
<1>7. Call!EndsTruthfully'
  BY <1>1 DEF Call!EndsTruthfully, Call!FirstOf
<1> QED
  BY <1>3, <1>4, <1>5, <1>6, <1>7 DEF CallInv

LEMMA HeadersBadKeeps ==
  ASSUME CallInv, Call!HeadersBad
  PROVE  CallInv'
<1> USE DEF Call!HeadersBad, Call!unchangedInput
<1>1. UNCHANGED <<lineVars, kind, body>> /\ UNCHANGED <<signal, fired, aborted>> /\ ~aborted
  BY DEF lineVars, CallInv, Standing
<1>2. Reasons' /\ fired' \in BOOLEAN /\ signal' \in BOOLEAN /\ aborted' \in BOOLEAN
  BY <1>1 DEF Reasons, CallInv, CallTypes
<1>3. PICK err : Call!Fails(err) /\ err # "OLLAMA_TIMEOUT"
  OBVIOUS
<1> QED
  BY <1>1, <1>2, <1>3, FailsSoundly

LEMMA ParseTagsKeeps ==
  ASSUME CallInv, Call!ParseTags
  PROVE  CallInv'
<1> USE DEF Call!ParseTags, Call!unchangedInput
<1>1. UNCHANGED <<lineVars, kind, body>> /\ UNCHANGED <<signal, fired, aborted>> /\ ~Call!Streaming
  BY DEF lineVars, CallInv, Standing
<1>2. Reasons' /\ fired' \in BOOLEAN /\ signal' \in BOOLEAN /\ aborted' \in BOOLEAN
  BY <1>1 DEF Reasons, CallInv, CallTypes
<1>3. PICK result \in {"completed", "OLLAMA_INVALID_RESPONSE"} : Call!Settle(result)
  OBVIOUS
<1>4. result \in {"completed", "left", "rethrown"} \cup Call!OllamaErrors
  BY DEF Call!OllamaErrors
<1> QED
  BY <1>1, <1>2, <1>3, <1>4, EndsSoundly

LEMMA ReadBrokenKeeps ==
  ASSUME CallInv, Call!ReadBroken
  PROVE  CallInv'
<1> USE DEF Call!ReadBroken, Call!unchangedInput
<1>1. UNCHANGED <<lineVars, kind, body>> /\ UNCHANGED <<signal, fired, aborted>>
  BY DEF lineVars
<1>2. Reasons' /\ fired' \in BOOLEAN /\ signal' \in BOOLEAN /\ aborted' \in BOOLEAN
  BY <1>1 DEF Reasons, CallInv, CallTypes
<1> QED
  BY <1>1, <1>2, FailsSoundly

LEMMA LeaveKeeps ==
  ASSUME CallInv, Call!Leave
  PROVE  CallInv'
<1> USE DEF Call!Leave, Call!unchangedInput
<1>1. UNCHANGED <<lineVars, kind, body>> /\ UNCHANGED <<signal, fired, aborted>>
  BY DEF lineVars
<1>2. Reasons' /\ fired' \in BOOLEAN /\ signal' \in BOOLEAN /\ aborted' \in BOOLEAN
  BY <1>1 DEF Reasons, CallInv, CallTypes
<1> QED
  BY <1>1, <1>2, EndsSoundly

LEMMA FireKeeps ==
  ASSUME CallInv, NEW timer, Call!Fire(timer)
  PROVE  CallInv'
<1> USE DEF Call!Fire, Call!unchangedInput
<1>1. UNCHANGED <<lineVars, kind, body>> /\ signal' = signal /\ fired' /\ aborted'
  BY DEF lineVars
<1>2. Reasons' /\ fired' \in BOOLEAN /\ signal' \in BOOLEAN /\ aborted' \in BOOLEAN
  BY <1>1 DEF Reasons, CallInv, CallTypes
<1>3. CASE at # "yielding"
  BY <1>1, <1>2, <1>3, FailsSoundly
<1>4. CASE at = "yielding"
  <2>1. CallTypes'
    BY <1>1, <1>2, <1>4 DEF CallInv, CallTypes, lineVars
  <2>2. Standing'
    BY <1>1, <1>4 DEF CallInv, Standing, lineVars, Call!Streaming
  <2> QED
    BY <1>1, <1>2, <1>4, <2>1, <2>2, GoesOn
<1> QED
  BY <1>3, <1>4

LEMMA CallerAbortsKeeps ==
  ASSUME CallInv, Call!CallerAborts
  PROVE  CallInv'
<1> USE DEF Call!CallerAborts, Call!unchangedInput
<1>1. UNCHANGED <<lineVars, kind, body>> /\ signal' /\ fired' = fired
      /\ aborted' = (aborted \/ listening)
  BY DEF lineVars
<1>2. Reasons' /\ fired' \in BOOLEAN /\ signal' \in BOOLEAN /\ aborted' \in BOOLEAN
  BY <1>1 DEF Reasons, CallInv, CallTypes
<1>3. CASE at # "yielding"
  BY <1>1, <1>2, <1>3, FailsSoundly
<1>4. CASE at = "yielding"
  <2>1. CallTypes'
    BY <1>1, <1>2, <1>4 DEF CallInv, CallTypes, lineVars
  <2>2. Standing'
    BY <1>1, <1>4 DEF CallInv, Standing, lineVars, Call!Streaming
  <2> QED
    BY <1>1, <1>2, <1>4, <2>1, <2>2, GoesOn
<1> QED
  BY <1>3, <1>4

LEMMA DrainBehindKeeps ==
  ASSUME CallInv, Call!DrainBehind
  PROVE  CallInv'
<1> USE DEF Call!DrainBehind
<1>1. UNCHANGED lineVars
  BY DEF lineVars
<1>2. CallTypes'
  BY DEF CallInv, CallTypes
<1>3. Standing'
  BY DEF CallInv, Standing, Call!Streaming
<1>4. Reasons'
  BY DEF CallInv, Reasons
<1> QED
  BY <1>1, <1>2, <1>3, <1>4, GoesOn

LEMMA ReadPieceKeeps ==
  ASSUME CallInv, Call!ReadPiece
  PROVE  CallInv'
<1> USE DEF Call!ReadPiece
<1>1. PICK n \in 1 .. Len(reply) - pos :
        LET texts == buffer \cup Call!LinesIn(pos + 1 .. pos + n)
            whole == Call!Ended(texts, pos + n)
        IN /\ pos' = pos + n
           /\ lines' = whole /\ buffer' = texts \ whole
           /\ Call!Continue(whole)
  BY DEF Call!CarriedOver
<1> DEFINE texts == buffer \cup Call!LinesIn(pos + 1 .. pos + n)
           whole == Call!Ended(texts, pos + n)
<1>2. /\ at = "reading" /\ body = "open" /\ lines = {} /\ ~aborted /\ outcome = "none"
      /\ UNCHANGED <<kind, fired, signal, listening, aborted, body, reply, said, outcome>>
  BY DEF CallInv, Standing
<1>3. reply \in Seq(Call!Symbols) /\ Len(reply) \in Nat /\ pos \in Nat /\ pos <= Len(reply)
      /\ n \in Nat /\ pos' \in Nat /\ pos' <= Len(reply) /\ 1 .. pos \subseteq 1 .. pos'
  BY <1>1 DEF CallInv, CallTypes
<1>4. /\ Call!LinesIn(1 .. pos) = said \cup buffer
      /\ said \cap buffer = {} /\ buffer \subseteq 1 .. pos /\ said \subseteq 1 .. pos
      /\ Call!FirstOf(said, AllLines)
  BY <1>2 DEF CallInv, InOrder, CallTypes
<1>5. Call!LinesIn(pos + 1 .. pos + n) \subseteq (pos + 1 .. pos + n)
  BY DEF Call!LinesIn
<1>6. texts \subseteq 1 .. pos' /\ texts \subseteq Nat /\ said \cap texts = {}
  <2>1. pos' = pos + n
    BY <1>1
  <2>2. pos + 1 .. pos + n \subseteq 1 .. pos' /\ (pos + 1 .. pos + n) \cap (1 .. pos) = {}
    BY <1>3, <2>1
  <2>3. Call!LinesIn(pos + 1 .. pos + n) \cap (1 .. pos) = {}
    BY <1>5, <2>2
  <2>4. texts \subseteq 1 .. pos'
    BY <1>3, <1>4, <1>5, <2>2
  <2> QED
    BY <1>3, <1>4, <2>3, <2>4
<1>7. /\ whole \subseteq texts
      /\ \A i \in whole, j \in texts \ whole : i < j
  <2>1. pos + n \in Nat
    BY <1>3
  <2> HIDE DEF texts
  <2> QED
    BY <1>3, <1>6, <2>1, EndedFirst
<1>8. lines' = whole /\ buffer' = texts \ whole /\ Call!Continue(whole)
  BY <1>1
<1>9. Call!LinesIn(1 .. pos)' = said \cup texts
  <2>1. Call!LinesIn(1 .. pos)' = Call!LinesIn(1 .. pos + n)
    BY <1>1, <1>2 DEF Call!LinesIn
  <2>2. Call!LinesIn(1 .. pos + n) = Call!LinesIn(1 .. pos) \cup Call!LinesIn(pos + 1 .. pos + n)
    BY <1>3, LinesGrow
  <2> QED
    BY <1>4, <2>1, <2>2
<1>10. AllLines' = AllLines
  BY <1>2 DEF AllLines, Call!LinesIn
<1> HIDE DEF texts, whole
<1>11. CallTypes'
  BY <1>2, <1>3, <1>4, <1>6, <1>7, <1>8 DEF CallInv, CallTypes, Call!Continue
<1>12. InOrder'
  BY <1>2, <1>4, <1>6, <1>7, <1>8, <1>9, <1>10
     DEF CallInv, InOrder, Call!Continue, Call!FirstOf
<1>13. Standing'
  BY <1>2, <1>8 DEF CallInv, Standing, Call!Continue
<1>14. Reasons'
  BY <1>2 DEF Reasons
<1>15. Call!EndsTruthfully'
  BY <1>2, <1>8, <1>10, <1>12 DEF InOrder, AllLines, Call!EndsTruthfully, Call!Continue
<1> QED
  BY <1>11, <1>12, <1>13, <1>14, <1>15 DEF CallInv

LEMMA ReadEndKeeps ==
  ASSUME CallInv, Call!ReadEnd
  PROVE  CallInv'
<1> USE DEF Call!ReadEnd
<1>1. /\ at = "reading" /\ lines = {} /\ ~aborted /\ outcome = "none" /\ pos = Len(reply)
      /\ UNCHANGED <<kind, fired, signal, aborted, reply, pos, said>> /\ body' = "drained"
  BY DEF CallInv, Standing
<1>2. /\ AllLines = said \cup buffer /\ AllLines' = AllLines
      /\ Call!LinesIn(1 .. pos)' = said \cup buffer
  BY <1>1 DEF CallInv, CallTypes, InOrder, AllLines, Call!LinesIn
<1>3. lines' \cup buffer' = buffer /\ (buffer' = {} \/ lines' = {})
  BY <1>1
<1>4. CallTypes'
  BY <1>1, <1>3 DEF CallInv, CallTypes, Call!Settle, Call!TimersLeft
<1>5. InOrder'
  BY <1>1, <1>2, <1>3 DEF CallInv, InOrder, Call!FirstOf
<1>6. Standing'
  BY <1>1 DEF CallInv, Standing, Call!Settle, Call!TimersLeft
<1>7. Reasons'
  BY <1>1 DEF Reasons
<1>8. Call!EndsTruthfully'
  BY <1>1, <1>2, <1>5 DEF InOrder, AllLines, Call!EndsTruthfully, Call!Settle, Call!TimersLeft
<1> QED
  BY <1>4, <1>5, <1>6, <1>7, <1>8 DEF CallInv

LEMMA YieldKeeps ==
  ASSUME CallInv, Call!Yield
  PROVE  CallInv'
<1> USE DEF Call!Yield
<1>1. PICK line \in lines :
        /\ \A other \in lines : line <= other
        /\ IF reply[line] \notin Call!Chunks
           THEN /\ Call!Fails(IF reply[line] = "garbled" THEN "OLLAMA_INVALID_RESPONSE"
                                                        ELSE "OLLAMA_UNAVAILABLE")
                /\ UNCHANGED <<lines, buffer, said>>
           ELSE /\ said' = said \cup {line}
                /\ Call!GoOn(lines \ {line})
  OBVIOUS
<1>2. /\ at = "yielding" /\ outcome = "none" /\ body \in {"open", "drained"}
      /\ UNCHANGED <<kind, fired, signal, aborted, body, reply, pos>>
  BY DEF CallInv, CallTypes, Standing
<1>3. Reasons' /\ fired' \in BOOLEAN /\ signal' \in BOOLEAN /\ aborted' \in BOOLEAN
  BY <1>2 DEF Reasons, CallInv, CallTypes
<1>4. /\ reply \in Seq(Call!Symbols) /\ DOMAIN reply = 1 .. Len(reply) /\ Len(reply) \in Nat
      /\ pos \in Nat /\ pos <= Len(reply)
      /\ lines \subseteq 1 .. pos /\ buffer \subseteq 1 .. pos /\ said \subseteq 1 .. pos
  BY DEF CallInv, CallTypes
<1>5. /\ Call!LinesIn(1 .. pos) = said \cup lines \cup buffer
      /\ Call!FirstOf(said, AllLines) /\ said \cap (lines \cup buffer) = {}
      /\ (\A i \in lines, j \in buffer : i < j) /\ \A i \in said : reply[i] \in Call!Chunks
  BY <1>2 DEF CallInv, InOrder
<1>6. reply[line] \in Call!Texts
  BY <1>4, <1>5 DEF Call!LinesIn, Call!Symbols
<1>7. CASE reply[line] \notin Call!Chunks
  <2>1. reply[line] = "garbled" \/ reply[line] = "failed"
    BY <1>6, <1>7 DEF Call!Texts, Call!Chunks
  <2>2. line \in DOMAIN reply /\ UNCHANGED <<lineVars, kind, body>>
    BY <1>1, <1>2, <1>4, <1>7 DEF lineVars
  <2>3. PICK err \in {"OLLAMA_INVALID_RESPONSE", "OLLAMA_UNAVAILABLE"} :
          Call!Fails(err) /\ (err = "OLLAMA_UNAVAILABLE" => reply[line] = "failed")
    BY <1>1, <1>7, <2>1
  <2> QED
    BY <1>3, <2>2, <2>3, FailsSoundly
<1>8. CASE reply[line] \in Call!Chunks
  <2>1. said' = said \cup {line} /\ Call!GoOn(lines \ {line})
    BY <1>1, <1>8
  <2>2. AllLines' = AllLines /\ Call!LinesIn(1 .. pos)' = Call!LinesIn(1 .. pos)
    BY <1>2 DEF AllLines, Call!LinesIn
  <2>3. \A j \in AllLines : j \in said \cup lines \cup buffer \/ j > pos
    BY <1>4, <1>5 DEF AllLines, Call!LinesIn
  <2>4. AllLines \subseteq Nat /\ line \in AllLines
    BY <1>4, <1>5 DEF AllLines, Call!LinesIn
  <2>5. Call!FirstOf(said, AllLines)'
    <3>1. ASSUME NEW j \in AllLines, j \notin said, j # line PROVE line < j
      BY <1>1, <1>4, <1>5, <2>3, <2>4, <3>1
    <3>2. ASSUME NEW i \in said, NEW j \in AllLines, j \notin said PROVE i < j
      BY <1>5, <3>2 DEF Call!FirstOf
    <3>3. said \subseteq AllLines
      BY <1>5 DEF Call!FirstOf
    <3> QED
      BY <2>1, <2>2, <2>4, <3>1, <3>2, <3>3 DEF Call!FirstOf
  <2>6. \A i \in said' : reply'[i] \in Call!Chunks
    BY <1>2, <1>5, <1>8, <2>1
  <2>7. /\ buffer' \subseteq buffer /\ lines' \subseteq (lines \ {line}) \cup buffer
        /\ lines' \cup buffer' \subseteq (lines \ {line}) \cup buffer
        /\ buffer' # {} => lines' \subseteq lines
        /\ at' # "ended" => (lines \ {line}) \cup buffer = lines' \cup buffer'
    BY <2>1 DEF Call!GoOn, Call!Fails, Call!Settle
  <2>8. CallTypes'
    <3>1. aborted => fired \/ signal
      BY DEF CallInv, Reasons
    <3>2. /\ outcome' \in {"none", "completed", "left", "rethrown"} \cup Call!OllamaErrors
          /\ at' \in {"reading", "yielding", "ended"} /\ listening' \in BOOLEAN
          /\ timers' \subseteq {"total", "connect", "read"}
      BY <1>2, <2>1 DEF CallInv, CallTypes, Call!GoOn, Call!Fails, Call!Settle, Call!TimersLeft,
           Call!Caught, Call!OllamaErrors, Call!Continue
    <3> QED
      BY <1>1, <1>2, <1>3, <1>4, <2>1, <2>7, <3>2 DEF CallInv, CallTypes
  <2>9. InOrder'
    <3>1. said' \cap (lines' \cup buffer') = {}
      BY <1>1, <1>4, <1>5, <2>1, <2>7
    <3>2. \A i \in lines', j \in buffer' : i < j
      BY <1>5, <2>7
    <3>3. at' \notin {"ended", "parsing"} => Call!LinesIn(1 .. pos)' = said' \cup lines' \cup buffer'
      BY <1>1, <1>5, <2>1, <2>2, <2>7
    <3> QED
      BY <2>5, <2>6, <3>1, <3>2, <3>3 DEF InOrder
  <2>10. Standing'
    BY <1>2, <2>1 DEF CallInv, CallTypes, Standing, Call!GoOn, Call!Fails, Call!Settle,
         Call!TimersLeft, Call!Continue
  <2>11. Call!EndsTruthfully'
    <3>1. CASE at' # "ended"
      BY <2>2, <2>9, <3>1 DEF InOrder, AllLines, Call!EndsTruthfully
    <3> SUFFICES ASSUME at' = "ended" PROVE Call!EndsTruthfully'
      BY <3>1
    <3>2. aborted => fired \/ signal
      BY DEF CallInv, Reasons
    <3>3. /\ timers' = {} /\ ~listening'
          /\ \/ body = "drained" /\ outcome' = "completed" /\ lines \ {line} = {} /\ buffer = {}
             \/ aborted /\ outcome' = IF signal THEN "rethrown" ELSE "OLLAMA_TIMEOUT"
      BY <1>2, <2>1 DEF Call!GoOn, Call!Settle, Call!TimersLeft, Call!Fails, Call!Caught,
         Call!OllamaErrors, Call!Continue
    <3>4. body = "drained" => AllLines = Call!LinesIn(1 .. pos)
      BY <1>4 DEF CallInv, Standing, AllLines
    <3>5. outcome' = "completed" => said' = AllLines
      BY <1>5, <2>1, <3>3, <3>4
    <3> QED
      BY <1>2, <2>2, <2>9, <3>2, <3>3, <3>5 DEF InOrder, AllLines, Call!EndsTruthfully
  <2> QED
    BY <1>3, <2>8, <2>9, <2>10, <2>11 DEF CallInv
<1> QED
  BY <1>7, <1>8

LEMMA CallKeeps ==
  ASSUME Call!OllamaAssumption, CallInv, [Call!Next]_(Call!ollamaVars)
  PROVE  CallInv'
<1>1. CASE UNCHANGED Call!ollamaVars
  <2>1. UNCHANGED <<lineVars, kind, at, timers, fired, signal, listening, aborted, body, outcome>>
    BY <1>1 DEF Call!ollamaVars, lineVars
  <2>2. CallTypes'
    BY <2>1 DEF CallInv, CallTypes, lineVars
  <2>3. InOrder'
    BY <2>1, SameLines DEF CallInv, InOrder, lineVars
  <2>4. Standing' /\ Reasons'
    BY <2>1 DEF CallInv, Standing, Reasons, lineVars, Call!Streaming
  <2>5. Call!EndsTruthfully'
    BY <2>1, SameLines DEF CallInv, Call!EndsTruthfully, AllLines, lineVars, Call!Streaming
  <2> QED
    BY <2>2, <2>3, <2>4, <2>5 DEF CallInv
<1> QED
  BY <1>1, StartKeeps, HeadersFineKeeps, HeadersBadKeeps, ParseTagsKeeps, ReadPieceKeeps,
     ReadEndKeeps, DrainBehindKeeps, ReadBrokenKeeps, YieldKeeps, LeaveKeeps, FireKeeps,
     CallerAbortsKeeps DEF Call!Next

\* A call hands out the lines of the body in order, and how it ends is what happened to
\* it: streamRequest of ollama-client.service.ts, for any body and any cut of it.
THEOREM CallsHold ==
  ASSUME Call!OllamaAssumption
  PROVE  Call!Spec => [](Call!TypeOK /\ Call!EndsTruthfully)
<1>1. Call!Init => CallInv
  BY CallInit
<1>2. CallInv /\ [Call!Next]_(Call!ollamaVars) => CallInv'
  BY CallKeeps
<1>3. CallInv => Call!TypeOK /\ Call!EndsTruthfully
  BY CallSound
<1> QED
  BY <1>1, <1>2, <1>3, PTL DEF Call!Spec

-----------------------------------------------------------------------------
(* The reports on usage                                                    *)

CONSTANTS Users, Guests, Nobody, Entries, Ranges, OpenedLists, MaxRows, PageSize
VARIABLES log, sessions, chatting, walk, kept

Usage == INSTANCE UsageReports WITH Visitors <- Guests

\* The units of a sum are pairs of what is summed and a number.
LEMMA UnitsAre ==
  ASSUME NEW D, NEW f, DOMAIN f = D
  PROVE  \A u : u \in Usage!Units(f) <=> \E d \in D : \E k \in 1 .. f[d] : u = <<d, k>>
BY DEF Usage!Units

\* What the instance makes of the standard module is the same.
LEMMA SameCount == \A S : Usage!Cardinality(S) = Cardinality(S)
BY DEF Usage!Cardinality, Cardinality

\* Parts that are counted one by one and summed are counted together.
LEMMA CountedTogether ==
  ASSUME NEW D, NEW part, NEW T, IsFiniteSet(T),
         \A d \in D : part[d] \subseteq T,
         \A d, e \in D : d # e => part[d] \cap part[e] = {},
         \A x \in T : \E d \in D : x \in part[d]
  PROVE  Usage!Sum([d \in D |-> Cardinality(part[d])]) = Cardinality(T)
<1> DEFINE f == [d \in D |-> Cardinality(part[d])]
           U == Usage!Units(f)
           b == [d \in D |-> CHOOSE m : m \in Bijection(1 .. f[d], part[d])]
           h == [u \in U |-> b[u[1]][u[2]]]
<1>1. ASSUME NEW d \in D
      PROVE  \E m : m \in Bijection(1 .. f[d], part[d])
  <2>1. IsFiniteSet(part[d])
    BY FS_Subset
  <2>2. ExistsBijection(1 .. Cardinality(part[d]), part[d])
    BY <2>1, FS_CardinalityType
  <2> QED
    BY <2>2 DEF ExistsBijection
<1>2. \A d \in D : b[d] \in Bijection(1 .. f[d], part[d])
  BY <1>1
<1>3. \A u : u \in U <=> \E d \in D : \E k \in 1 .. f[d] : u = <<d, k>>
  BY UnitsAre
<1> HIDE DEF f, U
<1>4. \A d \in D : /\ \A k \in 1 .. f[d] : b[d][k] \in part[d]
                   /\ \A k, l \in 1 .. f[d] : b[d][k] = b[d][l] => k = l
                   /\ \A x \in part[d] : \E k \in 1 .. f[d] : b[d][k] = x
  <2> SUFFICES ASSUME NEW d \in D
               PROVE  /\ \A k \in 1 .. f[d] : b[d][k] \in part[d]
                      /\ \A k, l \in 1 .. f[d] : b[d][k] = b[d][l] => k = l
                      /\ \A x \in part[d] : \E k \in 1 .. f[d] : b[d][k] = x
    OBVIOUS
  <2>1. b[d] \in Bijection(1 .. f[d], part[d])
    BY <1>2
  <2> HIDE DEF b
  <2> QED
    BY <2>1 DEF Bijection, Injection, Surjection, IsInjective
<1> HIDE DEF b
<1>5. \A d \in D : \A k \in 1 .. f[d] : <<d, k>> \in U /\ h[<<d, k>>] = b[d][k]
  BY <1>3
<1>6. h \in [U -> T]
  <2>1. \A u \in U : b[u[1]][u[2]] \in T
    <3> SUFFICES ASSUME NEW u \in U PROVE b[u[1]][u[2]] \in T
      OBVIOUS
    <3>1. PICK d \in D : \E k \in 1 .. f[d] : u = <<d, k>>
      BY <1>3
    <3>2. PICK k \in 1 .. f[d] : u = <<d, k>>
      BY <3>1
    <3>3. b[d][k] \in part[d]
      BY <1>4
    <3> QED
      BY <3>2, <3>3
  <2> QED
    BY <2>1
<1> HIDE DEF h
<1>7. \A u, v \in U : h[u] = h[v] => u = v
  <2> SUFFICES ASSUME NEW u \in U, NEW v \in U, h[u] = h[v] PROVE u = v
    OBVIOUS
  <2>0. PICK d \in D, e \in D :
          (\E k \in 1 .. f[d] : u = <<d, k>>) /\ (\E l \in 1 .. f[e] : v = <<e, l>>)
    BY <1>3
  <2>1. PICK k \in 1 .. f[d] : u = <<d, k>>
    BY <2>0
  <2>2. PICK l \in 1 .. f[e] : v = <<e, l>>
    BY <2>0
  <2>3. b[d][k] = b[e][l] /\ b[d][k] \in part[d] /\ b[e][l] \in part[e]
    <3>1. h[u] = b[d][k] /\ h[v] = b[e][l]
      BY <2>1, <2>2, <1>5
    <3>2. b[d][k] \in part[d]
      BY <1>4
    <3>3. b[e][l] \in part[e]
      BY <1>4
    <3> QED
      BY <3>1, <3>2, <3>3
  <2>4. d = e
    BY <2>3
  <2> QED
    BY <2>1, <2>2, <2>3, <2>4, <1>4
<1>8. \A x \in T : \E u \in U : h[u] = x
  <2> SUFFICES ASSUME NEW x \in T PROVE \E u \in U : h[u] = x
    OBVIOUS
  <2>1. PICK d \in D : x \in part[d]
    OBVIOUS
  <2>2. PICK k \in 1 .. f[d] : b[d][k] = x
    BY <2>1, <1>4
  <2> QED
    BY <2>2, <1>5
<1>9. ExistsBijection(T, U)
  <2>1. h \in Bijection(U, T)
    BY <1>6, <1>7, <1>8 DEF Bijection, Injection, Surjection, IsInjective
  <2>2. ExistsBijection(U, T)
    BY <2>1 DEF ExistsBijection
  <2> QED
    BY <2>2, Fun_ExistsBijSymmetric
<1>10. Cardinality(U) = Cardinality(T)
  BY <1>9, FS_Bijection
<1> QED
  <2>1. Usage!Sum(f) = Cardinality(U)
    BY SameCount DEF Usage!Sum, U
  <2> QED
    BY <1>10, <2>1 DEF f

\* Numbers have finitely many units.
LEMMA FiniteUnits ==
  ASSUME NEW S, IsFiniteSet(S), NEW f \in [S -> Nat]
  PROVE  IsFiniteSet(Usage!Units(f))
<1> DEFINE own == [x \in S |-> {x} \X (1 .. f[x])]
           R == {own[x] : x \in S}
<1>1. IsFiniteSet(R)
  <2>1. own \in Surjection(S, R)
    BY DEF Surjection
  <2> HIDE DEF own
  <2> QED
    BY <2>1, FS_Surjection
<1>2. \A Y \in R : IsFiniteSet(Y)
  <2> SUFFICES ASSUME NEW x \in S PROVE IsFiniteSet({x} \X (1 .. f[x]))
    OBVIOUS
  <2>1. f[x] \in Int /\ 1 \in Int
    OBVIOUS
  <2>2. IsFiniteSet(1 .. f[x])
    BY <2>1, FS_Interval
  <2>3. IsFiniteSet({x})
    BY FS_Singleton
  <2> QED
    BY <2>2, <2>3, FS_Product
<1>3. Usage!Units(f) = UNION R
  BY DEF Usage!Units
<1> HIDE DEF R
<1> QED
  BY <1>1, <1>2, <1>3, FS_UNION

\* Sums of the parts add up to the sum of the whole.
LEMMA SumOfSums ==
  ASSUME NEW S, IsFiniteSet(S), NEW f \in [S -> Nat], NEW D, NEW part,
         \A d \in D : part[d] \subseteq S,
         \A d, e \in D : d # e => part[d] \cap part[e] = {},
         \A x \in S : \E d \in D : x \in part[d]
  PROVE  Usage!Sum([d \in D |-> Usage!Sum([x \in part[d] |-> f[x]])]) = Usage!Sum(f)
<1> DEFINE own(d) == [x \in part[d] |-> f[x]]
           units == [d \in D |-> Usage!Units(own(d))]
           T == Usage!Units(f)
<1>1. IsFiniteSet(T)
  BY FiniteUnits
<1>2. \A u : u \in T <=> \E x \in S : \E k \in 1 .. f[x] : u = <<x, k>>
  BY UnitsAre
<1>3. \A d \in D : \A u :
        u \in units[d] <=> \E x \in part[d] : \E k \in 1 .. f[x] : u = <<x, k>>
  <2> SUFFICES ASSUME NEW d \in D
               PROVE  \A u : u \in units[d] <=> \E x \in part[d] : \E k \in 1 .. f[x] : u = <<x, k>>
    OBVIOUS
  <2>1. \A x \in part[d] : own(d)[x] = f[x]
    OBVIOUS
  <2>2. DOMAIN own(d) = part[d]
    OBVIOUS
  <2>3. units[d] = Usage!Units(own(d))
    OBVIOUS
  <2> HIDE DEF own, units
  <2>4. \A u : u \in Usage!Units(own(d))
          <=> \E x \in part[d] : \E k \in 1 .. own(d)[x] : u = <<x, k>>
    BY <2>2, UnitsAre
  <2> QED
    BY <2>1, <2>3, <2>4
<1> HIDE DEF T, units
<1>4. Usage!Sum([d \in D |-> Cardinality(units[d])]) = Cardinality(T)
  <2>1. \A d \in D : units[d] \subseteq T
    BY <1>2, <1>3
  <2>2. \A d, e \in D : d # e => units[d] \cap units[e] = {}
    <3> SUFFICES ASSUME NEW d \in D, NEW e \in D, d # e, NEW u \in units[d], u \in units[e]
                 PROVE  FALSE
      OBVIOUS
    <3>1. PICK x \in part[d] : \E k \in 1 .. f[x] : u = <<x, k>>
      BY <1>3
    <3>2. PICK y \in part[e] : \E k \in 1 .. f[y] : u = <<y, k>>
      BY <1>3
    <3>3. x = y
      BY <3>1, <3>2
    <3> QED
      BY <3>3
  <2>3. \A u \in T : \E d \in D : u \in units[d]
    <3> SUFFICES ASSUME NEW u \in T PROVE \E d \in D : u \in units[d]
      OBVIOUS
    <3>1. PICK x \in S : \E k \in 1 .. f[x] : u = <<x, k>>
      BY <1>2
    <3>2. PICK d \in D : x \in part[d]
      OBVIOUS
    <3> QED
      BY <3>1, <3>2, <1>3
  <2> QED
    BY <1>1, <2>1, <2>2, <2>3, CountedTogether
<1>5. \A d \in D : Usage!Sum(own(d)) = Cardinality(units[d])
  <2> SUFFICES ASSUME NEW d \in D PROVE Usage!Sum(own(d)) = Cardinality(units[d])
    OBVIOUS
  <2>1. units[d] = Usage!Units(own(d))
    BY DEF units
  <2> QED
    BY <2>1, SameCount DEF Usage!Sum
<1>6. Usage!Sum(f) = Cardinality(T)
  BY SameCount DEF Usage!Sum, T
<1>7. [d \in D |-> Usage!Sum(own(d))] = [d \in D |-> Cardinality(units[d])]
  <2> HIDE DEF own
  <2> QED
    BY <1>5
<1> QED
  BY <1>4, <1>6, <1>7

LogRecords == {[owner |-> o, group |-> e.group, input |-> e.input, output |-> e.output] :
                 o \in Usage!Owners \cup {Nobody}, e \in Entries}

WalkRecords == [owner : Usage!Owners \cup {Nobody}, range : Ranges \cup {Usage!AllTime},
                page : Nat, counting : BOOLEAN, rows : SUBSET Usage!Rows,
                shown : SUBSET Usage!Rows, due : SUBSET Usage!Rows, pages : Nat,
                pruned : BOOLEAN, backward : BOOLEAN]

PageRecords == [age : {"none", "fresh", "stale"}, rows : SUBSET Usage!Rows, pages : Nat,
                older : BOOLEAN]

\* Nobody has rows who is neither a user nor a session that exists, but for summaries.
Owned == \A i \in DOMAIN log : log[i].owner \in Users \cup sessions \cup {Nobody}
UsageTyped == /\ Usage!TypeOK /\ Len(log) <= MaxRows /\ Owned
UsageAssumption ==
  /\ Usage!OwnersAssumption /\ Usage!EntriesAssumption
  /\ Usage!SizesAssumption /\ Usage!RangesAssumption

\* The log is a finite set of rows with numbers in them.
LEMMA TheLog ==
  ASSUME Usage!EntriesAssumption, Usage!TypeOK
  PROVE  /\ IsFiniteSet(DOMAIN log) /\ DOMAIN log = 1 .. Len(log) /\ Len(log) \in Nat
         /\ \A i \in DOMAIN log : log[i].input \in Nat /\ log[i].output \in Nat
<1>1. log \in Seq(LogRecords)
  BY DEF Usage!TypeOK, LogRecords
<1>2. \A x \in LogRecords : x.input \in Nat /\ x.output \in Nat
  BY DEF Usage!EntriesAssumption, LogRecords
<1>3. DOMAIN log = 1 .. Len(log) /\ Len(log) \in Nat
  BY <1>1
<1>4. \A i \in DOMAIN log : log[i] \in LogRecords
  BY <1>1
<1>5. IsFiniteSet(1 .. Len(log))
  BY <1>3, FS_Interval, 1 \in Int
<1> QED
  BY <1>2, <1>3, <1>4, <1>5

\* The groups of some rows are parts of them.
LEMMA GroupsAre ==
  ASSUME NEW S
  PROVE  LET part == Usage!Groups(S) IN
         /\ \A g \in DOMAIN part : part[g] = {i \in S : log[i].group = g}
         /\ \A g \in DOMAIN part : part[g] \subseteq S
         /\ \A g, h \in DOMAIN part : g # h => part[g] \cap part[h] = {}
         /\ \A i \in S : \E g \in DOMAIN part : i \in part[g]
BY DEF Usage!Groups

\* The breakdown of an owner's usage adds up to the totals.
LEMMA BreakdownAdds ==
  ASSUME Usage!EntriesAssumption, Usage!TypeOK, NEW o, NEW range
  PROVE  LET parts == Usage!Detail(o, range).breakdown
             usage == Usage!Detail(o, range).usage
         IN /\ Usage!AllRequests(parts) = usage.requests
            /\ Usage!AllInput(parts) = usage.input /\ Usage!AllOutput(parts) = usage.output
<1> DEFINE S == Usage!Logged(o, range)
           part == Usage!Groups(S)
           D == DOMAIN part
           parts == Usage!Detail(o, range).breakdown
           usage == Usage!Detail(o, range).usage
<1>1. /\ DOMAIN parts = D
      /\ \A g \in D : parts[g] = Usage!Report(part[g])
      /\ usage = Usage!Report(S)
  BY DEF Usage!Detail, Usage!Breakdown, Usage!Totals
<1>2. IsFiniteSet(S)
  <2>1. S \in SUBSET (DOMAIN log)
    BY DEF Usage!Logged
  <2> QED
    BY <2>1, TheLog, FS_Subset
<1>3. \A i \in S : log[i].input \in Nat /\ log[i].output \in Nat
  BY TheLog DEF Usage!Logged
<1>4. /\ \A g \in D : part[g] \subseteq S
      /\ \A g, h \in D : g # h => part[g] \cap part[h] = {}
      /\ \A i \in S : \E g \in D : i \in part[g]
  BY GroupsAre
<1> HIDE DEF S, part, D, parts, usage
<1>5. \A T : /\ Usage!Report(T).requests = Cardinality(T)
             /\ Usage!Report(T).input = Usage!Sum([i \in T |-> log[i].input])
             /\ Usage!Report(T).output = Usage!Sum([i \in T |-> log[i].output])
  BY SameCount DEF Usage!Report
<1>6. Usage!AllRequests(parts) = usage.requests
  <2>1. [g \in D |-> parts[g].requests] = [g \in D |-> Cardinality(part[g])]
    BY <1>1, <1>5
  <2>2. Usage!Sum([g \in D |-> Cardinality(part[g])]) = Cardinality(S)
    BY <1>2, <1>4, CountedTogether
  <2> QED
    BY <1>1, <1>5, <2>1, <2>2 DEF Usage!AllRequests
<1>7. Usage!AllInput(parts) = usage.input
  <2> DEFINE f == [i \in S |-> log[i].input]
  <2>1. f \in [S -> Nat]
    BY <1>3
  <2>2. \A g \in D : [i \in part[g] |-> f[i]] = [i \in part[g] |-> log[i].input]
    BY <1>4
  <2>3. usage.input = Usage!Sum(f)
    BY <1>1, <1>5
  <2> HIDE DEF f
  <2>4. Usage!Sum([g \in D |-> Usage!Sum([i \in part[g] |-> f[i]])]) = Usage!Sum(f)
    BY <1>2, <1>4, <2>1, SumOfSums
  <2>5. \A g \in D : parts[g].input = Usage!Sum([i \in part[g] |-> f[i]])
    BY <1>1, <1>5, <2>2
  <2>6. [g \in D |-> parts[g].input] = [g \in D |-> Usage!Sum([i \in part[g] |-> f[i]])]
    BY <2>5
  <2> QED
    BY <1>1, <2>3, <2>4, <2>6 DEF Usage!AllInput
<1>8. Usage!AllOutput(parts) = usage.output
  <2> DEFINE f == [i \in S |-> log[i].output]
  <2>1. f \in [S -> Nat]
    BY <1>3
  <2>2. \A g \in D : [i \in part[g] |-> f[i]] = [i \in part[g] |-> log[i].output]
    BY <1>4
  <2>3. usage.output = Usage!Sum(f)
    BY <1>1, <1>5
  <2> HIDE DEF f
  <2>4. Usage!Sum([g \in D |-> Usage!Sum([i \in part[g] |-> f[i]])]) = Usage!Sum(f)
    BY <1>2, <1>4, <2>1, SumOfSums
  <2>5. \A g \in D : parts[g].output = Usage!Sum([i \in part[g] |-> f[i]])
    BY <1>1, <1>5, <2>2
  <2>6. [g \in D |-> parts[g].output] = [g \in D |-> Usage!Sum([i \in part[g] |-> f[i]])]
    BY <2>5
  <2> QED
    BY <1>1, <2>3, <2>4, <2>6 DEF Usage!AllOutput
<1> QED
  BY <1>6, <1>7, <1>8 DEF parts, usage

\* The lists show what the pages of their entries show.
LEMMA ListsShow ==
  ASSUME NEW range
  PROVE  /\ \A o : Usage!Aggregate(o, range) = Usage!Totals(o, range)
         /\ \A u \in Users : Usage!ListUsers(range)[u] = Usage!Detail(u, range).usage
         /\ \A v \in DOMAIN Usage!ListVisitors(range) :
              Usage!ListVisitors(range)[v] = Usage!Detail(v, range).usage
<1>1. \A o : Usage!Aggregate(o, range) = Usage!Totals(o, range)
  <2>1. \A o : {i \in DOMAIN log : log[i].owner = o /\ Usage!InRangeSql(i, range)}
                 = Usage!Logged(o, range)
    BY DEF Usage!Logged, Usage!InRangeSql, Usage!InWhere
  <2> QED
    BY <2>1 DEF Usage!Aggregate, Usage!Totals
<1> QED
  BY <1>1 DEF Usage!ListUsers, Usage!ListVisitors, Usage!Detail

\* The requests of some owners, summed, are those of the rows they have.
LEMMA RequestsOf ==
  ASSUME Usage!EntriesAssumption, Usage!TypeOK, NEW D, NEW range
  PROVE  LET S == {i \in DOMAIN log : log[i].owner \in D /\ Usage!InWhere(i, range)} IN
         /\ IsFiniteSet(S)
         /\ Usage!AllRequests([o \in D |-> Usage!Aggregate(o, range)]) = Cardinality(S)
<1> DEFINE S == {i \in DOMAIN log : log[i].owner \in D /\ Usage!InWhere(i, range)}
           part == [o \in D |-> Usage!Logged(o, range)]
<1>1. IsFiniteSet(S)
  <2>1. S \in SUBSET (DOMAIN log)
    OBVIOUS
  <2> QED
    BY <2>1, TheLog, FS_Subset
<1>2. /\ \A o \in D : part[o] \subseteq S
      /\ \A o, p \in D : o # p => part[o] \cap part[p] = {}
      /\ \A i \in S : \E o \in D : i \in part[o]
  BY DEF Usage!Logged
<1>3. \A o \in D : Usage!Aggregate(o, range).requests = Cardinality(part[o])
  <2>1. \A T : Usage!Report(T).requests = Cardinality(T)
    BY SameCount DEF Usage!Report
  <2>2. \A o \in D : Usage!Aggregate(o, range) = Usage!Report(part[o])
    BY ListsShow DEF Usage!Totals
  <2> QED
    BY <2>1, <2>2
<1> HIDE DEF S, part
<1>4. Usage!Sum([o \in D |-> Cardinality(part[o])]) = Cardinality(S)
  BY <1>1, <1>2, CountedTogether
<1>5. [o \in D |-> Usage!Aggregate(o, range).requests] = [o \in D |-> Cardinality(part[o])]
  BY <1>3
<1>6. Usage!AllRequests([o \in D |-> Usage!Aggregate(o, range)])
        = Usage!Sum([o \in D |-> Usage!Aggregate(o, range).requests])
  BY DEF Usage!AllRequests
<1>7. Usage!AllRequests([o \in D |-> Usage!Aggregate(o, range)]) = Cardinality(S)
  BY <1>4, <1>5, <1>6
<1> QED
  BY <1>1, <1>7 DEF S

\* Both lists together have every row that has an owner.
LEMMA ListsHaveAll ==
  ASSUME UsageAssumption, UsageTyped, NEW range
  PROVE  Usage!AllRequests(Usage!ListUsers(range)) + Usage!AllRequests(Usage!ListVisitors(range))
           = Usage!Cardinality({i \in DOMAIN log : log[i].owner # Nobody /\ Usage!InWhere(i, range)})
<1> DEFINE Had(D) == {i \in DOMAIN log : log[i].owner \in D /\ Usage!InWhere(i, range)}
           Active == {v \in sessions : Usage!HasActivity(v)}
           all == {i \in DOMAIN log : log[i].owner # Nobody /\ Usage!InWhere(i, range)}
<1>0. Usage!EntriesAssumption /\ Usage!TypeOK
  BY DEF UsageAssumption, UsageTyped
<1>1. /\ IsFiniteSet(Had(Users))
      /\ Usage!AllRequests(Usage!ListUsers(range)) = Cardinality(Had(Users))
  BY <1>0, RequestsOf DEF Usage!ListUsers
<1>2. /\ IsFiniteSet(Had(Active))
      /\ Usage!AllRequests(Usage!ListVisitors(range)) = Cardinality(Had(Active))
  <2> HIDE DEF Active
  <2>1. /\ IsFiniteSet(Had(Active))
        /\ Usage!AllRequests([o \in Active |-> Usage!Aggregate(o, range)]) = Cardinality(Had(Active))
    BY <1>0, RequestsOf
  <2> QED
    BY <2>1 DEF Usage!ListVisitors, Active
<1>3. sessions \subseteq Guests /\ Users \cap Guests = {} /\ Nobody \notin Users \cup Guests
  BY DEF UsageTyped, UsageAssumption, Usage!TypeOK, Usage!OwnersAssumption
<1>4. Had(Users) \cap Had(Active) = {}
  BY <1>3
<1>5. Had(Users) \cup Had(Active) = all
  <2>1. \A i \in DOMAIN log : log[i].owner \in Users \cup sessions \cup {Nobody}
    BY DEF UsageTyped, Owned
  <2>2. \A i \in DOMAIN log : log[i].owner \in sessions => log[i].owner \in Active
    BY DEF Usage!HasActivity
  <2> QED
    BY <1>3, <2>1, <2>2
<1> HIDE DEF Had, Active, all
<1>6. Cardinality(all) = Cardinality(Had(Users)) + Cardinality(Had(Active))
  <2>1. Cardinality(Had(Users) \cup Had(Active))
          = Cardinality(Had(Users)) + Cardinality(Had(Active)) - Cardinality({})
    BY <1>1, <1>2, <1>4, FS_Union
  <2>2. Cardinality({}) = 0
    BY FS_EmptySet
  <2>3. Cardinality(Had(Users)) \in Nat /\ Cardinality(Had(Active)) \in Nat
    BY <1>1, <1>2, FS_CardinalityType
  <2> DEFINE a == Cardinality(Had(Users))
             b == Cardinality(Had(Active))
  <2>4. Cardinality(all) = a + b - 0
    BY <1>5, <2>1, <2>2
  <2>5. a \in Nat /\ b \in Nat
    BY <2>3
  <2> QED
    BY <2>4, <2>5
<1>7. Usage!Cardinality(all) = Cardinality(all)
  BY SameCount
<1> QED
  BY <1>1, <1>2, <1>6, <1>7 DEF all

LEMMA AlwaysAgree ==
  ASSUME UsageAssumption, UsageTyped
  PROVE  Usage!ReportsAgree
<1>0. Usage!EntriesAssumption /\ Usage!TypeOK
  BY DEF UsageAssumption, UsageTyped
<1> SUFFICES ASSUME NEW range \in Ranges
             PROVE  /\ \A u \in Users :
                         Usage!ListUsers(range)[u] = Usage!Detail(u, range).usage
                    /\ \A v \in DOMAIN Usage!ListVisitors(range) :
                         Usage!ListVisitors(range)[v] = Usage!Detail(v, range).usage
                    /\ \A o \in Usage!Owners :
                         LET parts == Usage!Detail(o, range).breakdown
                             usage == Usage!Detail(o, range).usage
                         IN /\ Usage!AllRequests(parts) = usage.requests
                            /\ Usage!AllInput(parts) = usage.input
                            /\ Usage!AllOutput(parts) = usage.output
                    /\ Usage!AllRequests(Usage!ListUsers(range))
                         + Usage!AllRequests(Usage!ListVisitors(range))
                       = Usage!Cardinality({i \in DOMAIN log :
                           log[i].owner # Nobody /\ Usage!InWhere(i, range)})
  BY DEF Usage!ReportsAgree
<1>1. \A o \in Usage!Owners :
        LET parts == Usage!Detail(o, range).breakdown
            usage == Usage!Detail(o, range).usage
        IN /\ Usage!AllRequests(parts) = usage.requests
           /\ Usage!AllInput(parts) = usage.input
           /\ Usage!AllOutput(parts) = usage.output
  BY <1>0, BreakdownAdds
<1> QED
  BY <1>1, ListsShow, ListsHaveAll

OpenRows == Usage!Logged(walk.owner, walk.range)

\* The rows that were due and have not been shown are behind the first p pages.
Behind(p) == \A i \in walk.due \ walk.shown :
               Cardinality(Usage!Newer(i, OpenRows)) >= p * PageSize

\* What the client has of a page was read from the first page on ...
Later(p) == kept[p].age # "none" /\ ~kept[p].older

\* ... and none was left behind it when it was the last.
KeptBehind ==
  \A p \in Usage!Rows :
    Later(p) => Behind(p) /\ (p >= kept[p].pages => walk.due \subseteq walk.shown)

Followed == walk.page > 0 /\ ~walk.pruned /\ ~walk.backward

Paged ==
  /\ walk.page <= MaxRows /\ (walk.counting => walk.page > 0)
  /\ Followed => walk.due \subseteq OpenRows /\ Behind(walk.page) /\ KeptBehind

UsageInv == UsageTyped /\ Paged /\ Usage!NoRowSkipped

\* More rows leave no row with fewer that are newer.
LEMMA NewerGrow ==
  ASSUME NEW S, NEW T, IsFiniteSet(T), S \subseteq T, NEW i
  PROVE  /\ Cardinality(Usage!Newer(i, S)) \in Nat
         /\ Cardinality(Usage!Newer(i, T)) \in Nat
         /\ Cardinality(Usage!Newer(i, S)) <= Cardinality(Usage!Newer(i, T))
<1>1. /\ Usage!Newer(i, S) \in SUBSET Usage!Newer(i, T)
      /\ Usage!Newer(i, T) \in SUBSET T
  BY DEF Usage!Newer
<1> HIDE DEF Usage!Newer
<1>2. IsFiniteSet(Usage!Newer(i, T))
  BY <1>1, FS_Subset
<1>3. /\ IsFiniteSet(Usage!Newer(i, S))
      /\ Cardinality(Usage!Newer(i, S)) <= Cardinality(Usage!Newer(i, T))
  BY <1>1, <1>2, FS_Subset
<1> QED
  BY <1>2, <1>3, FS_CardinalityType

\* Fewer rows are newer than one of them than there are.
LEMMA NewerFewer ==
  ASSUME NEW T, IsFiniteSet(T), T \subseteq Nat, NEW i \in T
  PROVE  Cardinality(Usage!Newer(i, T)) < Cardinality(T)
<1>1. Usage!Newer(i, T) \in SUBSET (T \ {i})
  BY DEF Usage!Newer
<1>2. IsFiniteSet(T \ {i}) /\ Cardinality(T \ {i}) = Cardinality(T) - 1
  BY FS_RemoveElement
<1>3. Cardinality(Usage!Newer(i, T)) <= Cardinality(T \ {i})
  BY <1>1, <1>2, FS_Subset
<1>4. IsFiniteSet(Usage!Newer(i, T))
  BY <1>1, <1>2, FS_Subset
<1> DEFINE n == Cardinality(Usage!Newer(i, T))
           c == Cardinality(T)
<1>5. n \in Nat /\ c \in Nat
  BY <1>4, FS_CardinalityType
<1>6. n <= c - 1
  BY <1>2, <1>3
<1> HIDE DEF n, c
<1>7. n < c
  BY <1>5, <1>6
<1> QED
  BY <1>7 DEF n, c

\* There are pages for all rows.
LEMMA PagesSuffice ==
  ASSUME Usage!SizesAssumption, NEW total \in Nat
  PROVE  Usage!Ceil(total) \in Nat /\ total <= Usage!Ceil(total) * PageSize
<1>1. PageSize \in Nat \ {0}
  BY DEF Usage!SizesAssumption
<1>2. CASE total = 0
  BY <1>1, <1>2 DEF Usage!Ceil
<1>3. CASE total # 0
  <2> DEFINE n == total + PageSize - 1
             q == n \div PageSize
  <2>1. n \in Nat /\ total = n + 1 - PageSize
    BY <1>1, <1>3
  <2> HIDE DEF n
  <2>2. q \in Nat /\ n < (q + 1) * PageSize
    BY <1>1, <2>1
  <2>3. Usage!Ceil(total) = q
    BY <1>3 DEF Usage!Ceil, n
  <2> HIDE DEF q
  <2>4. (q + 1) * PageSize = q * PageSize + PageSize /\ q * PageSize \in Nat
    BY <1>1, <2>2
  <2> QED
    BY <1>1, <2>1, <2>2, <2>3, <2>4
<1> QED
  BY <1>2, <1>3

LEMMA UsageInit ==
  ASSUME UsageAssumption, Usage!Init
  PROVE  UsageInv
<1> USE DEF UsageAssumption, Usage!Init
<1>1. walk \in WalkRecords
  BY DEF Usage!NoWalk, WalkRecords
<1>2. kept \in [Usage!Rows -> PageRecords]
  BY DEF Usage!NoPage, PageRecords
<1>3. UsageTyped
  BY <1>1, <1>2 DEF UsageTyped, Usage!TypeOK, WalkRecords, PageRecords, Owned, Usage!SizesAssumption
<1>4. Paged /\ Usage!NoRowSkipped
  BY DEF Paged, Followed, Usage!NoRowSkipped, Usage!NoWalk, Usage!SizesAssumption
<1> QED
  BY <1>3, <1>4 DEF UsageInv

\* No row has fewer newer ones when rows come, or more are shown.
LEMMA BehindStays ==
  ASSUME UsageAssumption, UsageTyped', OpenRows \subseteq OpenRows',
         walk'.due = walk.due, walk.shown \subseteq walk'.shown,
         NEW p \in Nat, Behind(p)
  PROVE  Behind(p)'
<1>1. IsFiniteSet(OpenRows')
  <2>1. DOMAIN log' = 1 .. Len(log') /\ Len(log') \in Int /\ 1 \in Int
    BY DEF UsageTyped, Usage!TypeOK
  <2>2. IsFiniteSet(DOMAIN log')
    BY <2>1, FS_Interval
  <2>3. OpenRows' \in SUBSET (DOMAIN log')
    BY DEF OpenRows, Usage!Logged
  <2> QED
    BY <2>2, <2>3, FS_Subset
<1>2. p * PageSize \in Nat
  BY DEF UsageAssumption, Usage!SizesAssumption
<1> SUFFICES ASSUME NEW i \in walk.due \ walk'.shown
             PROVE  Cardinality(Usage!Newer(i, OpenRows')) >= p * PageSize
  BY DEF Behind, Usage!Newer
<1>3. /\ Cardinality(Usage!Newer(i, OpenRows)) \in Nat
      /\ Cardinality(Usage!Newer(i, OpenRows')) \in Nat
      /\ Cardinality(Usage!Newer(i, OpenRows)) <= Cardinality(Usage!Newer(i, OpenRows'))
  BY <1>1, NewerGrow
<1>4. Cardinality(Usage!Newer(i, OpenRows)) >= p * PageSize
  BY DEF Behind
<1> QED
  BY <1>2, <1>3, <1>4

\* A step that takes no row from the owner of the pages, and after which the client has no
\* page of which it had none before.
LEMMA FollowedStays ==
  ASSUME UsageAssumption, UsageInv, UsageTyped',
         Followed' => Followed /\ OpenRows \subseteq OpenRows',
         walk'.due = walk.due, walk.shown \subseteq walk'.shown,
         \A p \in Usage!Rows : Later(p)' => Later(p) /\ kept'[p].pages = kept[p].pages
  PROVE  Followed' => walk'.due \subseteq OpenRows' /\ KeptBehind'
<1> SUFFICES ASSUME Followed'
             PROVE  walk'.due \subseteq OpenRows' /\ KeptBehind'
  OBVIOUS
<1>1. Followed /\ OpenRows \subseteq OpenRows'
  OBVIOUS
<1>2. walk.due \subseteq OpenRows /\ KeptBehind
  BY <1>1 DEF UsageInv, Paged
<1>3. ASSUME NEW p \in Usage!Rows, Later(p)'
      PROVE  Behind(p)' /\ (p >= kept'[p].pages => walk'.due \subseteq walk'.shown)
  <2>1. Later(p) /\ kept'[p].pages = kept[p].pages
    BY <1>3
  <2>2. Behind(p) /\ (p >= kept[p].pages => walk.due \subseteq walk.shown)
    BY <1>2, <2>1 DEF KeptBehind
  <2>3. p \in Nat
    BY DEF Usage!Rows
  <2>4. Behind(p)'
    BY <1>1, <2>2, <2>3, BehindStays
  <2> QED
    BY <2>1, <2>2, <2>4
<1>4. KeptBehind'
  BY <1>3 DEF KeptBehind, Usage!Rows
<1> QED
  BY <1>1, <1>2, <1>4

\* A step that shows no page.
LEMMA PagedStays ==
  ASSUME UsageAssumption, UsageInv, UsageTyped', walk'.pruned \/ OpenRows \subseteq OpenRows',
         walk.pruned => walk'.pruned,
         \A a \in {"owner", "range", "page", "counting", "shown", "due", "pages", "backward"} :
           walk'[a] = walk[a],
         \A p \in Usage!Rows : Later(p)' => Later(p) /\ kept'[p].pages = kept[p].pages
  PROVE  Paged' /\ Usage!NoRowSkipped'
<1>0. /\ walk'.owner = walk.owner /\ walk'.range = walk.range /\ walk'.page = walk.page
      /\ walk'.counting = walk.counting /\ walk'.shown = walk.shown /\ walk'.due = walk.due
      /\ walk'.pages = walk.pages /\ walk'.backward = walk.backward
  OBVIOUS
<1>1. Usage!NoRowSkipped'
  BY <1>0 DEF UsageInv, Usage!NoRowSkipped
<1>2. Followed' => Followed /\ OpenRows \subseteq OpenRows'
  BY <1>0 DEF Followed
<1>3. Followed' => walk'.due \subseteq OpenRows' /\ KeptBehind'
  BY <1>0, <1>2, FollowedStays
<1>4. ASSUME Followed' PROVE Behind(walk.page)'
  <2>1. Behind(walk.page) /\ walk.page \in Nat
    BY <1>2, <1>4 DEF UsageInv, UsageTyped, Usage!TypeOK, Paged
  <2>2. PICK p \in Nat : p = walk.page
    BY <2>1
  <2>3. Behind(p)'
    BY <1>0, <1>2, <1>4, <2>1, <2>2, BehindStays
  <2> QED
    BY <1>0, <2>2, <2>3 DEF Behind
<1>5. Paged'
  <2>1. walk'.page <= MaxRows /\ (walk'.counting => walk'.page > 0)
    BY <1>0 DEF UsageInv, Paged
  <2> QED
    BY <1>3, <1>4, <2>1 DEF Paged
<1> QED
  BY <1>1, <1>5

LEMMA RecordKeeps ==
  ASSUME UsageAssumption, UsageInv,
         NEW o \in Usage!Owners \cup {Nobody}, NEW e \in Entries, Usage!Record(o, e)
  PROVE  UsageInv'
<1> DEFINE r == [owner |-> o, group |-> e.group, input |-> e.input, output |-> e.output]
<1>1. log \in Seq(LogRecords) /\ r \in LogRecords /\ Len(log) < MaxRows
  <2>1. log \in Seq(LogRecords)
    BY DEF UsageInv, UsageTyped, Usage!TypeOK, LogRecords
  <2>2. r \in LogRecords
    BY DEF LogRecords
  <2>3. Len(log) < MaxRows
    BY DEF Usage!Record
  <2> QED
    BY <2>1, <2>2, <2>3
<1>2. /\ log' = Append(log, r) /\ r.owner = o /\ o \in Users \cup sessions \cup {Nobody}
      /\ UNCHANGED <<sessions, chatting, walk, kept>>
  BY DEF Usage!Record
<1> HIDE DEF r
<1>3. /\ log' \in Seq(LogRecords) /\ Len(log') = Len(log) + 1 /\ Len(log) \in Nat
      /\ DOMAIN log = 1 .. Len(log) /\ DOMAIN log' = 1 .. Len(log) + 1
      /\ \A i \in DOMAIN log : log'[i] = log[i]
      /\ log'[Len(log) + 1] = r
  BY <1>1, <1>2
<1>4. UsageTyped'
  <2>1. Usage!TypeOK'
    BY <1>2, <1>3 DEF UsageInv, UsageTyped, Usage!TypeOK, LogRecords
  <2>2. (Len(log) <= MaxRows)'
    BY <1>1, <1>3 DEF UsageAssumption, Usage!SizesAssumption
  <2>3. Owned'
    <3> SUFFICES ASSUME NEW i \in DOMAIN log'
                 PROVE  log'[i].owner \in Users \cup sessions' \cup {Nobody}
      BY DEF Owned
    <3>1. CASE i = Len(log) + 1
      BY <1>2, <1>3, <3>1
    <3>2. CASE i \in DOMAIN log
      BY <1>2, <1>3, <3>2 DEF UsageInv, UsageTyped, Owned
    <3> QED
      BY <1>3, <3>1, <3>2
  <2> QED
    BY <2>1, <2>2, <2>3 DEF UsageTyped
<1>5. OpenRows \subseteq OpenRows'
  BY <1>2, <1>3 DEF OpenRows, Usage!Logged, Usage!InWhere
<1>6. Paged' /\ Usage!NoRowSkipped'
  BY <1>2, <1>4, <1>5, PagedStays DEF Later
<1> QED
  BY <1>4, <1>6 DEF UsageInv

LEMMA CreateChatKeeps ==
  ASSUME UsageAssumption, UsageInv, NEW v \in Guests, Usage!CreateChat(v)
  PROVE  UsageInv'
<1>1. /\ v \in sessions /\ chatting' = chatting \cup {v}
      /\ UNCHANGED <<log, sessions, walk, kept>>
  BY DEF Usage!CreateChat
<1>2. UsageTyped'
  BY <1>1 DEF UsageInv, UsageTyped, Usage!TypeOK, Owned
<1>3. OpenRows \subseteq OpenRows'
  BY <1>1 DEF OpenRows, Usage!Logged, Usage!InWhere
<1>4. Paged' /\ Usage!NoRowSkipped'
  BY <1>1, <1>2, <1>3, PagedStays DEF Later
<1> QED
  BY <1>2, <1>4 DEF UsageInv

LEMMA ReassignKeeps ==
  ASSUME UsageAssumption, UsageInv, NEW v \in Guests, NEW u \in Users, Usage!Reassign(v, u)
  PROVE  UsageInv'
<1>1. /\ v \in sessions
      /\ log' = [i \in DOMAIN log |->
                   IF log[i].owner = v THEN [log[i] EXCEPT !.owner = u] ELSE log[i]]
      /\ sessions' = sessions \ {v} /\ chatting' = chatting \ {v}
      /\ walk' = [walk EXCEPT !.pruned = @ \/ walk.owner = v] /\ kept' = kept
  BY DEF Usage!Reassign
<1>2. /\ log \in Seq(LogRecords) /\ Len(log) \in Nat /\ DOMAIN log = 1 .. Len(log)
      /\ \A i \in DOMAIN log : log[i] \in LogRecords
  BY DEF UsageInv, UsageTyped, Usage!TypeOK, LogRecords
<1>3. \A i \in DOMAIN log : log'[i] \in LogRecords
  <2> SUFFICES ASSUME NEW i \in DOMAIN log PROVE log'[i] \in LogRecords
    OBVIOUS
  <2>1. CASE log[i].owner = v
    <3>0. log[i] \in LogRecords
      BY <1>2
    <3>1. PICK o \in Usage!Owners \cup {Nobody}, e \in Entries :
            log[i] = [owner |-> o, group |-> e.group, input |-> e.input, output |-> e.output]
      BY <3>0 DEF LogRecords
    <3>2. log'[i] = [owner |-> u, group |-> e.group, input |-> e.input, output |-> e.output]
      BY <1>1, <2>1, <3>1
    <3>3. u \in Usage!Owners \cup {Nobody}
      BY DEF Usage!Owners
    <3> QED
      BY <3>2, <3>3 DEF LogRecords
  <2>2. CASE log[i].owner # v
    BY <1>1, <1>2, <2>2
  <2> QED
    BY <2>1, <2>2
<1>4. log' \in Seq(LogRecords) /\ Len(log') = Len(log) /\ DOMAIN log' = DOMAIN log
  <2>1. DOMAIN log' = 1 .. Len(log) /\ log' = [i \in 1 .. Len(log) |-> log'[i]]
    BY <1>1, <1>2
  <2>2. log' \in [1 .. Len(log) -> LogRecords]
    BY <1>2, <1>3, <2>1
  <2>3. log' \in Seq(LogRecords)
    BY <1>2, <2>2, SeqDef
  <2>4. DOMAIN log' = 1 .. Len(log') /\ Len(log') \in Nat
    BY <2>3
  <2> QED
    BY <1>2, <2>1, <2>3, <2>4
<1>5. \A i \in DOMAIN log : log'[i].owner = IF log[i].owner = v THEN u ELSE log[i].owner
  <2> SUFFICES ASSUME NEW i \in DOMAIN log
               PROVE  log'[i].owner = IF log[i].owner = v THEN u ELSE log[i].owner
    OBVIOUS
  <2>1. "owner" \in DOMAIN log[i]
    BY <1>2 DEF LogRecords
  <2> QED
    BY <1>1, <2>1
<1>6. /\ walk' = [walk EXCEPT !.pruned = walk.pruned \/ walk.owner = v]
      /\ walk' \in WalkRecords
      /\ \A a \in {"owner", "range", "page", "counting", "shown", "due", "pages", "backward"} : walk'[a] = walk[a]
      /\ walk'.pruned = (walk.pruned \/ walk.owner = v)
  <2> DEFINE p == walk.pruned \/ walk.owner = v
  <2>1. walk' = [walk EXCEPT !.pruned = p] /\ p \in BOOLEAN
    BY <1>1
  <2>2. walk \in WalkRecords
    BY DEF UsageInv, UsageTyped, Usage!TypeOK, WalkRecords
  <2> HIDE DEF p
  <2>3. walk' \in WalkRecords
    BY <2>1, <2>2 DEF WalkRecords
  <2>4. \A a \in {"owner", "range", "page", "counting", "shown", "due", "pages", "backward"} : walk'[a] = walk[a]
    BY <2>1, <2>2 DEF WalkRecords
  <2>5. walk'.pruned = p
    BY <2>1, <2>2 DEF WalkRecords
  <2> QED
    BY <2>1, <2>3, <2>4, <2>5 DEF p
<1>7. UsageTyped'
  <2>1. Usage!TypeOK'
    <3>1. log' \in Seq({[owner |-> o, group |-> e.group, input |-> e.input, output |-> e.output] :
                          o \in Usage!Owners \cup {Nobody}, e \in Entries})
      BY <1>4 DEF LogRecords
    <3>2. sessions' \in SUBSET Guests /\ chatting' \in SUBSET sessions'
      BY <1>1 DEF UsageInv, UsageTyped, Usage!TypeOK
    <3>3. kept' \in [Usage!Rows -> PageRecords]
      BY <1>1 DEF UsageInv, UsageTyped, Usage!TypeOK, PageRecords
    <3>4. kept' \in [Usage!Rows -> [age : {"none", "fresh", "stale"}, rows : SUBSET Usage!Rows,
                                    pages : Nat, older : BOOLEAN]]
      BY <3>3 DEF PageRecords
    <3>5. walk' \in [owner : Usage!Owners \cup {Nobody}, range : Ranges \cup {Usage!AllTime},
                     page : Nat, counting : BOOLEAN, rows : SUBSET Usage!Rows,
                     shown : SUBSET Usage!Rows, due : SUBSET Usage!Rows, pages : Nat,
                     pruned : BOOLEAN, backward : BOOLEAN]
      BY <1>6 DEF WalkRecords
    <3> QED
      BY <3>1, <3>2, <3>4, <3>5 DEF Usage!TypeOK
  <2>2. Owned'
    BY <1>1, <1>4, <1>5 DEF UsageInv, UsageTyped, Owned
  <2> QED
    BY <1>4, <2>1, <2>2 DEF UsageInv, UsageTyped
<1>8. walk'.pruned \/ OpenRows \subseteq OpenRows'
  <2> SUFFICES ASSUME walk.owner # v PROVE OpenRows \subseteq OpenRows'
    BY <1>6
  <2>1. walk'.owner = walk.owner /\ walk'.range = walk.range
    BY <1>6
  <2> QED
    BY <1>4, <1>5, <2>1 DEF OpenRows, Usage!Logged, Usage!InWhere
<1>9. Paged' /\ Usage!NoRowSkipped'
  BY <1>1, <1>6, <1>7, <1>8, PagedStays DEF Later
<1> QED
  BY <1>7, <1>9 DEF UsageInv

\* A page is read that is no further than the one behind the last that was shown, or that
\* is the first of a list just opened.
LEMMA PageReadKeeps ==
  ASSUME UsageAssumption, UsageInv, NEW from \in WalkRecords, NEW page \in Usage!Rows,
         Usage!Read(from, page), UNCHANGED <<log, sessions, chatting>>,
         kept' \in [Usage!Rows -> PageRecords],
         \/ from.due = {} /\ \A p \in Usage!Rows : ~Later(p)'
         \/ /\ from = walk /\ walk.page > 0 /\ page <= walk.page + 1
            /\ \A p \in Usage!Rows :
                 Later(p)' => page # 1 /\ Later(p) /\ kept'[p].pages = kept[p].pages
  PROVE  UsageInv'
<1> DEFINE L == Usage!Logged(from.owner, from.range)
           rows == Usage!Page(from.owner, from.range, page)
           shown == IF page = 1 THEN rows ELSE from.shown \cup rows
           due == IF page = 1 THEN L ELSE from.due
           pruned == page # 1 /\ from.pruned
           backward == page # 1 /\ from.backward
<1>1. /\ L \subseteq Usage!Rows /\ IsFiniteSet(L) /\ rows \subseteq L
      /\ \A i \in L \ rows : Cardinality(Usage!Newer(i, L)) \notin
                               Usage!Skip(page) .. Usage!Skip(page) + PageSize - 1
  <2>1. DOMAIN log = 1 .. Len(log) /\ IsFiniteSet(DOMAIN log) /\ Len(log) \in Nat
    BY TheLog DEF UsageAssumption, UsageInv, UsageTyped
  <2>2. L \in SUBSET (DOMAIN log)
    BY DEF Usage!Logged
  <2>3. Len(log) <= MaxRows /\ MaxRows \in Nat
    BY DEF UsageAssumption, Usage!SizesAssumption, UsageInv, UsageTyped
  <2>4. L \subseteq Usage!Rows
    BY <2>1, <2>2, <2>3 DEF Usage!Rows
  <2>5. IsFiniteSet(L)
    BY <2>1, <2>2, FS_Subset
  <2>6. rows = {i \in L : Usage!Cardinality(Usage!Newer(i, L)) \in
                            Usage!Skip(page) .. Usage!Skip(page) + PageSize - 1}
    BY DEF Usage!Page
  <2> HIDE DEF L, rows
  <2> QED
    BY <2>4, <2>5, <2>6, SameCount
<1>2. \A i \in L : Cardinality(Usage!Newer(i, L)) \in Nat
  BY <1>1, NewerGrow
<1> HIDE DEF L, rows
<1>3. /\ shown \in SUBSET Usage!Rows /\ due \in SUBSET Usage!Rows
      /\ pruned \in BOOLEAN /\ backward \in BOOLEAN /\ rows \in SUBSET Usage!Rows
  BY <1>1 DEF WalkRecords
<1>4. walk' = [from EXCEPT !.page = page, !.counting = TRUE, !.rows = rows, !.shown = shown,
                           !.due = due, !.pruned = pruned, !.backward = backward]
  BY DEF Usage!Read, L, rows
<1>5. /\ walk' \in WalkRecords
      /\ walk'.owner = from.owner /\ walk'.range = from.range /\ walk'.page = page
      /\ walk'.counting /\ walk'.shown = shown /\ walk'.due = due
      /\ walk'.pruned = pruned /\ walk'.backward = backward
  <2>1. page \in Nat
    BY DEF Usage!Rows
  <2> HIDE DEF shown, due, pruned, backward
  <2> QED
    BY <1>3, <1>4, <2>1 DEF WalkRecords
<1>6. UsageTyped' /\ Usage!NoRowSkipped'
  <2>1. Usage!TypeOK'
    BY <1>5 DEF UsageInv, UsageTyped, Usage!TypeOK, WalkRecords, PageRecords
  <2>2. Owned' /\ (Len(log) <= MaxRows)'
    BY DEF UsageInv, UsageTyped, Owned
  <2>3. Usage!NoRowSkipped'
    BY <1>5 DEF Usage!NoRowSkipped
  <2> QED
    BY <2>1, <2>2, <2>3 DEF UsageTyped
<1>7. OpenRows' = L /\ \A i : Usage!Newer(i, OpenRows)' = Usage!Newer(i, L)
  BY <1>5 DEF OpenRows, Usage!Logged, Usage!InWhere, Usage!Newer, L
<1>8. PageSize \in Nat \ {0} /\ page \in Nat /\ page # 0 /\ page <= MaxRows
  BY DEF UsageAssumption, Usage!SizesAssumption, Usage!Rows
<1>9. ~pruned /\ ~backward =>
        due \subseteq L /\ \A i \in due \ shown : Cardinality(Usage!Newer(i, L)) >= page * PageSize
  <2>1. CASE page = 1
    <3>1. Usage!Skip(page) = 0 /\ page * PageSize = PageSize
      BY <1>8, <2>1 DEF Usage!Skip
    <3>2. \A i \in L \ rows : Cardinality(Usage!Newer(i, L)) >= PageSize
      BY <1>1, <1>2, <1>8, <3>1
    <3> QED
      BY <2>1, <3>1, <3>2
  <2>2. CASE page # 1 /\ from.due = {}
    BY <2>2
  <2>3. CASE page # 1 /\ from = walk /\ walk.page > 0 /\ page <= walk.page + 1
    <3>0. walk.page \in Nat
      BY DEF UsageInv, UsageTyped, Usage!TypeOK
    <3>1. L = OpenRows
      BY <2>3 DEF L, OpenRows
    <3>2. ASSUME ~pruned, ~backward
          PROVE  /\ due \subseteq L
                 /\ \A i \in due \ walk.shown : Cardinality(Usage!Newer(i, L)) >= walk.page * PageSize
      <4>1. Followed
        BY <2>3, <3>2 DEF Followed
      <4> QED
        BY <2>3, <3>1, <4>1 DEF UsageInv, Paged, Behind
    <3>3. /\ Usage!Skip(page) \in Nat /\ page * PageSize = Usage!Skip(page) + PageSize
          /\ walk.page * PageSize \in Nat /\ walk.page * PageSize >= Usage!Skip(page)
      <4> DEFINE q == page - 1
      <4>1. q \in Nat /\ q <= walk.page /\ page = q + 1
        BY <2>3, <3>0, <1>8
      <4>2. Usage!Skip(page) = q * PageSize
        BY DEF Usage!Skip
      <4> HIDE DEF q
      <4>3. q * PageSize \in Nat /\ (q + 1) * PageSize = q * PageSize + PageSize
        BY <1>8, <4>1
      <4>4. walk.page * PageSize \in Nat /\ walk.page * PageSize >= q * PageSize
        BY <1>8, <3>0, <4>1
      <4> QED
        BY <4>1, <4>2, <4>3, <4>4
    <3>4. ASSUME ~pruned, ~backward, NEW i \in due \ shown
          PROVE  Cardinality(Usage!Newer(i, L)) >= page * PageSize
      <4> DEFINE z == Usage!Skip(page)
                 c == Cardinality(Usage!Newer(i, L))
                 w == walk.page * PageSize
                 e == page * PageSize
      <4>1. i \in L /\ i \notin rows /\ c >= w
        BY <2>3, <3>2, <3>4
      <4>2. c \in Nat /\ c \notin z .. z + PageSize - 1
        BY <4>1, <1>1, <1>2
      <4>3. z \in Nat /\ e = z + PageSize /\ w \in Nat /\ w >= z
        BY <3>3
      <4> HIDE DEF z, c, w, e
      <4>4. c >= e
        BY <4>1, <4>2, <4>3, <1>8
      <4> QED
        BY <4>4 DEF c, e
    <3> QED
      BY <3>2, <3>4
  <2> QED
    BY <2>1, <2>2, <2>3
<1>10. Followed' => walk'.due \subseteq OpenRows' /\ Behind(walk.page)'
  <2> HIDE DEF shown, due, pruned, backward
  <2> QED
    BY <1>5, <1>7, <1>9 DEF Followed, Behind
<1>11. Followed' => KeptBehind'
  <2>1. CASE \A p \in Usage!Rows : ~Later(p)'
    BY <2>1 DEF KeptBehind, Usage!Rows
  <2>2. CASE page # 1 /\ from = walk /\ walk.page > 0 /\
             \A p \in Usage!Rows : Later(p)' => Later(p) /\ kept'[p].pages = kept[p].pages
    <3>1. /\ walk'.due = walk.due /\ walk.shown \subseteq walk'.shown
          /\ walk'.pruned = walk.pruned /\ walk'.backward = walk.backward
      BY <1>5, <2>2 DEF UsageInv, UsageTyped, Usage!TypeOK
    <3>2. OpenRows \subseteq OpenRows'
      BY <1>7, <2>2 DEF OpenRows, L
    <3>3. Followed' => Followed /\ OpenRows \subseteq OpenRows'
      BY <2>2, <3>1, <3>2 DEF Followed
    <3> QED
      BY <1>6, <2>2, <3>1, <3>3, FollowedStays
  <2> QED
    BY <2>1, <2>2
<1>12. Paged'
  <2>1. walk'.page <= MaxRows /\ walk'.page > 0
    BY <1>5, <1>8
  <2> QED
    BY <2>1, <1>10, <1>11 DEF Paged
<1> QED
  BY <1>6, <1>12 DEF UsageInv

LEMMA CountKeeps ==
  ASSUME UsageAssumption, UsageInv, Usage!Count
  PROVE  UsageInv'
<1> DEFINE n == Usage!Ceil(Cardinality(OpenRows))
           read == [age |-> "fresh", rows |-> walk.rows, pages |-> n, older |-> FALSE]
<1>0. walk \in WalkRecords /\ kept \in [Usage!Rows -> PageRecords]
  BY DEF UsageInv, UsageTyped, Usage!TypeOK, WalkRecords, PageRecords
<1>1. IsFiniteSet(OpenRows) /\ OpenRows \subseteq Nat
  <2>1. DOMAIN log = 1 .. Len(log) /\ IsFiniteSet(DOMAIN log)
    BY TheLog DEF UsageAssumption, UsageInv, UsageTyped
  <2>2. OpenRows \in SUBSET (DOMAIN log)
    BY DEF OpenRows, Usage!Logged
  <2> QED
    BY <2>1, <2>2, FS_Subset
<1>2. Cardinality(OpenRows) \in Nat
  BY <1>1, FS_CardinalityType
<1>3. n \in Nat /\ Cardinality(OpenRows) <= n * PageSize
  BY <1>2, PagesSuffice DEF UsageAssumption
<1>4. /\ walk' = [walk EXCEPT !.counting = FALSE, !.rows = {}, !.pages = n] /\ walk.counting
      /\ kept' = [kept EXCEPT ![walk.page] = read]
      /\ UNCHANGED <<log, sessions, chatting>>
  BY SameCount DEF Usage!Count, OpenRows
<1>5. walk.page \in Usage!Rows /\ walk.page \in Nat
  BY <1>0, <1>4 DEF UsageInv, Paged, Usage!Rows, WalkRecords
<1> HIDE DEF n
<1>6. /\ walk' \in WalkRecords
      /\ walk'.owner = walk.owner /\ walk'.range = walk.range /\ walk'.page = walk.page
      /\ walk'.shown = walk.shown /\ walk'.due = walk.due /\ walk'.pruned = walk.pruned
      /\ walk'.backward = walk.backward /\ walk'.pages = n /\ walk'.counting = FALSE
  BY <1>0, <1>3, <1>4 DEF WalkRecords
<1>7. /\ kept' \in [Usage!Rows -> PageRecords] /\ kept'[walk.page].pages = n
      /\ \A p \in Usage!Rows \ {walk.page} : kept'[p] = kept[p]
  <2>1. read \in PageRecords /\ read.pages = n
    BY <1>0, <1>3 DEF PageRecords, WalkRecords
  <2> HIDE DEF read
  <2> QED
    BY <2>1, <1>0, <1>4, <1>5
<1>8. UsageTyped'
  <2>1. Usage!TypeOK'
    BY <1>4, <1>6, <1>7 DEF UsageInv, UsageTyped, Usage!TypeOK, WalkRecords, PageRecords
  <2>2. Owned' /\ (Len(log) <= MaxRows)'
    BY <1>4 DEF UsageInv, UsageTyped, Owned
  <2> QED
    BY <2>1, <2>2 DEF UsageTyped
<1>9. OpenRows' = OpenRows
  BY <1>4, <1>6 DEF OpenRows, Usage!Logged, Usage!InWhere
<1>10. ASSUME Followed, walk.page >= n
       PROVE  walk.due \subseteq walk.shown
  <2>1. walk.due \subseteq OpenRows /\ Behind(walk.page)
    BY <1>10 DEF UsageInv, Paged
  <2>2. walk.page * PageSize >= n * PageSize /\ walk.page * PageSize \in Nat /\ n * PageSize \in Nat
    <3>1. PageSize \in Nat /\ walk.page \in Nat
      BY <1>5 DEF UsageAssumption, Usage!SizesAssumption
    <3> QED
      BY <3>1, <1>3, <1>10
  <2>3. ASSUME NEW i \in walk.due \ walk.shown PROVE FALSE
    <3>1. i \in OpenRows
      BY <2>1
    <3>2. Cardinality(Usage!Newer(i, OpenRows)) < Cardinality(OpenRows)
      BY <1>1, <3>1, NewerFewer
    <3>3. Cardinality(Usage!Newer(i, OpenRows)) \in Nat
      BY <1>1, NewerGrow
    <3>4. Cardinality(Usage!Newer(i, OpenRows)) >= walk.page * PageSize
      BY <2>1 DEF Behind
    <3> QED
      BY <3>2, <3>3, <3>4, <2>2, <1>2, <1>3
  <2> QED
    BY <2>3
<1>11. Usage!NoRowSkipped'
  BY <1>6, <1>10 DEF Usage!NoRowSkipped, Followed
<1>12. Followed' => walk'.due \subseteq OpenRows' /\ Behind(walk.page)' /\ KeptBehind'
  <2> SUFFICES ASSUME Followed'
               PROVE  walk'.due \subseteq OpenRows' /\ Behind(walk.page)' /\ KeptBehind'
    OBVIOUS
  <2>1. Followed /\ walk.due \subseteq OpenRows /\ Behind(walk.page) /\ KeptBehind
    BY <1>6 DEF Followed, UsageInv, Paged
  <2>2. \A p \in Nat : Behind(p) => Behind(p)'
    BY <1>6, <1>8, <1>9, BehindStays
  <2>3. PICK q \in Usage!Rows : q = walk.page
    BY <1>5
  <2>4. Behind(q)'
    BY <2>1, <2>2, <2>3 DEF Usage!Rows
  <2>5. Behind(walk.page)'
    BY <1>6, <2>3, <2>4 DEF Behind
  <2>6. ASSUME NEW p \in Usage!Rows, Later(p)'
        PROVE  Behind(p)' /\ (p >= kept'[p].pages => walk'.due \subseteq walk'.shown)
    <3>1. CASE p = q
      BY <1>6, <1>7, <1>10, <2>1, <2>3, <2>4, <3>1
    <3>2. CASE p # q
      <4>1. Later(p) /\ kept'[p] = kept[p]
        BY <1>7, <2>3, <2>6, <3>2 DEF Later
      <4>2. Behind(p) /\ (p >= kept[p].pages => walk.due \subseteq walk.shown)
        BY <2>1, <4>1 DEF KeptBehind
      <4>3. Behind(p)'
        BY <2>2, <4>2 DEF Usage!Rows
      <4> QED
        BY <1>6, <4>1, <4>2, <4>3
    <3> QED
      BY <3>1, <3>2
  <2>7. KeptBehind'
    BY <2>6 DEF KeptBehind, Usage!Rows
  <2> QED
    BY <1>6, <1>9, <2>1, <2>5, <2>7
<1>13. Paged'
  BY <1>6, <1>12 DEF UsageInv, Paged
<1> QED
  BY <1>8, <1>11, <1>13 DEF UsageInv

\* What the client has of a page is shown.
LEMMA ShowKeptKeeps ==
  ASSUME UsageAssumption, UsageInv, NEW page \in Usage!Rows,
         walk.page > 0, kept[page].age = "fresh", walk.counting = FALSE, Usage!ShowKept(page)
  PROVE  UsageInv'
<1> DEFINE shown == walk.shown \cup kept[page].rows
           backward == walk.backward \/ kept[page].older
           pages == kept[page].pages
<1>0. walk \in WalkRecords /\ kept \in [Usage!Rows -> PageRecords]
  BY DEF UsageInv, UsageTyped, Usage!TypeOK, WalkRecords, PageRecords
<1>1. /\ walk' = [walk EXCEPT !.page = page, !.pages = pages, !.shown = shown,
                              !.backward = backward]
      /\ UNCHANGED <<log, sessions, chatting, kept>>
  BY DEF Usage!ShowKept
<1>2. /\ shown \in SUBSET Usage!Rows /\ pages \in Nat /\ page \in Nat /\ page > 0
      /\ page <= MaxRows /\ kept[page] \in PageRecords
  BY <1>0 DEF WalkRecords, PageRecords, Usage!Rows, UsageAssumption, Usage!SizesAssumption
<1>3. backward \in BOOLEAN
  OBVIOUS
<1> HIDE DEF shown, backward, pages
<1>4. /\ walk' \in WalkRecords
      /\ walk'.owner = walk.owner /\ walk'.range = walk.range /\ walk'.page = page
      /\ walk'.shown = shown /\ walk'.due = walk.due /\ walk'.pruned = walk.pruned
      /\ walk'.backward = backward /\ walk'.pages = pages /\ walk'.counting = FALSE
  BY <1>0, <1>1, <1>2, <1>3 DEF WalkRecords
<1>5. UsageTyped'
  <2>1. Usage!TypeOK'
    BY <1>1, <1>4 DEF UsageInv, UsageTyped, Usage!TypeOK, WalkRecords
  <2>2. Owned' /\ (Len(log) <= MaxRows)'
    BY <1>1 DEF UsageInv, UsageTyped, Owned
  <2> QED
    BY <2>1, <2>2 DEF UsageTyped
<1>6. OpenRows' = OpenRows
  BY <1>1, <1>4 DEF OpenRows, Usage!Logged, Usage!InWhere
<1>7. walk.shown \subseteq walk'.shown
  BY <1>4 DEF shown
<1>8. Followed' => Followed /\ Later(page)
  BY <1>4 DEF Followed, Later, backward
<1>9. Followed' => walk'.due \subseteq OpenRows' /\ KeptBehind'
  BY <1>1, <1>4, <1>5, <1>6, <1>7, <1>8, FollowedStays DEF Later
<1>10. Followed' => Behind(page) /\ (page >= pages => walk.due \subseteq walk.shown)
  BY <1>8 DEF UsageInv, Paged, KeptBehind, pages
<1>11. Followed' => Behind(walk.page)'
  <2>1. Behind(page) => Behind(page)'
    BY <1>2, <1>4, <1>5, <1>6, <1>7, BehindStays
  <2> QED
    BY <1>4, <1>10, <2>1 DEF Behind
<1>12. Usage!NoRowSkipped'
  BY <1>4, <1>7, <1>10 DEF Usage!NoRowSkipped, Followed
<1>13. Paged'
  BY <1>2, <1>4, <1>9, <1>11 DEF Paged
<1> QED
  BY <1>5, <1>12, <1>13 DEF UsageInv

\* Another page is read from the one that is shown, or it is read once more.
LEMMA ReadOnKeeps ==
  ASSUME UsageAssumption, UsageInv, NEW page \in Usage!Rows,
         walk.page > 0, page <= walk.page + 1, Usage!ReadOn(page)
  PROVE  UsageInv'
<1>0. walk \in WalkRecords /\ kept \in [Usage!Rows -> PageRecords]
  BY DEF UsageInv, UsageTyped, Usage!TypeOK, WalkRecords, PageRecords
<1>1. /\ Usage!Read(walk, page) /\ UNCHANGED <<log, sessions, chatting>>
      /\ kept' = [p \in Usage!Rows |->
                    [kept[p] EXCEPT !.older = @ \/ (page = 1 /\ kept[p].age # "none")]]
  BY DEF Usage!ReadOn
<1>2. \A p \in Usage!Rows :
        /\ kept'[p] \in PageRecords /\ kept'[p].age = kept[p].age /\ kept'[p].pages = kept[p].pages
        /\ kept'[p].older = (kept[p].older \/ (page = 1 /\ kept[p].age # "none"))
  <2> SUFFICES ASSUME NEW p \in Usage!Rows
        PROVE  /\ kept'[p] \in PageRecords /\ kept'[p].age = kept[p].age
               /\ kept'[p].pages = kept[p].pages
               /\ kept'[p].older = (kept[p].older \/ (page = 1 /\ kept[p].age # "none"))
    OBVIOUS
  <2> DEFINE old == kept[p].older \/ (page = 1 /\ kept[p].age # "none")
  <2>1. kept[p] \in PageRecords /\ old \in BOOLEAN /\ kept'[p] = [kept[p] EXCEPT !.older = old]
    BY <1>0, <1>1
  <2> HIDE DEF old
  <2>2. /\ kept'[p] \in PageRecords /\ kept'[p].age = kept[p].age
        /\ kept'[p].pages = kept[p].pages /\ kept'[p].older = old
    BY <2>1 DEF PageRecords
  <2> QED
    BY <2>2 DEF old
<1>3. kept' \in [Usage!Rows -> PageRecords]
  BY <1>1, <1>2
<1>4. \A p \in Usage!Rows :
        Later(p)' => page # 1 /\ Later(p) /\ kept'[p].pages = kept[p].pages
  BY <1>2 DEF Later
<1> QED
  BY <1>0, <1>1, <1>3, <1>4, PageReadKeeps

LEMMA UsageKeeps ==
  ASSUME UsageAssumption
  PROVE  UsageInv /\ [Usage!Next]_(Usage!reportsVars) => UsageInv'
<1> SUFFICES ASSUME UsageInv, [Usage!Next]_(Usage!reportsVars) PROVE UsageInv'
  OBVIOUS
<1>0. kept \in [Usage!Rows -> PageRecords] /\ walk.page \in Nat /\ walk.page <= MaxRows
  BY DEF UsageInv, UsageTyped, Usage!TypeOK, PageRecords, Paged
<1>1. ASSUME NEW o \in Usage!Owners, NEW range \in Ranges, NEW page \in Usage!Rows,
             Usage!Open(o, range, page)
      PROVE  UsageInv'
  <2> DEFINE from == [Usage!NoWalk EXCEPT !.owner = o, !.range = range]
  <2>1. /\ Usage!Read(from, page) /\ UNCHANGED <<log, sessions, chatting>>
        /\ kept' = [p \in Usage!Rows |-> Usage!NoPage]
    BY <1>1 DEF Usage!Open
  <2>2. from \in WalkRecords /\ from.due = {}
    BY DEF Usage!NoWalk, WalkRecords
  <2>3. Usage!NoPage \in PageRecords /\ Usage!NoPage.age = "none"
    BY DEF Usage!NoPage, PageRecords
  <2>4. kept' \in [Usage!Rows -> PageRecords] /\ \A p \in Usage!Rows : ~Later(p)'
    BY <2>1, <2>3 DEF Later
  <2> HIDE DEF from
  <2> QED
    BY <2>1, <2>2, <2>4, PageReadKeeps
<1>2. ASSUME NEW page \in Usage!Rows, Usage!TurnPage(page) PROVE UsageInv'
  <2>1. walk.page > 0 /\ walk.counting = FALSE /\ page <= walk.page + 1
    BY <1>0, <1>2 DEF Usage!TurnPage, Usage!Beside, UsageInv, UsageTyped, Usage!TypeOK
  <2> QED
    BY <1>2, <2>1, ShowKeptKeeps, ReadOnKeeps DEF Usage!TurnPage
<1>3. ASSUME Usage!Refocus PROVE UsageInv'
  <2>1. /\ walk.page > 0 /\ walk.page \in Usage!Rows /\ walk.page <= walk.page + 1
        /\ Usage!ReadOn(walk.page)
    BY <1>0, <1>3 DEF Usage!Refocus, Usage!Rows, UsageAssumption, Usage!SizesAssumption
  <2> QED
    BY <2>1, ReadOnKeeps
<1>4. ASSUME NEW page \in Usage!Rows, Usage!Age(page) PROVE UsageInv'
  <2>1. UNCHANGED <<log, sessions, chatting, walk>>
    BY <1>4 DEF Usage!Age
  <2>2. /\ kept' \in [Usage!Rows -> PageRecords]
        /\ \A p \in Usage!Rows : Later(p)' => Later(p) /\ kept'[p].pages = kept[p].pages
    <3>1. CASE kept[page].age = "fresh" /\ kept' = [kept EXCEPT ![page].age = "stale"]
      <4>1. [kept[page] EXCEPT !.age = "stale"] \in PageRecords
        BY <1>0 DEF PageRecords
      <4>2. /\ [kept[page] EXCEPT !.age = "stale"].older = kept[page].older
            /\ [kept[page] EXCEPT !.age = "stale"].pages = kept[page].pages
        BY <1>0 DEF PageRecords
      <4>3. kept' = [kept EXCEPT ![page] = [kept[page] EXCEPT !.age = "stale"]]
        BY <1>0, <3>1
      <4> QED
        BY <1>0, <3>1, <4>1, <4>2, <4>3 DEF Later
    <3>2. CASE kept' = [kept EXCEPT ![page] = Usage!NoPage]
      <4>1. Usage!NoPage \in PageRecords /\ Usage!NoPage.age = "none"
        BY DEF Usage!NoPage, PageRecords
      <4> QED
        BY <1>0, <3>2, <4>1 DEF Later
    <3> QED
      BY <1>4, <3>1, <3>2 DEF Usage!Age
  <2>3. UsageTyped'
    BY <2>1, <2>2 DEF UsageInv, UsageTyped, Usage!TypeOK, Owned, PageRecords
  <2>4. OpenRows \subseteq OpenRows'
    BY <2>1 DEF OpenRows, Usage!Logged, Usage!InWhere
  <2>5. Paged' /\ Usage!NoRowSkipped'
    BY <2>1, <2>2, <2>3, <2>4, PagedStays
  <2> QED
    BY <2>3, <2>5 DEF UsageInv
<1>5. ASSUME UNCHANGED Usage!reportsVars PROVE UsageInv'
  <2>1. UNCHANGED <<log, sessions, chatting, walk, kept>>
    BY <1>5 DEF Usage!reportsVars
  <2>2. UsageTyped'
    BY <2>1 DEF UsageInv, UsageTyped, Usage!TypeOK, Owned
  <2>3. OpenRows \subseteq OpenRows'
    BY <2>1 DEF OpenRows, Usage!Logged, Usage!InWhere
  <2>4. Paged' /\ Usage!NoRowSkipped'
    BY <2>1, <2>2, <2>3, PagedStays DEF Later
  <2> QED
    BY <2>2, <2>4 DEF UsageInv
<1>6. CASE Usage!Next
  BY <1>1, <1>2, <1>3, <1>4, <1>6, RecordKeeps, CreateChatKeeps, ReassignKeeps, CountKeeps
     DEF Usage!Next
<1> QED
  BY <1>5, <1>6

LEMMA ReportsSound ==
  ASSUME UsageAssumption, UsageInv
  PROVE  Usage!UsageSound /\ Usage!TypeOK
BY AlwaysAgree DEF UsageInv, UsageTyped, Usage!UsageSound

\* The lists of users and of visitors and the pages of each show the same totals, breakdowns
\* add up to them, and an administrator who pages through an owner's log while it grows, on
\* and back, with what the client has kept of it, misses no row that was there at the first
\* page: unless rows go to another owner, or a page is shown that was kept from before.
\* usage.repository.ts, the SQL of the lists, and the admin client's list of an owner's log.
THEOREM UsageHolds ==
  ASSUME UsageAssumption
  PROVE  Usage!Spec => []Usage!UsageSound
<1>1. Usage!Init => UsageInv
  BY UsageInit
<1>2. UsageInv /\ [Usage!Next]_(Usage!reportsVars) => UsageInv'
  BY UsageKeeps
<1>3. UsageInv => Usage!UsageSound
  BY ReportsSound
<1> QED
  BY <1>1, <1>2, <1>3, PTL DEF Usage!Spec

-----------------------------------------------------------------------------
(* A browser's login                                                       *)

CONSTANT Budget
VARIABLES row, login, replaced, view, spent

Browser == INSTANCE WebSession

BrowserCall == [kind : {"none", "me", "refresh", "signIn", "signOut", "signOutAll"},
         at : {"none", "csrf", "ready", "sent", "answered"},
         access : Browser!Sessions \cup {0}, refresh : Browser!Sessions \cup {0},
         csrf : BOOLEAN, answer : {"none", "ok", "401", "403"},
         sets : Browser!Sessions \cup {0}]
BrowserJar == [access : Browser!Sessions \cup {0}, refresh : Browser!Sessions \cup {0},
         csrf : Browser!Slots \cup {<<>>}]

\* A set of natural numbers has a least one: the theorems on well-founded relations, as
\* facts about sets.
Less == {ss \in Nat \X Nat : ss[1] < ss[2]}
LEMMA LessWF == IsWellFoundedOn(Less, Nat)
BY NatLessThanWellFounded DEF OpToRel, Less

LEMMA LeastOf ==
  ASSUME NEW T \in SUBSET Nat, T # {}
  PROVE  \E x \in T : \A y \in T : x <= y
<1>1. \E x \in T : \A y \in T : ~(<<y, x>> \in Less)
  <2> HIDE DEF Less
  <2> QED BY WFMin, LessWF
<1>2. PICK x \in T : \A y \in T : ~(<<y, x>> \in Less)
  BY <1>1
<1>3. \A y \in T : ~(y < x)
  BY <1>2 DEF Less
<1> QED
  BY <1>3

\* A session that is made is one of those there are.
LEMMA MadeOfFree ==
  ASSUME Browser!WebSessionAssumption, Browser!Free # {}
  PROVE  Browser!NextFree \in Browser!Sessions
<1>1. Browser!Free \in SUBSET Nat /\ Browser!Free \subseteq Browser!Sessions
  BY DEF Browser!WebSessionAssumption, Browser!Free, Browser!Sessions
<1>2. \E s \in Browser!Free : \A o \in Browser!Free : s <= o
  BY <1>1, LeastOf
<1> QED
  BY <1>1, <1>2 DEF Browser!NextFree

\* What a call, or a load that is asked again, is.
LEMMA CallsMade ==
  /\ Browser!Idle \in BrowserCall
  /\ \A k \in {"me", "refresh", "signIn", "signOut", "signOutAll"} : Browser!Mutating(k) \in BrowserCall
<1>1. Browser!Idle \in BrowserCall
  BY DEF Browser!Idle, Browser!None, BrowserCall
<1> QED
  BY <1>1 DEF Browser!Mutating, BrowserCall

LEMMA Refetched ==
  ASSUME NEW t \in Tabs, NEW calls \in [Browser!Slots -> BrowserCall], jar' \in BrowserJar
  PROVE  Browser!Refetch(t, calls) \in [Browser!Slots -> BrowserCall]
<1>1. Browser!Asking \in BrowserCall
  <2>1. jar'.access \in Browser!Sessions \cup {0}
    BY DEF BrowserJar
  <2> QED
    BY <2>1 DEF Browser!Asking, Browser!Idle, Browser!None, BrowserCall
<1>2. <<t, "query">> \in Browser!Slots /\ <<t, "orphan">> \in Browser!Slots
  BY DEF Browser!Slots, Browser!Roles
<1> HIDE DEF BrowserCall
<1>3. calls[<<t, "query">>] \in BrowserCall /\ calls[<<t, "orphan">>] \in BrowserCall
  BY <1>2
<1> QED
  BY <1>1, <1>2, <1>3 DEF Browser!Refetch

BrowserParts ==
  /\ row \in [Browser!Sessions -> {"none", "live", "revoked"}]
  /\ login \in [Browser!Sessions -> Browser!Sessions \cup {0}]
  /\ replaced \subseteq Browser!Sessions
  /\ jar \in BrowserJar
  /\ view \in [Tabs -> {"loading", "user", "anonymous"}]
  /\ call \in [Browser!Slots -> BrowserCall]
  /\ spent \in 0 .. Budget

LEMMA BrowserTyped == (Browser!TypeOK <=> BrowserParts) /\ (Browser!TypeOK' <=> BrowserParts')
BY DEF Browser!TypeOK, Browser!None, BrowserCall, BrowserJar, BrowserParts

LEMMA BrowserInit ==
  ASSUME Browser!WebSessionAssumption, Browser!Init
  PROVE  Browser!TypeOK
<1>1. 1 \in Browser!Sessions /\ 0 \in 0 .. Budget
  BY DEF Browser!WebSessionAssumption, Browser!Sessions
<1>2. PICK signedIn \in BOOLEAN :
        /\ row = [s \in Browser!Sessions |-> IF s = 1 /\ signedIn THEN "live" ELSE "none"]
        /\ login = [s \in Browser!Sessions |-> IF s = 1 /\ signedIn THEN 1 ELSE Browser!None]
        /\ jar = [access |-> Browser!None, refresh |-> IF signedIn THEN 1 ELSE Browser!None,
                  csrf |-> <<>>]
  BY DEF Browser!Init
<1>3. row \in [Browser!Sessions -> {"none", "live", "revoked"}]
  BY <1>2
<1>4. login \in [Browser!Sessions -> Browser!Sessions \cup {0}]
  BY <1>1, <1>2 DEF Browser!None
<1>5. jar \in BrowserJar
  BY <1>1, <1>2 DEF Browser!None, BrowserJar
<1>6. call \in [Browser!Slots -> BrowserCall]
  BY CallsMade DEF Browser!Init
<1> QED
  BY <1>1, <1>3, <1>4, <1>5, <1>6, BrowserTyped DEF BrowserParts, Browser!Init

\* A call's record changes at what its step is about.
LEMMA CallChanges ==
  ASSUME NEW c \in BrowserCall, NEW a \in {"none", "ok", "401", "403"},
         NEW s \in Browser!Sessions \cup {0}
  PROVE  /\ [c EXCEPT !.at = "ready"] \in BrowserCall
         /\ [c EXCEPT !.at = "answered", !.answer = a, !.sets = s] \in BrowserCall
BY DEF BrowserCall

\* A tab's calls, and what time and other devices do.
LEMMA AskingTyped ==
  ASSUME Browser!TypeOK,
         \/ \E t \in Tabs : \/ Browser!Interval(t)
                            \/ \E k \in {"signIn", "signOut", "signOutAll"} : Browser!Act(t, k)
         \/ \E slot \in Browser!Slots :
              Browser!CsrfArrives(slot) \/ Browser!Send(slot) \/ Browser!Lose(slot)
         \/ Browser!AccessExpires \/ Browser!RevokedElsewhere,
         Browser!WebSessionAssumption
  PROVE  Browser!TypeOK'
<1>0. /\ row \in [Browser!Sessions -> {"none", "live", "revoked"}]
      /\ login \in [Browser!Sessions -> Browser!Sessions \cup {0}]
      /\ replaced \subseteq Browser!Sessions
      /\ jar \in BrowserJar
      /\ view \in [Tabs -> {"loading", "user", "anonymous"}]
      /\ call \in [Browser!Slots -> BrowserCall]
      /\ spent \in 0 .. Budget
  BY BrowserTyped DEF BrowserParts
<1>1. Browser!Spend => spent' \in 0 .. Budget
  BY <1>0 DEF Browser!WebSessionAssumption, Browser!Spend
<1> USE DEF Browser!Slots
<1> HIDE DEF BrowserCall, BrowserJar
<1>2. CASE \E t \in Tabs : Browser!Interval(t)
  <2>1. PICK t \in Tabs : Browser!Interval(t)
    BY <1>2
  <2>2. call' \in [Browser!Slots -> BrowserCall]
    BY <1>0, <2>1, Refetched DEF Browser!Interval
  <2>3. spent' \in 0 .. Budget
    BY <1>0, <1>1, <2>1 DEF Browser!Interval
  <2> QED
    BY <1>0, <2>1, <2>2, <2>3, BrowserTyped DEF BrowserParts, Browser!Interval
<1>3. CASE \E t \in Tabs : \E k \in {"signIn", "signOut", "signOutAll"} : Browser!Act(t, k)
  <2>1. PICK t \in Tabs, k \in {"signIn", "signOut", "signOutAll"} : Browser!Act(t, k)
    BY <1>3
  <2>2. call' \in [Browser!Slots -> BrowserCall]
    BY <1>0, <2>1, CallsMade DEF Browser!Act
  <2> QED
    BY <1>0, <1>1, <2>1, <2>2, BrowserTyped DEF BrowserParts, Browser!Act
<1>4. CASE \E slot \in Browser!Slots : Browser!CsrfArrives(slot)
  <2>1. PICK slot \in Browser!Slots : Browser!CsrfArrives(slot)
    BY <1>4
  <2>2. jar' \in BrowserJar
    BY <1>0, <2>1 DEF Browser!CsrfArrives, BrowserJar
  <2>3. [call[slot] EXCEPT !.at = "ready"] \in BrowserCall
    BY <1>0, CallChanges
  <2>4. call' \in [Browser!Slots -> BrowserCall]
    BY <1>0, <2>1, <2>3 DEF Browser!CsrfArrives
  <2> QED
    BY <1>0, <2>1, <2>2, <2>4, BrowserTyped DEF BrowserParts, Browser!CsrfArrives
<1>5. CASE \E slot \in Browser!Slots : Browser!Send(slot)
  <2>1. PICK slot \in Browser!Slots : Browser!Send(slot)
    BY <1>5
  <2> DEFINE c == [call[slot] EXCEPT !.at = "sent", !.access = jar.access,
                                     !.refresh = jar.refresh, !.csrf = (jar.csrf = slot)]
  <2>2. c \in BrowserCall
    <3>1. jar.access \in Browser!Sessions \cup {0} /\ jar.refresh \in Browser!Sessions \cup {0}
      BY <1>0 DEF BrowserJar
    <3> DEFINE ours == (jar.csrf = slot)
    <3>2. ours \in BOOLEAN
      OBVIOUS
    <3> HIDE DEF ours
    <3>3. call[slot] \in BrowserCall
      BY <1>0
    <3> QED
      BY <3>1, <3>2, <3>3 DEF BrowserCall
  <2>3. call' = [call EXCEPT ![slot] = c]
    BY <2>1 DEF Browser!Send
  <2>4. call' \in [Browser!Slots -> BrowserCall]
    <3> HIDE DEF c
    <3> QED
      BY <1>0, <2>2, <2>3
  <2> QED
    BY <1>0, <2>1, <2>4, BrowserTyped DEF BrowserParts, Browser!Send
<1>6. CASE \E slot \in Browser!Slots : Browser!Lose(slot)
  <2>1. PICK slot \in Browser!Slots : Browser!Lose(slot)
    BY <1>6
  <2>2. call' \in [Browser!Slots -> BrowserCall]
    BY <1>0, <2>1, CallsMade DEF Browser!Lose
  <2> QED
    BY <1>0, <1>1, <2>1, <2>2, BrowserTyped DEF BrowserParts, Browser!Lose
<1>7. CASE Browser!AccessExpires
  <2>1. jar' \in BrowserJar
    BY <1>0, <1>7 DEF Browser!AccessExpires, Browser!None, BrowserJar
  <2> QED
    BY <1>0, <1>1, <1>7, <2>1, BrowserTyped DEF BrowserParts, Browser!AccessExpires
<1>8. CASE Browser!RevokedElsewhere
  <2>1. row' \in [Browser!Sessions -> {"none", "live", "revoked"}]
    BY <1>0, <1>8 DEF Browser!RevokedElsewhere, Browser!Revoke
  <2> QED
    BY <1>0, <1>1, <1>8, <2>1, BrowserTyped DEF BrowserParts, Browser!RevokedElsewhere
<1> QED
  BY <1>2, <1>3, <1>4, <1>5, <1>6, <1>7, <1>8

\* The API answers.
LEMMA ServedTyped ==
  ASSUME Browser!TypeOK, Browser!WebSessionAssumption,
         NEW slot \in Browser!Slots, Browser!Serve(slot)
  PROVE  Browser!TypeOK'
<1>0. /\ row \in [Browser!Sessions -> {"none", "live", "revoked"}]
      /\ login \in [Browser!Sessions -> Browser!Sessions \cup {0}]
      /\ replaced \subseteq Browser!Sessions
      /\ call \in [Browser!Slots -> BrowserCall]
      /\ call[slot] \in BrowserCall
  BY BrowserTyped DEF BrowserParts
<1>1. ASSUME NEW a \in {"none", "ok", "401", "403"}, NEW s \in Browser!Sessions \cup {0},
             Browser!Answer(slot, a, s)
      PROVE  call' \in [Browser!Slots -> BrowserCall]
  <2>1. [call[slot] EXCEPT !.at = "answered", !.answer = a, !.sets = s] \in BrowserCall
    BY <1>0, CallChanges
  <2> HIDE DEF BrowserCall
  <2> QED
    BY <1>0, <1>1, <2>1 DEF Browser!Answer
<1>2. ASSUME NEW some, Browser!Revoke(some)
      PROVE  row' \in [Browser!Sessions -> {"none", "live", "revoked"}]
  BY <1>0, <1>2 DEF Browser!Revoke
<1>3. UNCHANGED <<jar, view, spent>>
  BY DEF Browser!Serve
<1> SUFFICES /\ call' \in [Browser!Slots -> BrowserCall]
             /\ row' \in [Browser!Sessions -> {"none", "live", "revoked"}]
             /\ login' \in [Browser!Sessions -> Browser!Sessions \cup {0}]
             /\ replaced' \subseteq Browser!Sessions
  BY <1>3, BrowserTyped DEF BrowserParts, BrowserJar
<1>4. CASE Browser!ServeMe(slot) \/ Browser!ServeForbidden(slot)
  BY <1>0, <1>1, <1>4 DEF Browser!ServeMe, Browser!ServeForbidden, Browser!None
<1>5. CASE Browser!ServeSignIn(slot)
  <2>1. Browser!NextFree \in Browser!Sessions
    BY <1>5, MadeOfFree DEF Browser!ServeSignIn
  <2> QED
    BY <1>0, <1>1, <1>5, <2>1 DEF Browser!ServeSignIn
<1>6. CASE Browser!ServeRefresh(slot)
  <2>1. call[slot].refresh \in Browser!Sessions \cup {0}
    BY <1>0 DEF BrowserCall
  <2>2. CASE Browser!Live(call[slot].refresh)
    <3>1. /\ Browser!NextFree \in Browser!Sessions
          /\ call[slot].refresh \in Browser!Sessions
      BY <1>6, <2>1, <2>2, MadeOfFree DEF Browser!ServeRefresh, Browser!Live, Browser!None
    <3> QED
      BY <1>0, <1>1, <1>6, <2>2, <3>1 DEF Browser!ServeRefresh
  <2>3. CASE ~Browser!Live(call[slot].refresh)
    BY <1>0, <1>1, <1>2, <1>6, <2>3 DEF Browser!ServeRefresh, Browser!None
  <2> QED
    BY <2>2, <2>3
<1>7. CASE Browser!ServeSignOut(slot)
  <2>1. row' \in [Browser!Sessions -> {"none", "live", "revoked"}]
    BY <1>0, <1>2, <1>7 DEF Browser!ServeSignOut
  <2> QED
    BY <1>0, <1>1, <1>7, <2>1 DEF Browser!ServeSignOut, Browser!None
<1> QED
  BY <1>4, <1>5, <1>6, <1>7 DEF Browser!Serve

\* The answers arrive.
LEMMA DeliveredTyped ==
  ASSUME Browser!TypeOK, NEW slot \in Browser!Slots, Browser!Deliver(slot)
  PROVE  Browser!TypeOK'
<1>0. /\ jar \in BrowserJar
      /\ view \in [Tabs -> {"loading", "user", "anonymous"}]
      /\ call \in [Browser!Slots -> BrowserCall]
      /\ call[slot] \in BrowserCall
      /\ slot[1] \in Tabs
      /\ Browser!Idle \in BrowserCall /\ Browser!OnUnauthorized \in BrowserCall
  BY BrowserTyped, CallsMade DEF BrowserParts, Browser!Slots, Browser!OnUnauthorized
<1>1. UNCHANGED <<row, login, replaced, spent>>
  BY DEF Browser!Deliver
<1> SUFFICES /\ jar' \in BrowserJar
             /\ view' \in [Tabs -> {"loading", "user", "anonymous"}]
             /\ call' \in [Browser!Slots -> BrowserCall]
  BY <1>1, BrowserTyped DEF BrowserParts
<1>2. Browser!Cookies(call[slot].sets, call[slot].sets) => jar' \in BrowserJar
  BY <1>0 DEF Browser!Cookies, BrowserCall, BrowserJar
<1>3. ASSUME NEW result \in {"user", "anonymous"}, Browser!Heard(slot, result)
      PROVE  view' \in [Tabs -> {"loading", "user", "anonymous"}]
  BY <1>0, <1>3 DEF Browser!Heard
<1> HIDE DEF BrowserCall, BrowserJar
<1>4. CASE Browser!DeliverLoad(slot)
  <2>1. CASE call[slot].answer = "ok"
    BY <1>0, <1>2, <1>3, <1>4, <2>1 DEF Browser!DeliverLoad
  <2>2. CASE call[slot].answer = "401" /\ call[slot].kind = "me"
    BY <1>0, <1>4, <2>2 DEF Browser!DeliverLoad
  <2>3. CASE call[slot].answer = "401" /\ call[slot].kind = "refresh"
    BY <1>0, <1>3, <1>4, <2>3 DEF Browser!DeliverLoad
  <2>4. CASE call[slot].answer \notin {"ok", "401"}
    BY <1>0, <1>4, <2>4 DEF Browser!DeliverLoad
  <2> QED
    BY <1>4, <2>1, <2>2, <2>3, <2>4 DEF Browser!DeliverLoad
<1>5. CASE Browser!DeliverAct(slot)
  <2> DEFINE after == [call EXCEPT ![slot] = Browser!Idle]
  <2>1. after \in [Browser!Slots -> BrowserCall]
    BY <1>0
  <2>2. CASE call[slot].answer = "ok"
    <3>1. /\ Browser!Cookies(call[slot].sets, call[slot].sets)
          /\ view' = IF call[slot].kind = "signIn" THEN view
                     ELSE [view EXCEPT ![slot[1]] = "anonymous"]
          /\ call' = Browser!Refetch(slot[1], after)
      BY <1>5, <2>2 DEF Browser!DeliverAct
    <3>2. call' \in [Browser!Slots -> BrowserCall]
      <4> HIDE DEF after
      <4> QED
        BY <1>0, <1>2, <2>1, <3>1, Refetched
    <3> QED
      BY <1>0, <1>2, <3>1, <3>2
  <2>3. CASE call[slot].answer # "ok"
    BY <1>0, <1>5, <2>1, <2>3 DEF Browser!DeliverAct
  <2> QED
    BY <2>2, <2>3
<1> QED
  BY <1>4, <1>5 DEF Browser!Deliver

LEMMA BrowserKeepsTypes ==
  ASSUME Browser!WebSessionAssumption, Browser!TypeOK, [Browser!Next]_(Browser!webSessionVars)
  PROVE  Browser!TypeOK'
<1>1. CASE UNCHANGED Browser!webSessionVars
  BY <1>1, BrowserTyped DEF BrowserParts, Browser!webSessionVars, BrowserJar
<1>2. CASE Browser!Next
  BY <1>2, AskingTyped, ServedTyped, DeliveredTyped DEF Browser!Next
<1> QED
  BY <1>1, <1>2

\* WebSession: the sessions, the cookies and the calls of a browser stay within their types,
\* whatever its tabs and the user's other devices do.
THEOREM BrowserTypes ==
  ASSUME Browser!WebSessionAssumption
  PROVE  Browser!Spec => []Browser!TypeOK
<1>1. Browser!TypeOK /\ [Browser!Next]_(Browser!webSessionVars) => Browser!TypeOK'
  BY BrowserKeepsTypes
<1>2. Browser!Init => Browser!TypeOK
  BY BrowserInit
<1> QED
  BY <1>1, <1>2, PTL DEF Browser!Spec
=============================================================================
