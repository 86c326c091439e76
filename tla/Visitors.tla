------------------------------ MODULE Visitors ------------------------------
(***************************************************************************)
(* Who a request acts for: the middleware that resolves its cookies        *)
(* (request-principal.middleware.ts), the anonymous sessions created for   *)
(* visitors (anonymous-sessions.service.ts, request-principal.service.ts), *)
(* and the sign-in that hands a visitor's chats to the user.  One browser, *)
(* whose requests may overlap; each carries the cookies there were when it *)
(* was sent.  Access tokens are valid while their cookie is there.  A      *)
(* request or its answer may be lost on the way.                           *)
(***************************************************************************)
EXTENDS Naturals, FiniteSets

CONSTANTS Requests, VisitorIds, Chats

User == "user"
Nobody == "nobody"
Kinds == {"create", "read", "signIn", "signOut"}

VisitorsAssumption == {User, Nobody} \cap (VisitorIds \cup Chats \cup Requests) = {}

VARIABLES
    visitors,    \* rows of anonymous_sessions
    lapsed,      \* those past their expires_at
    owner,       \* of each chat, or Nobody while it does not exist
    jar,         \* the browser's cookies: an access token, an anonymous session
    request,     \* the requests under way
    overlapped,  \* history: a request was sent while another was under way
    lost         \* history: the sessions whose cookie was lost on its way
past == <<overlapped, lost>>
visitorVars == <<visitors, lapsed, owner, jar, request, past>>

Idle == [kind |-> "none", at |-> "idle", user |-> FALSE, anon |-> Nobody, principal |-> Nobody,
         sets |-> Nobody]

TypeOK ==
    /\ visitors \subseteq VisitorIds /\ lapsed \subseteq VisitorIds
    /\ owner \in [Chats -> VisitorIds \cup {User, Nobody}]
    /\ jar \in [user: BOOLEAN, anon: VisitorIds \cup {Nobody}]
    /\ request \in [Requests ->
                     [kind: Kinds \cup {"none"},
                      at: {"idle", "sent", "touching", "resolved", "answered", "failed"},
                      user: BOOLEAN, anon: VisitorIds \cup {Nobody},
                      principal: VisitorIds \cup {User, Nobody},
                      sets: VisitorIds \cup {Nobody}]]
    /\ overlapped \in BOOLEAN /\ lost \subseteq VisitorIds

Init ==
    /\ visitors = {} /\ lapsed = {}
    /\ owner = [c \in Chats |-> Nobody]
    /\ jar = [user |-> FALSE, anon |-> Nobody]
    /\ request = [r \in Requests |-> Idle] /\ overlapped = FALSE /\ lost = {}

Send(r, kind) ==
    /\ request[r].at = "idle"
    /\ kind = "signOut" => jar.user
    /\ request' = [request EXCEPT ![r] = [Idle EXCEPT !.kind = kind, !.at = "sent",
                                             !.user = jar.user, !.anon = jar.anon]]
    /\ overlapped' = (overlapped \/ \E q \in Requests : request[q].at # "idle")
    /\ UNCHANGED <<visitors, lapsed, owner, jar, lost>>

Resolved(r, principal) ==
    request' = [request EXCEPT ![r].at = "resolved", ![r].principal = principal]

\* The middleware: the access token first, then the anonymous session.
Active(v) == v \in visitors \ lapsed
Resolve(r) ==
    /\ request[r].at = "sent"
    /\ IF request[r].user THEN Resolved(r, User)
       ELSE IF Active(request[r].anon)
       THEN request' = [request EXCEPT ![r].at = "touching"]
       ELSE Resolved(r, Nobody)
    /\ UNCHANGED <<visitors, lapsed, owner, jar, past>>

\* touch() updates the row it found, and throws when the row is gone by now.
Touch(r) ==
    /\ request[r].at = "touching"
    /\ IF request[r].anon \in visitors
       THEN Resolved(r, request[r].anon)
       ELSE request' = [request EXCEPT ![r].at = "failed"]
    /\ UNCHANGED <<visitors, lapsed, owner, jar, past>>

\* ensureAnonymous: a new session only for a request without a principal.
\* (..Always: for every visitor's request.)
NeedsSessionAlways(r) == request[r].principal # User
NeedsSession(r) == request[r].principal = Nobody

EnsureAnonymous(r) ==
    /\ request[r].at = "resolved" /\ request[r].kind = "create"
    /\ NeedsSession(r) /\ request[r].sets = Nobody
    /\ \E v \in VisitorIds \ visitors :
          /\ v \notin {owner[c] : c \in Chats} \cup lapsed \cup lost \cup {jar.anon}
          /\ \A q \in Requests : v \notin {request[q].anon, request[q].sets}
          /\ visitors' = visitors \cup {v}
          /\ request' = [request EXCEPT ![r].principal = v, ![r].sets = v]
    /\ UNCHANGED <<lapsed, owner, jar, past>>

\* The chat is inserted for the principal: unless its session is gone, or the model
\* is not to be had.
CreateChat(r) ==
    /\ request[r].at = "resolved" /\ request[r].kind = "create"
    /\ ~NeedsSession(r) \/ request[r].sets # Nobody
    /\ \/ /\ request[r].principal \in visitors \cup {User}
          /\ \E c \in Chats : /\ owner[c] = Nobody
                              /\ owner' = [owner EXCEPT ![c] = request[r].principal]
          /\ request' = [request EXCEPT ![r].at = "answered"]
       \/ request' = [request EXCEPT ![r].at = "failed"] /\ UNCHANGED owner
    /\ UNCHANGED <<visitors, lapsed, jar, past>>

\* Every other chat endpoint requires a principal: 401 without one.
Read(r) ==
    /\ request[r].at = "resolved" /\ request[r].kind = "read"
    /\ request' = [request EXCEPT ![r].at =
                      IF request[r].principal = Nobody THEN "failed" ELSE "answered"]
    /\ UNCHANGED <<visitors, lapsed, owner, jar, past>>

\* signUp and signIn: the visitor's chats become the user's and the session goes;
\* unless the address is taken, or the password wrong.
SignIn(r) ==
    /\ request[r].at = "resolved" /\ request[r].kind = "signIn"
    /\ LET v == request[r].principal IN
       \/ /\ IF v = User THEN UNCHANGED <<visitors, owner>>
             ELSE /\ owner' = [c \in Chats |-> IF v # Nobody /\ owner[c] = v THEN User ELSE owner[c]]
                  /\ visitors' = visitors \ {v}
          /\ request' = [request EXCEPT ![r].at = "answered"]
       \/ request' = [request EXCEPT ![r].at = "failed"] /\ UNCHANGED <<visitors, owner>>
    /\ UNCHANGED <<lapsed, jar, past>>

SignOut(r) ==
    /\ request[r].at = "resolved" /\ request[r].kind = "signOut"
    /\ request' = [request EXCEPT ![r].at = "answered"]
    /\ UNCHANGED <<visitors, lapsed, owner, jar, past>>

\* The response's cookies: finishAuthentication sets the access token, and clears the
\* anonymous session's when the sign-in had a visitor for its principal; an error that
\* follows ensureAnonymous takes the new session's cookie along.
Did(q, kind) == q.kind = kind /\ q.at = "answered"
Deliver(r) ==
    /\ request[r].at \in {"answered", "failed"}
    /\ LET q == request[r] IN
       jar' = [user |-> Did(q, "signIn") \/ (jar.user /\ ~Did(q, "signOut")),
               anon |-> IF Did(q, "signIn") /\ q.principal \in VisitorIds THEN Nobody
                        ELSE IF q.sets # Nobody THEN q.sets ELSE jar.anon]
    /\ request' = [request EXCEPT ![r] = Idle]
    /\ UNCHANGED <<visitors, lapsed, owner, past>>

\* The request is lost, or what was answered: with it the cookie of a new session.
Lose(r) ==
    /\ request[r].at \in {"sent", "answered", "failed"}
    /\ request' = [request EXCEPT ![r] = Idle]
    /\ lost' = lost \cup ({request[r].sets} \ {Nobody})
    /\ UNCHANGED <<visitors, lapsed, owner, jar, overlapped>>

\* The session's time is over; its cookie has the same expiry.
Lapse(v) ==
    /\ Active(v)
    /\ lapsed' = lapsed \cup {v}
    /\ jar' = IF jar.anon = v THEN [jar EXCEPT !.anon = Nobody] ELSE jar
    /\ UNCHANGED <<visitors, owner, request, past>>

Next ==
    \/ \E r \in Requests :
          \/ \E kind \in Kinds : Send(r, kind)
          \/ Resolve(r) \/ Touch(r) \/ EnsureAnonymous(r) \/ CreateChat(r) \/ Read(r)
          \/ SignIn(r) \/ SignOut(r) \/ Deliver(r) \/ Lose(r)
    \/ \E v \in VisitorIds : Lapse(v)

Spec == Init /\ [][Next]_visitorVars

(***************************************************************************)
(* Property.                                                               *)
(***************************************************************************)
Held(v) == v = jar.anon \/ \E r \in Requests : request[r].sets = v

\* Every chat belongs to somebody who can ask for it: to the user, or to a session
\* whose row is there.  As long as the browser's requests do not overlap, that is
\* the session its own cookie names, or is about to, unless the answer with that cookie
\* was lost: no sequence of visits, sign-ins and sign-outs, also of failed ones, strands
\* a visitor's chat otherwise before its session lapses.
NoChatStranded ==
    \A c \in Chats :
      owner[c] \in VisitorIds =>
        /\ owner[c] \in visitors
        /\ ~overlapped => Held(owner[c]) \/ owner[c] \in lapsed \cup lost

=============================================================================
