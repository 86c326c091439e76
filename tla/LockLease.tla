----------------------------- MODULE LockLease ------------------------------
(***************************************************************************)
(* One Redis lock with time: SET NX PX with a random token, a heartbeat    *)
(* that extends it while the work goes on, and a release that compares the *)
(* token (redis.service.ts, redis-lock.service.ts).  ChatStream lets a     *)
(* lock lapse whenever its faults allow; here the clock decides, and the   *)
(* question is for which lifetimes the heartbeat keeps the lock.           *)
(*                                                                         *)
(* A command reaches Redis, or its answer the process, within Delay; a     *)
(* timer's callback runs at most Late after it is due.  One request is one *)
(* token.  Commands of a process arrive in the order they were sent.       *)
(***************************************************************************)
EXTENDS Naturals

CONSTANTS
    Requests,
    TTLs,      \* lifetimes REDIS_LOCK_TTL_MS may be set to
    Second,    \* the 1_000 ms under which the heartbeat's period never goes
    Delay,
    Wait,      \* from the SET until setInterval: the way of its answer, and for a slot of
               \* the principal that of the chat lock's command and its answer too
    Late,
    Horizon    \* bound: the clock stops there

Nobody == "nobody"

ASSUME LeaseAssumption ==
    /\ Nobody \notin Requests
    /\ TTLs \subseteq Nat \ {0}
    /\ {Second, Delay, Wait, Late, Horizon} \subseteq Nat
    /\ Delay <= Second

VARIABLES
    ttl,       \* the configured lifetime
    now,
    owner,     \* whose token the key holds, if it has not expired
    expiry,    \* when the key expires
    phase,     \* "idle", "granted", "working", "releasing", "done", "dead"
    due,       \* when the work has begun, or the release is there, at the latest
    beat,      \* when the heartbeat is next due
    flying,    \* an extend is on its way to Redis
    sent       \* since when
leaseVars == <<ttl, now, owner, expiry, phase, due, beat, flying, sent>>

Phases == {"idle", "granted", "working", "releasing", "done", "dead"}

TypeOK ==
    /\ ttl \in TTLs
    /\ now \in Nat /\ expiry \in Nat
    /\ owner \in Requests \cup {Nobody}
    /\ phase \in [Requests -> Phases]
    /\ due \in [Requests -> Nat]
    /\ beat \in [Requests -> Nat]
    /\ flying \in [Requests -> BOOLEAN]
    /\ sent \in [Requests -> Nat]

Init ==
    /\ ttl \in TTLs
    /\ now = 0 /\ owner = Nobody /\ expiry = 0
    /\ phase = [r \in Requests |-> "idle"]
    /\ due = [r \in Requests |-> 0]
    /\ beat = [r \in Requests |-> 0]
    /\ flying = [r \in Requests |-> FALSE]
    /\ sent = [r \in Requests |-> 0]

Held == owner # Nobody /\ now < expiry
Critical(r) == phase[r] \in {"granted", "working"}

\* Math.max(1_000, Math.floor(ttl / 3)).
Whole == ttl
Third == ttl \div 3
Period == IF Third > Second THEN Third ELSE Second

(***************************************************************************)
(* RedisService.setIfAbsent: a key that is there refuses the request.  The *)
(* answer is still on its way.                                             *)
(***************************************************************************)
Acquire(r) ==
    /\ phase[r] = "idle" /\ ~Held
    /\ owner' = r
    /\ expiry' = now + ttl
    /\ phase' = [phase EXCEPT ![r] = "granted"]
    /\ due' = [due EXCEPT ![r] = now + Wait]
    /\ UNCHANGED <<ttl, now, beat, flying, sent>>

\* stream() and refreshSummary: the lock is there, setInterval and the work start.
StartWork(r) ==
    /\ phase[r] = "granted"
    /\ phase' = [phase EXCEPT ![r] = "working"]
    /\ beat' = [beat EXCEPT ![r] = now + Period]
    /\ UNCHANGED <<ttl, now, owner, expiry, due, flying, sent>>

\* The interval's callback sends an extend and is due again a period later.
Heartbeat(r) ==
    /\ phase[r] = "working" /\ now >= beat[r]
    /\ ~flying[r]
    /\ flying' = [flying EXCEPT ![r] = TRUE]
    /\ sent' = [sent EXCEPT ![r] = now]
    /\ beat' = [beat EXCEPT ![r] = now + Period]
    /\ UNCHANGED <<ttl, now, owner, expiry, phase, due>>

\* RedisService.extendIfValueMatches, in Redis.
Extend(r) ==
    /\ flying[r]
    /\ flying' = [flying EXCEPT ![r] = FALSE]
    /\ expiry' = IF Held /\ owner = r THEN now + ttl ELSE expiry
    /\ UNCHANGED <<ttl, now, owner, phase, due, beat, sent>>

\* The finally block: clearInterval, then release.
Finish(r) ==
    /\ phase[r] = "working"
    /\ phase' = [phase EXCEPT ![r] = "releasing"]
    /\ due' = [due EXCEPT ![r] = now + Delay]
    /\ UNCHANGED <<ttl, now, owner, expiry, beat, flying, sent>>

\* RedisService.deleteIfValueMatches, in Redis.
Release(r) ==
    /\ phase[r] = "releasing" /\ ~flying[r]
    /\ owner' = IF Held /\ owner = r THEN Nobody ELSE owner
    /\ phase' = [phase EXCEPT ![r] = "done"]
    /\ UNCHANGED <<ttl, now, expiry, due, beat, flying, sent>>

\* The process dies; its key waits for its expiry.
Die(r) ==
    /\ Critical(r)
    /\ phase' = [phase EXCEPT ![r] = "dead"]
    /\ UNCHANGED <<ttl, now, owner, expiry, due, beat, flying, sent>>

\* What is due by now has happened before time goes on.
Punctual(r) ==
    /\ phase[r] \in {"granted", "releasing"} => now < due[r]
    /\ phase[r] = "working" => now < beat[r] + Late
    /\ flying[r] => now < sent[r] + Delay

Tick ==
    /\ now < Horizon
    /\ \A r \in Requests : Punctual(r)
    /\ now' = now + 1
    /\ UNCHANGED <<ttl, owner, expiry, phase, due, beat, flying, sent>>

Next ==
    \/ \E r \in Requests :
          \/ Acquire(r) \/ StartWork(r) \/ Heartbeat(r) \/ Extend(r)
          \/ Finish(r) \/ Release(r) \/ Die(r)
    \/ Tick

Spec == Init /\ [][Next]_leaseVars

(***************************************************************************)
(* Properties.                                                             *)
(***************************************************************************)
\* The lifetime leaves room for the wait until the heartbeat is set up, one period of it,
\* its lateness and the way of the extend.
Sufficient == ttl > Wait + (IF ttl \div 3 > Second THEN ttl \div 3 ELSE Second) + Late + Delay

\* With a sufficient lifetime no two requests are ever at work under the same
\* lock: every extend reaches Redis before the key expires.  A lifetime near the
\* one-second floor of the heartbeat is not sufficient, though the configuration
\* accepts it (environment.schema.ts: any positive integer).
Exclusive ==
    Sufficient => \A r, s \in Requests : Critical(r) /\ Critical(s) => r = s

=============================================================================
