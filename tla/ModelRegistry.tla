--------------------------- MODULE ModelRegistry ---------------------------
(***************************************************************************)
(* The model table: administrators' edits of a model and of the default,   *)
(* the bootstrap seeder of every replica, and the two database rules that   *)
(* the code relies on (a partial unique index and a check constraint).     *)
(*                                                                         *)
(* PostgreSQL at READ COMMITTED: a statement sees what was committed when  *)
(* it began and its own transaction's writes; a row that another           *)
(* transaction wrote delays it, and it judges that row again afterwards.   *)
(* max_context is left out: no rule of the table mentions it.              *)
(***************************************************************************)
EXTENDS Naturals, FiniteSets

CONSTANTS Models, Seed,   \* Seed is OLLAMA_DEFAULT_MODEL
          Edits,          \* PATCH requests, each made any number of times
          Replicas        \* API processes, each running the seeder at start

SeedAssumption == Seed \in Models
WritersAssumption == Edits \cap Replicas = {}

Writers == Edits \cup Replicas
Row == [listed : BOOLEAN, available : BOOLEAN, default : BOOLEAN]
Absent == [listed |-> FALSE, available |-> FALSE, default |-> FALSE]
Listed(available, default) == [listed |-> TRUE, available |-> available, default |-> default]
\* An optional field of a request: its value, or nothing.
Choice == {{}, {TRUE}, {FALSE}}

VARIABLES table,      \* table[m]: the committed row, or Absent
          written,    \* written[t]: the rows t's transaction has written, uncommitted
          step,       \* step[t]: the statement t is at
          subject,    \* subject[t]: the model it edits
          wish,       \* wish[t]: the input's isAvailable, and makeDefault
          found       \* found[t]: the rows its updateMany has to clear

registryVars == <<table, written, step, subject, wish, found>>

NoRows == [m \in {} |-> Absent]
Open(t) == step[t] \in {"update", "scan", "clear", "set", "commit"}
Locked(m) == {t \in Writers : m \in DOMAIN written[t]}
Free(t, m) == Locked(m) \subseteq {t}
Version(t, m) == IF m \in DOMAIN written[t] THEN written[t][m] ELSE table[m]
Write(t, m, row) ==
  written' = [written EXCEPT ![t] = [x \in DOMAIN @ \cup {m} |-> IF x = m THEN row ELSE @[x]]]
HasDefault == \E m \in Models : table[m].default

\* model_default_is_available_check.  (..Dropped: without the migration's CHECK.)
PassesCheckDropped(row) == TRUE
PassesCheck(row) == row.default => row.available

SeedersWish == [available |-> {}, makeDefault |-> TRUE]

Init ==
  /\ table \in [Models -> {Absent, Listed(TRUE, TRUE), Listed(TRUE, FALSE)}]
  /\ \A m, n \in Models : table[m].default /\ table[n].default => m = n
  /\ written = [t \in Writers |-> NoRows]
  /\ step = [t \in Writers |-> IF t \in Replicas THEN "down" ELSE "idle"]
  /\ subject = [t \in Writers |-> Seed]
  /\ wish = [t \in Writers |-> SeedersWish]
  /\ found = [t \in Writers |-> {}]

Goto(t, s) == step' = [step EXCEPT ![t] = s]
Serving == \E r \in Replicas : step[r] = "up"

\* Where a transaction that does not get to its COMMIT leaves its writer: an edit
\* answers 409 or 500, a replica whose seeder fails does not start.
Rest(t) == IF t \in Replicas THEN "down" ELSE "idle"
Leave(t, place) ==   \* its locals are gone
  /\ written' = [written EXCEPT ![t] = NoRows]
  /\ found' = [found EXCEPT ![t] = {}]
  /\ subject' = [subject EXCEPT ![t] = Seed]
  /\ wish' = [wish EXCEPT ![t] = SeedersWish]
  /\ Goto(t, place)
Abort(t) == Leave(t, Rest(t)) /\ UNCHANGED table

-----------------------------------------------------------------------------
(* Administration                                                          *)

\* create(): one INSERT; a taken name is a 409 and changes nothing.
Create(m, available) ==
  /\ Serving /\ ~table[m].listed /\ Locked(m) = {}
  /\ table' = [table EXCEPT ![m] = Listed(available, FALSE)]
  /\ UNCHANGED <<written, step, subject, wish, found>>

\* assertTransition, on the row that update() has just read.
MayBecome(row, isAvailable, isDefault) ==
  /\ row.default => FALSE \notin isDefault \cup isAvailable
  /\ TRUE \in isDefault => /\ FALSE \notin isAvailable
                           /\ row.available \/ TRUE \in isAvailable

\* findById and assertTransition; a transition that is refused leaves no trace.
Judge(k, m, isAvailable, isDefault) ==
  /\ Serving /\ step[k] = "idle" /\ table[m].listed
  /\ MayBecome(table[m], isAvailable, isDefault)
  /\ subject' = [subject EXCEPT ![k] = m]
  /\ wish' = [wish EXCEPT ![k] =
       [available |-> isAvailable, makeDefault |-> TRUE \in isDefault /\ ~table[m].default]]
  /\ Goto(k, "update")
  /\ UNCHANGED <<table, written, found>>

Edited(t, row) ==
  IF wish[t].available = {} THEN row
  ELSE [row EXCEPT !.available = TRUE \in wish[t].available]

\* The first statement of updateWithDefault: the edited fields.
Update(t) ==
  LET m == subject[t]
      row == Edited(t, Version(t, m))
  IN /\ step[t] = "update" /\ Free(t, m)
     /\ \/ /\ PassesCheck(row)
           /\ Write(t, m, row)
           /\ Goto(t, IF wish[t].makeDefault THEN "scan" ELSE "commit")
           /\ UNCHANGED <<table, subject, wish, found>>
        \/ ~PassesCheck(row) /\ Abort(t)

-----------------------------------------------------------------------------
(* applyDefault: clear, then set                                           *)

\* The rows the UPDATE that clears the other defaults finds in its snapshot.
\* (..Unfiltered: without is_default in its WHERE.)
ToClearUnfiltered(t) == {m \in Models \ {subject[t]} : Version(t, m).listed}
ToClear(t) == {m \in Models \ {subject[t]} : Version(t, m).default}

Scan(t) ==
  /\ step[t] = "scan"
  /\ found' = [found EXCEPT ![t] = ToClear(t)]
  /\ Goto(t, IF found'[t] = {} THEN "set" ELSE "clear")
  /\ UNCHANGED <<table, written, subject, wish>>

\* It has waited for the row's lock and judges the row again before it writes.
Clear(t, m) ==
  /\ step[t] = "clear" /\ m \in found[t] /\ Free(t, m)
  /\ IF Version(t, m).default
     THEN Write(t, m, [Version(t, m) EXCEPT !.default = FALSE])
     ELSE UNCHANGED written
  /\ found' = [found EXCEPT ![t] = @ \ {m}]
  /\ Goto(t, IF found'[t] = {} THEN "set" ELSE "clear")
  /\ UNCHANGED <<table, subject, wish>>

\* Other rows that hold the single place of model_single_default: for good, or
\* until a transaction ends.
Rivals(t) == {m \in Models \ {subject[t]} : Version(t, m).default}
Undecided(t) ==
  {m \in Models \ {subject[t]} :
     \E u \in Locked(m) \ {t} : table[m].default \/ written[u][m].default}

\* The partial unique index admits no second default.  (..Dropped: a plain index.)
IndexAdmitsDropped(t) == TRUE
IndexAdmits(t) == Rivals(t) = {}

SetDefault(t) ==
  /\ step[t] = "set" /\ Free(t, subject[t]) /\ Undecided(t) = {}
  /\ \/ /\ IndexAdmits(t)
        /\ Write(t, subject[t], Listed(TRUE, TRUE))
        /\ Goto(t, "commit")
        /\ UNCHANGED <<table, subject, wish, found>>
     \/ ~IndexAdmits(t) /\ Abort(t)

\* What COMMIT makes visible.
Published(t) == [m \in Models |-> Version(t, m)]

Commit(t) ==
  /\ step[t] = "commit"
  /\ table' = Published(t)
  /\ Leave(t, IF t \in Replicas THEN "up" ELSE "idle")

\* The connection, the statement or the process fails.
Fail(t) == Open(t) /\ Abort(t)

-----------------------------------------------------------------------------
(* ModelDefaultSeeder.onApplicationBootstrap                               *)

FindDefault(r) ==
  /\ step[r] = "down"
  /\ Goto(r, IF HasDefault THEN "up" ELSE "upsert")
  /\ UNCHANGED <<table, written, subject, wish, found>>

\* INSERT ... ON CONFLICT DO NOTHING, committed by itself.
Upsert(r) ==
  /\ step[r] = "upsert"
  /\ table' = IF table[Seed].listed THEN table
              ELSE [table EXCEPT ![Seed] = Listed(TRUE, FALSE)]
  /\ Goto(r, "scan")
  /\ UNCHANGED <<written, subject, wish, found>>

Stop(r) == /\ step[r] \in {"up", "upsert"}
           /\ Goto(r, "down")
           /\ UNCHANGED <<table, written, subject, wish, found>>

Next ==
  \/ \E m \in Models, a \in BOOLEAN : Create(m, a)
  \/ \E k \in Edits, m \in Models, a \in Choice, d \in Choice :
       Judge(k, m, a, d)
  \/ \E t \in Writers : Update(t) \/ Scan(t) \/ SetDefault(t) \/ Commit(t) \/ Fail(t)
  \/ \E t \in Writers, m \in Models : Clear(t, m)
  \/ \E r \in Replicas : FindDefault(r) \/ Upsert(r) \/ Stop(r)

Spec == Init /\ [][Next]_registryVars

-----------------------------------------------------------------------------
(* Properties                                                              *)

TypeOK ==
  /\ table \in [Models -> Row]
  /\ written \in [Writers -> UNION {[S -> Row] : S \in SUBSET Models}]
  /\ step \in [Writers -> {"down", "upsert", "up", "idle", "update", "scan", "clear",
                           "set", "commit"}]
  /\ subject \in [Writers -> Models]
  /\ wish \in [Writers -> [available : Choice, makeDefault : BOOLEAN]]
  /\ found \in [Writers -> SUBSET Models]

\* While a replica serves requests there is exactly one default model and it is
\* available, so getDefault() never answers "No default model is configured", although
\* assertTransition judges a row that may have changed since and two switches may race.
ServesOneDefault ==
  /\ Serving => HasDefault
  /\ \A m, n \in Models : table[m].default /\ table[n].default => m = n
  /\ \A m \in Models : table[m].default => table[m].available

\* Edits never wait for each other in a circle: as long as no seeder writes, some open
\* edit can take its next statement.  (A seeder takes its rows in the other order.)
Blocked(t) ==
  \/ step[t] = "update" /\ ~Free(t, subject[t])
  \/ step[t] = "clear" /\ \A m \in found[t] : ~Free(t, m)
  \/ step[t] = "set" /\ ~(Free(t, subject[t]) /\ Undecided(t) = {})
EditsNeverDeadlock ==
  (\E k \in Edits : Open(k)) /\ (\A r \in Replicas : ~Open(r))
    => \E k \in Edits : Open(k) /\ ~Blocked(k)
=============================================================================
