------------------------ MODULE ModelRegistryProofs ------------------------
(***************************************************************************)
(* The API serves with exactly one default model, and an available one,    *)
(* for any number of models, edits and replicas.                           *)
(*                                                                         *)
(* A transaction is before its last write or behind it.  Before it, what   *)
(* it has written makes no row a default that is not one already           *)
(* (Pending); behind it, its subject is the only default it would publish  *)
(* (Settled).  And at most one row in all open transactions is written as  *)
(* a default (OneWritten): the unique index makes the second wait.         *)
(***************************************************************************)
EXTENDS ModelRegistry, TLAPS

Rows(t) == DOMAIN written[t]

\* No row is written by two transactions at once.
Locks == \A t, u \in Writers : \A m \in Rows(t) \cap Rows(u) : t = u

WrittenRows ==
  \A t \in Writers : \A m \in Rows(t) :
    /\ table[m].listed /\ written[t][m].listed
    /\ written[t][m].default => written[t][m].available

TableRows ==
  /\ \A m \in Models : table[m].default => table[m].listed /\ table[m].available
  /\ \A m, n \in Models : table[m].default /\ table[n].default => m = n

\* Where a writer can be, and what it has in hand there.
Placed(t) ==
  /\ t \in Replicas => /\ step[t] \notin {"idle", "update"}
                       /\ subject[t] = Seed /\ wish[t].makeDefault
  /\ t \in Edits => step[t] \notin {"down", "upsert", "up"}
  /\ step[t] \in {"scan", "clear", "set"} => wish[t].makeDefault
  /\ step[t] = "clear" => subject[t] \notin found[t]
  /\ Open(t) => table[subject[t]].listed
  /\ ~Open(t) \/ step[t] = "update" => Rows(t) = {}

Switched(t) == step[t] = "commit" /\ wish[t].makeDefault

Pending(t) ==
  ~Switched(t) =>
    /\ step[t] = "commit" => Rows(t) \subseteq {subject[t]}
    /\ \A m \in Rows(t) :
         written[t][m].default = (m = subject[t] /\ table[m].default)

Settled(t) ==
  Switched(t) =>
    /\ subject[t] \in Rows(t) /\ written[t][subject[t]].default
    /\ \A m \in Models \ {subject[t]} : ~Version(t, m).default

OneWritten ==
  \A t, u \in Writers : \A m \in Rows(t), n \in Rows(u) :
    written[t][m].default /\ written[u][n].default => t = u /\ m = n

RInv ==
  /\ TypeOK /\ Locks /\ WrittenRows /\ TableRows /\ OneWritten
  /\ \A t \in Writers : Placed(t) /\ Pending(t) /\ Settled(t)
  /\ Serving => HasDefault

-----------------------------------------------------------------------------
\* What a write adds to the rows of its transaction.
LEMMA WriteAdds ==
  ASSUME TypeOK, NEW t \in Writers, NEW m \in Models, NEW row \in Row, Write(t, m, row)
  PROVE  /\ written' \in [Writers -> UNION {[S -> Row] : S \in SUBSET Models}]
         /\ Rows(t)' = Rows(t) \cup {m} /\ written'[t][m] = row
         /\ \A x \in Rows(t) \ {m} : written'[t][x] = written[t][x]
         /\ \A u \in Writers \ {t} : written'[u] = written[u] /\ Rows(u)' = Rows(u)
<1> DEFINE new == [x \in Rows(t) \cup {m} |-> IF x = m THEN row ELSE written[t][x]]
<1>1. PICK S \in SUBSET Models : written[t] \in [S -> Row]
  BY DEF TypeOK
<1>2. written' = [written EXCEPT ![t] = new]
  BY DEF Write, Rows
<1>3. new \in [S \cup {m} -> Row] /\ Rows(t) = S
  BY <1>1 DEF Rows
<1>4. new \in UNION {[T -> Row] : T \in SUBSET Models}
  BY <1>1, <1>3
<1>5. written'[t] = new /\ \A u \in Writers \ {t} : written'[u] = written[u]
  BY <1>2 DEF TypeOK
<1> QED
  BY <1>2, <1>3, <1>4, <1>5 DEF TypeOK, Rows

\* A transaction that is over holds nothing any more.
LEMMA LeaveDrops ==
  ASSUME TypeOK, SeedAssumption, NEW t \in Writers, NEW place \in {"down", "idle", "up"}, Leave(t, place)
  PROVE  /\ written' \in [Writers -> UNION {[S -> Row] : S \in SUBSET Models}]
         /\ step' \in [Writers -> {"down", "upsert", "up", "idle", "update", "scan", "clear",
                           "set", "commit"}]
         /\ subject' \in [Writers -> Models]
         /\ wish' \in [Writers -> [available : Choice, makeDefault : BOOLEAN]]
         /\ found' \in [Writers -> SUBSET Models]
         /\ Rows(t)' = {} /\ step'[t] = place /\ subject'[t] = Seed /\ wish'[t] = SeedersWish
         /\ \A u \in Writers \ {t} :
              /\ written'[u] = written[u] /\ Rows(u)' = Rows(u) /\ step'[u] = step[u]
              /\ subject'[u] = subject[u] /\ wish'[u] = wish[u] /\ found'[u] = found[u]
<1>1. NoRows \in [{} -> Row] /\ DOMAIN NoRows = {}
  BY DEF NoRows
<1>2. NoRows \in UNION {[S -> Row] : S \in SUBSET Models}
  BY <1>1
<1>3. SeedersWish \in [available : Choice, makeDefault : BOOLEAN]
  BY DEF SeedersWish, Choice
<1> QED
  BY <1>1, <1>2, <1>3 DEF Leave, Goto, TypeOK, Rows, SeedAssumption
\* Transactions write rows of the table.
LEMMA RowsAreRows ==
  ASSUME TypeOK, NEW t \in Writers
  PROVE  /\ Rows(t) \subseteq Models
         /\ \A m \in Rows(t) : written[t][m] \in Row
         /\ \A m \in Models : Version(t, m) \in Row
<1>1. PICK S \in SUBSET Models : written[t] \in [S -> Row]
  BY DEF TypeOK
<1> QED
  BY <1>1 DEF TypeOK, Rows, Version

\* What a step of one writer leaves of the others: it unlists nothing, changes no
\* default in a row they have written, and publishes no default but its own.
LEMMA OthersKeep ==
  ASSUME RInv, NEW t \in Writers,
         NEW u \in Writers \ {t},
         written'[u] = written[u], step'[u] = step[u], subject'[u] = subject[u],
         wish'[u] = wish[u], found'[u] = found[u],
         \A m \in Models : table[m].listed => table'[m].listed,
         \A m \in Rows(u) : table'[m].default = table[m].default,
         \A m \in Models : table'[m].default =>
           table[m].default \/ (m \in Rows(t) /\ written[t][m].default)
  PROVE  Placed(u)' /\ Pending(u)' /\ Settled(u)'
<1>1. Rows(u)' = Rows(u) /\ Open(u)' = Open(u) /\ Switched(u)' = Switched(u)
  BY DEF Rows, Open, Switched
<1>2. subject[u] \in Models /\ Rows(u) \subseteq Models
  BY RowsAreRows DEF RInv, TypeOK
<1>3. Placed(u)'
  BY <1>1, <1>2 DEF RInv, Placed
<1>4. Pending(u)'
  BY <1>1 DEF RInv, Pending
<1>5. Settled(u)'
  <2> SUFFICES ASSUME Switched(u), NEW m \in Models \ {subject[u]}
               PROVE  ~Version(u, m)'.default
    BY <1>1 DEF RInv, Settled
  <2>1. /\ subject[u] \in Rows(u) /\ written[u][subject[u]].default
        /\ ~Version(u, m).default
    BY DEF RInv, Settled
  <2>2. CASE m \in Rows(u)
    BY <2>1, <2>2, <1>1 DEF Version, Rows
  <2>3. CASE m \notin Rows(u)
    <3>1. Version(u, m)' = table'[m] /\ ~table[m].default
      BY <2>1, <2>3, <1>1 DEF Version, Rows
    <3>2. ~(m \in Rows(t) /\ written[t][m].default)
      BY <2>1 DEF RInv, OneWritten
    <3> QED
      BY <3>1, <3>2
  <2> QED
    BY <2>2, <2>3
<1> QED
  BY <1>3, <1>4, <1>5

\* Steps that write no row keep what is said of written rows.
LEMMA NothingWritten ==
  ASSUME RInv, UNCHANGED written,
         \A m \in Models : table[m].listed => table'[m].listed
  PROVE  Locks' /\ WrittenRows' /\ OneWritten'
<1>1. \A t \in Writers : Rows(t)' = Rows(t) /\ Rows(t) \subseteq Models
  BY RowsAreRows DEF RInv, Rows
<1> QED
  BY <1>1 DEF RInv, Locks, WrittenRows, OneWritten

\* A row that its transaction alone may write joins the others.
LEMMA OneMoreRow ==
  ASSUME RInv, NEW t \in Writers, NEW m \in Models, NEW row \in Row,
         Write(t, m, row), Free(t, m), UNCHANGED table,
         table[m].listed, row.listed, row.default => row.available,
         row.default => /\ \A u \in Writers \ {t} : \A n \in Rows(u) : ~written[u][n].default
                        /\ \A n \in Rows(t) \ {m} : ~written[t][n].default
  PROVE  Locks' /\ WrittenRows' /\ OneWritten'
<1>1. /\ Rows(t)' = Rows(t) \cup {m} /\ written'[t][m] = row
      /\ \A x \in Rows(t) \ {m} : written'[t][x] = written[t][x]
      /\ \A u \in Writers \ {t} : written'[u] = written[u] /\ Rows(u)' = Rows(u)
  BY WriteAdds DEF RInv
<1>2. \A u \in Writers \ {t} : m \notin Rows(u)
  BY DEF Free, Locked, Rows
<1>3. Locks'
  <2> SUFFICES ASSUME NEW u \in Writers, NEW v \in Writers,
                      NEW x, x \in Rows(u)', x \in Rows(v)', u # v
               PROVE  FALSE
    BY DEF Locks
  <2> QED
    BY <1>1, <1>2 DEF RInv, Locks
<1>4. WrittenRows'
  <2> SUFFICES ASSUME NEW u \in Writers, NEW x \in Rows(u)'
               PROVE  /\ table[x].listed /\ written'[u][x].listed
                      /\ written'[u][x].default => written'[u][x].available
    BY DEF WrittenRows
  <2>1. CASE u = t /\ x = m
    BY <2>1, <1>1
  <2>2. CASE ~(u = t /\ x = m)
    <3>1. x \in Rows(u) /\ written'[u][x] = written[u][x]
      BY <2>2, <1>1
    <3> QED
      BY <3>1 DEF RInv, WrittenRows
  <2> QED
    BY <2>1, <2>2
<1>5. OneWritten'
  <2> SUFFICES ASSUME NEW u \in Writers, NEW v \in Writers,
                      NEW x \in Rows(u)', NEW y \in Rows(v)',
                      written'[u][x].default, written'[v][y].default
               PROVE  u = v /\ x = y
    BY DEF OneWritten
  <2>1. \A w \in Writers : \A z \in Rows(w)' :
          ~(w = t /\ z = m) => z \in Rows(w) /\ written'[w][z] = written[w][z]
    BY <1>1
  <2>2. CASE (u = t /\ x = m) /\ (v = t /\ y = m)
    BY <2>2
  <2>3. CASE (u = t /\ x = m) /\ ~(v = t /\ y = m)
    BY <2>1, <2>3, <1>1
  <2>4. CASE ~(u = t /\ x = m) /\ (v = t /\ y = m)
    BY <2>1, <2>4, <1>1
  <2>5. CASE ~(u = t /\ x = m) /\ ~(v = t /\ y = m)
    BY <2>1, <2>5 DEF RInv, OneWritten
  <2> QED
    BY <2>2, <2>3, <2>4, <2>5
<1> QED
  BY <1>3, <1>4, <1>5
-----------------------------------------------------------------------------
LEMMA InitRegistry ==
  ASSUME SeedAssumption, WritersAssumption, Init
  PROVE  RInv
<1>1. NoRows \in UNION {[S -> Row] : S \in SUBSET Models} /\ DOMAIN NoRows = {}
  <2>1. NoRows \in [{} -> Row] /\ DOMAIN NoRows = {}
    BY DEF NoRows
  <2> QED
    BY <2>1
<1>2. SeedersWish \in [available : Choice, makeDefault : BOOLEAN] /\ SeedersWish.makeDefault
  BY DEF SeedersWish, Choice
<1>3. Absent \in Row /\ \A a, d \in BOOLEAN : Listed(a, d) \in Row
  BY DEF Absent, Listed, Row
<1>4. TypeOK
  BY <1>1, <1>2, <1>3 DEF Init, TypeOK, SeedAssumption
<1>5. \A t \in Writers : Rows(t) = {} /\ ~Open(t) /\ ~Switched(t)
  BY <1>1 DEF Init, Rows, Open, Switched
<1>6. Locks /\ WrittenRows /\ OneWritten
  BY <1>5 DEF Locks, WrittenRows, OneWritten
<1>7. TableRows
  BY DEF Init, TableRows, Absent, Listed
<1>8. \A t \in Writers : Placed(t) /\ Pending(t) /\ Settled(t)
  <2>1. \A t \in Writers : Placed(t)
    BY <1>2, <1>5 DEF Init, Placed, WritersAssumption, Writers
  <2>2. \A t \in Writers : Pending(t) /\ Settled(t)
    BY <1>5 DEF Init, Pending, Settled
  <2> QED
    BY <2>1, <2>2
<1>9. ~Serving
  BY DEF Init, Serving, Writers
<1> QED
  BY <1>4, <1>6, <1>7, <1>8, <1>9 DEF RInv

LEMMA CreateKeeps ==
  ASSUME RInv, NEW m \in Models, NEW a \in BOOLEAN, Create(m, a)
  PROVE  RInv'
<1>1. Listed(a, FALSE) \in Row
  BY DEF Listed, Row
<1>2. TypeOK'
  BY <1>1 DEF RInv, TypeOK, Create
<1>3. /\ \A n \in Models : table[n].listed => table'[n].listed
      /\ \A n \in Models : table'[n].default = table[n].default
      /\ UNCHANGED <<written, step, subject, wish, found>>
  BY DEF Create, Listed, RInv, TypeOK, TableRows, Row
<1>4. Locks' /\ WrittenRows' /\ OneWritten'
  BY <1>3, NothingWritten
<1>5. TableRows'
  BY <1>3 DEF Create, Listed, RInv, TypeOK, TableRows
<1>6. \A t \in Writers : Rows(t)' = Rows(t) /\ Rows(t) \subseteq Models
  BY <1>3, RowsAreRows DEF RInv, Rows
<1>7. \A t \in Writers : Placed(t)'
  BY <1>3, <1>6 DEF RInv, TypeOK, Placed, Open
<1>8. \A t \in Writers : Pending(t)'
  BY <1>3, <1>6 DEF RInv, Pending, Switched
<1>9. \A t \in Writers : Settled(t)'
  BY <1>3, <1>6 DEF RInv, Settled, Switched, Version, Rows
<1>10. Serving' => HasDefault'
  BY <1>3 DEF RInv, Serving, HasDefault
<1> QED
  BY <1>2, <1>4, <1>5, <1>7, <1>8, <1>9, <1>10 DEF RInv

LEMMA JudgeKeeps ==
  ASSUME RInv, WritersAssumption, NEW k \in Edits, NEW m \in Models,
         NEW a \in Choice, NEW d \in Choice, Judge(k, m, a, d)
  PROVE  RInv'
<1>1. k \in Writers /\ k \notin Replicas
  BY DEF Writers, WritersAssumption
<1>2. TypeOK'
  BY <1>1 DEF RInv, TypeOK, Judge, Goto
<1>3. /\ step[k] = "idle" /\ step'[k] = "update" /\ subject'[k] = m /\ table[m].listed
      /\ UNCHANGED <<table, written, found>>
      /\ \A u \in Writers \ {k} : /\ step'[u] = step[u] /\ subject'[u] = subject[u]
                                 /\ wish'[u] = wish[u] /\ found'[u] = found[u]
                                 /\ written'[u] = written[u]
  BY <1>1 DEF Judge, Goto, RInv, TypeOK
<1>4. Locks' /\ WrittenRows' /\ OneWritten'
  BY <1>3, NothingWritten
<1>5. TableRows'
  BY <1>3 DEF RInv, TableRows
<1>6. \A u \in Writers \ {k} : Placed(u)' /\ Pending(u)' /\ Settled(u)'
  BY <1>1, <1>3, OthersKeep
<1>7. Rows(k) = {} /\ Rows(k)' = {}
  BY <1>1, <1>3 DEF RInv, Placed, Open, Rows
<1>8. Placed(k)' /\ Pending(k)' /\ Settled(k)'
  BY <1>1, <1>3, <1>7 DEF Placed, Pending, Settled, Switched, Open
<1>9. Serving' => HasDefault'
  BY <1>1, <1>3 DEF RInv, Serving, HasDefault, Writers
<1> QED
  BY <1>2, <1>4, <1>5, <1>6, <1>8, <1>9 DEF RInv

LEMMA ScanKeeps ==
  ASSUME RInv, NEW t \in Writers, Scan(t)
  PROVE  RInv'
<1>1. TypeOK'
  BY DEF RInv, TypeOK, Scan, Goto, ToClear
<1>2. /\ step[t] = "scan" /\ step'[t] \in {"set", "clear"} /\ subject[t] \notin found'[t]
      /\ UNCHANGED <<table, written, subject, wish>>
      /\ \A u \in Writers \ {t} : step'[u] = step[u] /\ found'[u] = found[u]
  BY DEF Scan, Goto, ToClear, RInv, TypeOK
<1>3. Locks' /\ WrittenRows' /\ OneWritten'
  BY <1>2, NothingWritten
<1>4. TableRows'
  BY <1>2 DEF RInv, TableRows
<1>5. \A u \in Writers \ {t} : Placed(u)' /\ Pending(u)' /\ Settled(u)'
  BY <1>2, OthersKeep
<1>6. Rows(t)' = Rows(t)
  BY <1>2 DEF Rows
<1>7. Placed(t)' /\ Pending(t)' /\ Settled(t)'
  BY <1>2, <1>6 DEF RInv, Placed, Pending, Settled, Switched, Open
<1>8. Serving' => HasDefault'
  BY <1>2 DEF RInv, Serving, HasDefault, Writers
<1> QED
  BY <1>1, <1>3, <1>4, <1>5, <1>7, <1>8 DEF RInv
\* A writer that gives up, or fails, leaves nothing behind.
LEMMA AbortKeeps ==
  ASSUME RInv, SeedAssumption, WritersAssumption, NEW t \in Writers, Abort(t)
  PROVE  RInv'
<1>1. Rest(t) \in {"down", "idle"}
  BY DEF Rest
<1>2. /\ TypeOK'
      /\ Rows(t)' = {} /\ step'[t] = Rest(t) /\ subject'[t] = Seed /\ wish'[t] = SeedersWish
      /\ \A u \in Writers \ {t} :
           /\ written'[u] = written[u] /\ Rows(u)' = Rows(u) /\ step'[u] = step[u]
           /\ subject'[u] = subject[u] /\ wish'[u] = wish[u] /\ found'[u] = found[u]
      /\ UNCHANGED table
  BY <1>1, LeaveDrops DEF Abort, RInv, TypeOK
<1>3. Locks'
  BY <1>2 DEF RInv, Locks
<1>4. WrittenRows'
  BY <1>2 DEF RInv, WrittenRows
<1>5. OneWritten'
  BY <1>2 DEF RInv, OneWritten
<1>6. TableRows'
  BY <1>2 DEF RInv, TableRows
<1>7. \A u \in Writers \ {t} : Placed(u)' /\ Pending(u)' /\ Settled(u)'
  BY <1>2, OthersKeep
<1>8. Placed(t)' /\ Pending(t)' /\ Settled(t)'
  BY <1>1, <1>2 DEF Placed, Pending, Settled, Switched, Open, Rest, SeedersWish,
                    WritersAssumption, Writers
<1>9. Serving' => HasDefault'
  BY <1>1, <1>2 DEF RInv, Serving, HasDefault, Writers
<1> QED
  BY <1>2, <1>3, <1>4, <1>5, <1>6, <1>7, <1>8, <1>9 DEF RInv

LEMMA UpdateKeeps ==
  ASSUME RInv, SeedAssumption, WritersAssumption, NEW t \in Writers, Update(t)
  PROVE  RInv'
<1> DEFINE m == subject[t]
           row == Edited(t, Version(t, m))
<1>1. CASE Abort(t)
  BY <1>1, AbortKeeps
<1>2. CASE ~Abort(t)
  <2>1. /\ step[t] = "update" /\ Free(t, m) /\ PassesCheck(row) /\ Write(t, m, row)
        /\ step'[t] = (IF wish[t].makeDefault THEN "scan" ELSE "commit")
        /\ UNCHANGED <<table, subject, wish, found>>
        /\ \A u \in Writers \ {t} : step'[u] = step[u]
        /\ step' \in [Writers -> {"down", "upsert", "up", "idle", "update", "scan", "clear",
                           "set", "commit"}]
    BY <1>2 DEF Update, Goto, RInv, TypeOK
  <2>2. Rows(t) = {} /\ m \in Models /\ table[m].listed /\ table[m] \in Row
    BY <2>1 DEF RInv, TypeOK, Placed, Open
  <2>3. /\ row \in Row /\ row.listed /\ row.default = table[m].default
        /\ row.default => row.available
    <3>1. Version(t, m) = table[m]
      BY <2>2 DEF Version, Rows
    <3>2. row.default => row.available
      BY <2>1 DEF PassesCheck
    <3>3. CASE wish[t].available = {}
      BY <2>2, <3>1, <3>2, <3>3 DEF Edited
    <3>4. CASE wish[t].available # {}
      <4>1. row = [table[m] EXCEPT !.available = TRUE \in wish[t].available]
        BY <3>1, <3>4 DEF Edited
      <4>2. /\ row \in Row /\ row.listed = table[m].listed
            /\ row.default = table[m].default
        <5>1. ASSUME NEW r \in Row, NEW b \in BOOLEAN
              PROVE  LET e == [r EXCEPT !.available = b]
                     IN  e \in Row /\ e.listed = r.listed /\ e.default = r.default
          BY DEF Row
        <5>2. (TRUE \in wish[t].available) \in BOOLEAN
          OBVIOUS
        <5> HIDE DEF row, m
        <5> QED
          BY <2>2, <4>1, <5>1, <5>2
      <4> QED
        BY <2>2, <3>2, <4>2
    <3> QED
      BY <3>3, <3>4
  <2>4. /\ written' \in [Writers -> UNION {[S -> Row] : S \in SUBSET Models}]
        /\ Rows(t)' = {m} /\ written'[t][m] = row
        /\ \A u \in Writers \ {t} : written'[u] = written[u] /\ Rows(u)' = Rows(u)
    BY <2>1, <2>2, <2>3, WriteAdds DEF RInv
  <2>5. ASSUME row.default, NEW u \in Writers \ {t}, NEW n \in Rows(u), written[u][n].default
        PROVE  FALSE
    <3>1. table[m].default /\ m \notin Rows(u)
      BY <2>1, <2>3, <2>5 DEF Free, Locked, Rows
    <3>2. CASE Switched(u)
      BY <3>1, <3>2, <2>2 DEF RInv, Settled, Version, Rows
    <3>3. CASE ~Switched(u)
      <4>1. table[n].default /\ n \in Models
        BY <2>5, <3>3, RowsAreRows DEF RInv, Pending
      <4> QED
        BY <4>1, <3>1, <2>2, <2>5 DEF RInv, TableRows
    <3> QED
      BY <3>2, <3>3
  <2>6. Locks' /\ WrittenRows' /\ OneWritten'
    BY <2>1, <2>2, <2>3, <2>5, OneMoreRow
  <2>7. TypeOK'
    BY <2>1, <2>4 DEF RInv, TypeOK
  <2>8. TableRows'
    BY <2>1 DEF RInv, TableRows
  <2>9. \A u \in Writers \ {t} : Placed(u)' /\ Pending(u)' /\ Settled(u)'
    BY <2>1, <2>4, OthersKeep
  <2>10. Placed(t)' /\ Pending(t)' /\ Settled(t)'
    <3>1. ~Switched(t)'
      BY <2>1 DEF Switched
    <3>2. Placed(t)'
      BY <2>1, <2>2 DEF RInv, Placed, Open
    <3>3. written'[t][m].default = (m = subject'[t] /\ table'[m].default)
      BY <2>1, <2>2, <2>3, <2>4 DEF Row
    <3>4. Pending(t)'
      BY <2>1, <2>4, <3>3 DEF Pending
    <3> QED
      BY <3>1, <3>2, <3>4 DEF Settled
  <2>11. Serving' => HasDefault'
    BY <2>1 DEF RInv, Serving, HasDefault, Writers
  <2> QED
    BY <2>6, <2>7, <2>8, <2>9, <2>10, <2>11 DEF RInv
<1> QED
  BY <1>1, <1>2

LEMMA ClearKeeps ==
  ASSUME RInv, NEW t \in Writers, NEW m \in Models, Clear(t, m)
  PROVE  RInv'
<1> DEFINE row == [Version(t, m) EXCEPT !.default = FALSE]
<1>1. /\ step[t] = "clear" /\ m \in found[t] /\ Free(t, m) /\ m # subject[t]
      /\ step'[t] \in {"set", "clear"} /\ found'[t] \subseteq found[t]
      /\ UNCHANGED <<table, subject, wish>>
      /\ \A u \in Writers \ {t} : step'[u] = step[u] /\ found'[u] = found[u]
  BY DEF Clear, Goto, RInv, TypeOK, Placed
<1>2. step' \in [Writers -> {"down", "upsert", "up", "idle", "update", "scan", "clear",
                           "set", "commit"}]
      /\ found' \in [Writers -> SUBSET Models]
  BY DEF Clear, Goto, RInv, TypeOK
<1>3. TableRows' /\ (Serving' => HasDefault')
  BY <1>1 DEF RInv, TableRows, Serving, HasDefault, Writers
<1>4. CASE Version(t, m).default
  <2>1. Write(t, m, row)
    BY <1>4 DEF Clear
  <2>2. row \in Row /\ row.listed /\ row.default = FALSE /\ table[m].listed
    <3>1. Version(t, m) \in Row
      BY RowsAreRows DEF RInv
    <3>2. row \in Row /\ row.listed = Version(t, m).listed /\ row.default = FALSE
      BY <3>1 DEF Row
    <3>3. Version(t, m).listed /\ table[m].listed
      BY <1>4 DEF RInv, Version, TableRows, WrittenRows, Rows
    <3> QED
      BY <3>2, <3>3
  <2>3. /\ written' \in [Writers -> UNION {[S -> Row] : S \in SUBSET Models}]
        /\ Rows(t)' = Rows(t) \cup {m} /\ written'[t][m] = row
        /\ \A x \in Rows(t) \ {m} : written'[t][x] = written[t][x]
        /\ \A u \in Writers \ {t} : written'[u] = written[u] /\ Rows(u)' = Rows(u)
    BY <2>1, <2>2, WriteAdds DEF RInv
  <2>4. Locks' /\ WrittenRows' /\ OneWritten'
    BY <1>1, <2>1, <2>2, OneMoreRow
  <2>5. TypeOK'
    BY <1>1, <1>2, <2>3 DEF RInv, TypeOK
  <2>6. \A u \in Writers \ {t} : Placed(u)' /\ Pending(u)' /\ Settled(u)'
    BY <1>1, <2>3, OthersKeep
  <2>7. Placed(t)' /\ Settled(t)'
    BY <1>1 DEF RInv, Placed, Settled, Switched, Open
  <2>8. Pending(t)'
    <3>1. ~Switched(t) /\ ~Switched(t)' /\ step'[t] # "commit"
      BY <1>1 DEF Switched
    <3>2. \A x \in Rows(t) \ {m} :
            written'[t][x].default = (x = subject'[t] /\ table'[x].default)
      BY <1>1, <2>3, <3>1 DEF RInv, Pending
    <3>3. written'[t][m].default = (m = subject'[t] /\ table'[m].default)
      BY <1>1, <2>2, <2>3
    <3> QED
      BY <2>3, <3>1, <3>2, <3>3 DEF Pending
  <2> QED
    BY <1>3, <2>4, <2>5, <2>6, <2>7, <2>8 DEF RInv
<1>5. CASE ~Version(t, m).default
  <2>1. UNCHANGED written
    BY <1>5 DEF Clear
  <2>2. Locks' /\ WrittenRows' /\ OneWritten'
    BY <1>1, <2>1, NothingWritten
  <2>3. TypeOK'
    BY <1>1, <1>2, <2>1 DEF RInv, TypeOK
  <2>4. \A u \in Writers \ {t} : Placed(u)' /\ Pending(u)' /\ Settled(u)'
    BY <1>1, <2>1, OthersKeep
  <2>5. Placed(t)' /\ Pending(t)' /\ Settled(t)'
    BY <1>1, <2>1 DEF RInv, Placed, Pending, Settled, Switched, Open, Rows
  <2> QED
    BY <1>3, <2>2, <2>3, <2>4, <2>5 DEF RInv
<1> QED
  BY <1>4, <1>5

LEMMA SetKeeps ==
  ASSUME RInv, SeedAssumption, WritersAssumption, NEW t \in Writers, SetDefault(t)
  PROVE  RInv'
<1> DEFINE s == subject[t]
           row == Listed(TRUE, TRUE)
<1>1. CASE Abort(t)
  BY <1>1, AbortKeeps
<1>2. CASE ~Abort(t)
  <2>1. /\ step[t] = "set" /\ Free(t, s) /\ Undecided(t) = {} /\ Rivals(t) = {}
        /\ Write(t, s, row) /\ step'[t] = "commit"
        /\ UNCHANGED <<table, subject, wish, found>>
        /\ \A u \in Writers \ {t} : step'[u] = step[u]
        /\ step' \in [Writers -> {"down", "upsert", "up", "idle", "update", "scan", "clear",
                           "set", "commit"}]
    BY <1>2 DEF SetDefault, IndexAdmits, Goto, RInv, TypeOK
  <2>2. /\ s \in Models /\ table[s].listed /\ wish[t].makeDefault
        /\ row \in Row /\ row.listed /\ row.available /\ row.default
    BY <2>1 DEF RInv, TypeOK, Placed, Open, Listed, Row
  <2>3. /\ written' \in [Writers -> UNION {[S -> Row] : S \in SUBSET Models}]
        /\ Rows(t)' = Rows(t) \cup {s} /\ written'[t][s] = row
        /\ \A x \in Rows(t) \ {s} : written'[t][x] = written[t][x]
        /\ \A u \in Writers \ {t} : written'[u] = written[u] /\ Rows(u)' = Rows(u)
    BY <2>1, <2>2, WriteAdds DEF RInv
  <2>4. \A m \in Models \ {s} : ~Version(t, m).default
    BY <2>1 DEF Rivals
  <2>5. \A u \in Writers \ {t} : \A n \in Rows(u) : ~written[u][n].default
    <3> SUFFICES ASSUME NEW u \in Writers \ {t}, NEW n \in Rows(u), written[u][n].default
                 PROVE  FALSE
      OBVIOUS
    <3>1. n \in Models /\ n # s /\ u \in Locked(n)
      BY <2>1, RowsAreRows DEF RInv, Free, Locked, Rows
    <3> QED
      BY <3>1, <2>1 DEF Undecided
  <2>6. \A n \in Rows(t) \ {s} : ~written[t][n].default
    BY <2>4, RowsAreRows DEF RInv, Version, Rows
  <2>7. Locks' /\ WrittenRows' /\ OneWritten'
    BY <2>1, <2>2, <2>5, <2>6, OneMoreRow
  <2>8. TypeOK'
    BY <2>1, <2>3 DEF RInv, TypeOK
  <2>9. TableRows' /\ (Serving' => HasDefault')
    BY <2>1 DEF RInv, TableRows, Serving, HasDefault, Writers
  <2>10. \A u \in Writers \ {t} : Placed(u)' /\ Pending(u)' /\ Settled(u)'
    BY <2>1, <2>3, OthersKeep
  <2>11. Placed(t)' /\ Pending(t)'
    BY <2>1, <2>2 DEF RInv, Placed, Pending, Switched, Open
  <2>12. Settled(t)'
    <3>1. \A m \in Models \ {s} : Version(t, m)' = Version(t, m)
      BY <2>1, <2>3 DEF Version, Rows
    <3> QED
      BY <3>1, <2>1, <2>2, <2>3, <2>4 DEF Settled
  <2> QED
    BY <2>7, <2>8, <2>9, <2>10, <2>11, <2>12 DEF RInv
<1> QED
  BY <1>1, <1>2
\* What a COMMIT publishes has one default at most, and one if there was one.
LEMMA CommitKeeps ==
  ASSUME RInv, SeedAssumption, WritersAssumption, NEW t \in Writers, Commit(t)
  PROVE  RInv'
<1> DEFINE place == IF t \in Replicas THEN "up" ELSE "idle"
<1>1. step[t] = "commit" /\ table' = Published(t) /\ Leave(t, place)
  BY DEF Commit
<1>2. /\ written' \in [Writers -> UNION {[S -> Row] : S \in SUBSET Models}]
      /\ step' \in [Writers -> {"down", "upsert", "up", "idle", "update", "scan", "clear",
                         "set", "commit"}]
      /\ subject' \in [Writers -> Models]
      /\ wish' \in [Writers -> [available : Choice, makeDefault : BOOLEAN]]
      /\ found' \in [Writers -> SUBSET Models]
      /\ Rows(t)' = {} /\ step'[t] = place /\ subject'[t] = Seed /\ wish'[t] = SeedersWish
      /\ \A u \in Writers \ {t} :
           /\ written'[u] = written[u] /\ Rows(u)' = Rows(u) /\ step'[u] = step[u]
           /\ subject'[u] = subject[u] /\ wish'[u] = wish[u] /\ found'[u] = found[u]
  BY <1>1, LeaveDrops DEF RInv
<1>3. /\ \A m \in Models : table'[m] = Version(t, m) /\ table'[m] \in Row
      /\ TypeOK'
  <2>1. \A m \in Models : Version(t, m) \in Row
    BY RowsAreRows DEF RInv
  <2> QED
    BY <1>1, <1>2, <2>1 DEF Published, TypeOK
<1>4. \A m \in Models : table[m].listed => table'[m].listed
  BY <1>3 DEF RInv, Version, WrittenRows, Rows
<1>5. \A m \in Models \ Rows(t) : table'[m] = table[m]
  BY <1>3 DEF Version, Rows
<1>6. \A m \in Rows(t) : m \in Models /\ table'[m] = written[t][m]
  BY <1>3, RowsAreRows DEF RInv, Version, Rows
<1>7. Locks'
  BY <1>2 DEF RInv, Locks
<1>8. OneWritten'
  BY <1>2 DEF RInv, OneWritten
<1>9. WrittenRows'
  <2> SUFFICES ASSUME NEW u \in Writers \ {t}, NEW m \in Rows(u)
               PROVE  /\ table'[m].listed /\ written'[u][m].listed
                      /\ written'[u][m].default => written'[u][m].available
    BY <1>2 DEF WrittenRows
  <2>1. m \in Models
    BY RowsAreRows DEF RInv
  <2> QED
    BY <1>2, <1>4, <2>1 DEF RInv, WrittenRows
<1>10. \A m \in Models : table'[m].default => table'[m].listed /\ table'[m].available
  <2> SUFFICES ASSUME NEW m \in Models, table'[m].default
               PROVE  table'[m].listed /\ table'[m].available
    OBVIOUS
  <2>1. CASE m \in Rows(t)
    BY <1>6, <2>1 DEF RInv, WrittenRows
  <2>2. CASE m \notin Rows(t)
    BY <1>5, <2>2 DEF RInv, TableRows
  <2> QED
    BY <2>1, <2>2
<1>11. /\ \A m, n \in Models : table'[m].default /\ table'[n].default => m = n
       /\ Serving' => HasDefault'
  <2>1. CASE Switched(t)
    <3>1. /\ subject[t] \in Models /\ table'[subject[t]].default
          /\ \A m \in Models \ {subject[t]} : ~table'[m].default
      BY <1>3, <1>6, <2>1 DEF RInv, Settled
    <3> QED
      BY <3>1 DEF HasDefault
  <2>2. CASE ~Switched(t)
    <3>1. /\ t \notin Replicas
          /\ \A m \in Rows(t) : table'[m].default = (m = subject[t] /\ table[m].default)
          /\ Rows(t) \subseteq {subject[t]}
      BY <1>1, <1>6, <2>2 DEF RInv, Placed, Pending, Switched
    <3>2. \A m \in Models : table'[m].default <=> table[m].default
      BY <3>1, <1>5
    <3>3. Serving' => Serving
      BY <1>2, <3>1 DEF Serving, Writers
    <3> QED
      BY <3>2, <3>3 DEF RInv, HasDefault, TableRows
  <2> QED
    BY <2>1, <2>2
<1>12. \A u \in Writers \ {t} : Placed(u)' /\ Pending(u)' /\ Settled(u)'
  <2> SUFFICES ASSUME NEW u \in Writers \ {t}
               PROVE  Placed(u)' /\ Pending(u)' /\ Settled(u)'
    OBVIOUS
  <2>1. \A m \in Rows(u) : m \in Models /\ m \notin Rows(t)
    BY RowsAreRows DEF RInv, Locks
  <2>2. \A m \in Rows(u) : table'[m].default = table[m].default
    BY <1>5, <2>1
  <2>3. \A m \in Models : table'[m].default =>
          table[m].default \/ (m \in Rows(t) /\ written[t][m].default)
    BY <1>5, <1>6
  <2> QED
    BY <1>2, <1>4, <2>2, <2>3, OthersKeep
<1>13. TableRows'
  BY <1>10, <1>11 DEF TableRows
<1>14. Placed(t)' /\ Pending(t)' /\ Settled(t)'
  BY <1>2 DEF Placed, Pending, Settled, Switched, Open, SeedersWish, WritersAssumption, Writers
<1> QED
  BY <1>3, <1>7, <1>8, <1>9, <1>11, <1>12, <1>13, <1>14 DEF RInv
LEMMA FindDefaultKeeps ==
  ASSUME RInv, WritersAssumption, NEW r \in Replicas, FindDefault(r)
  PROVE  RInv'
<1>1. r \in Writers /\ r \notin Edits
  BY DEF Writers, WritersAssumption
<1>2. /\ TypeOK' /\ step[r] = "down"
      /\ step'[r] = (IF HasDefault THEN "up" ELSE "upsert")
      /\ UNCHANGED <<table, written, subject, wish, found>>
      /\ \A u \in Writers \ {r} : step'[u] = step[u]
  BY <1>1 DEF FindDefault, Goto, RInv, TypeOK
<1>3. Locks' /\ WrittenRows' /\ OneWritten' /\ TableRows'
  BY <1>2, NothingWritten DEF RInv, TableRows
<1>4. \A u \in Writers \ {r} : Placed(u)' /\ Pending(u)' /\ Settled(u)'
  BY <1>1, <1>2, OthersKeep
<1>5. Rows(r) = {} /\ Rows(r)' = {}
  BY <1>1, <1>2 DEF RInv, Placed, Open, Rows
<1>6. Placed(r)' /\ Pending(r)' /\ Settled(r)'
  BY <1>1, <1>2, <1>5 DEF RInv, Placed, Pending, Settled, Switched, Open
<1>7. Serving' => HasDefault'
  BY <1>1, <1>2 DEF RInv, Serving, HasDefault, Writers
<1> QED
  BY <1>2, <1>3, <1>4, <1>6, <1>7 DEF RInv

LEMMA UpsertKeeps ==
  ASSUME RInv, SeedAssumption, WritersAssumption, NEW r \in Replicas, Upsert(r)
  PROVE  RInv'
<1>1. r \in Writers /\ r \notin Edits
  BY DEF Writers, WritersAssumption
<1>2. Listed(TRUE, FALSE) \in Row
  BY DEF Listed, Row
<1>3. /\ TypeOK' /\ step[r] = "upsert" /\ step'[r] = "scan"
      /\ UNCHANGED <<written, subject, wish, found>>
      /\ \A u \in Writers \ {r} : step'[u] = step[u]
  BY <1>1, <1>2 DEF Upsert, Goto, RInv, TypeOK
<1>4. /\ \A n \in Models : table[n].listed => table'[n].listed
      /\ \A n \in Models : table'[n].default = table[n].default
      /\ table'[Seed].listed
  BY DEF Upsert, Listed, RInv, TypeOK, TableRows, Row, SeedAssumption
<1>5. Locks' /\ WrittenRows' /\ OneWritten'
  BY <1>3, <1>4, NothingWritten
<1>6. TableRows'
  BY <1>4 DEF Upsert, Listed, RInv, TypeOK, TableRows
<1>7. \A u \in Writers \ {r} : Placed(u)' /\ Pending(u)' /\ Settled(u)'
  <2> SUFFICES ASSUME NEW u \in Writers \ {r}
               PROVE  Placed(u)' /\ Pending(u)' /\ Settled(u)'
    OBVIOUS
  <2>1. Rows(u) \subseteq Models
    BY RowsAreRows DEF RInv
  <2> QED
    BY <1>1, <1>3, <1>4, <2>1, OthersKeep
<1>8. Rows(r) = {} /\ Rows(r)' = {}
  BY <1>1, <1>3 DEF RInv, Placed, Open, Rows
<1>9. Placed(r)' /\ Pending(r)' /\ Settled(r)'
  BY <1>1, <1>3, <1>4, <1>8 DEF RInv, Placed, Pending, Settled, Switched, Open
<1>10. Serving' => HasDefault'
  BY <1>1, <1>3, <1>4 DEF RInv, Serving, HasDefault, Writers
<1> QED
  BY <1>3, <1>5, <1>6, <1>7, <1>9, <1>10 DEF RInv

LEMMA StopKeeps ==
  ASSUME RInv, WritersAssumption, NEW r \in Replicas, Stop(r)
  PROVE  RInv'
<1>1. r \in Writers /\ r \notin Edits
  BY DEF Writers, WritersAssumption
<1>2. /\ TypeOK' /\ step[r] \in {"up", "upsert"} /\ step'[r] = "down"
      /\ UNCHANGED <<table, written, subject, wish, found>>
      /\ \A u \in Writers \ {r} : step'[u] = step[u]
  BY <1>1 DEF Stop, Goto, RInv, TypeOK
<1>3. Locks' /\ WrittenRows' /\ OneWritten' /\ TableRows'
  BY <1>2, NothingWritten DEF RInv, TableRows
<1>4. \A u \in Writers \ {r} : Placed(u)' /\ Pending(u)' /\ Settled(u)'
  BY <1>1, <1>2, OthersKeep
<1>5. Rows(r) = {} /\ Rows(r)' = {}
  BY <1>1, <1>2 DEF RInv, Placed, Open, Rows
<1>6. Placed(r)' /\ Pending(r)' /\ Settled(r)'
  BY <1>1, <1>2, <1>5 DEF RInv, Placed, Pending, Settled, Switched, Open
<1>7. Serving' => HasDefault'
  BY <1>1, <1>2 DEF RInv, Serving, HasDefault, Writers
<1> QED
  BY <1>2, <1>3, <1>4, <1>6, <1>7 DEF RInv

-----------------------------------------------------------------------------
LEMMA RegistryKeeps ==
  ASSUME SeedAssumption, WritersAssumption
  PROVE  RInv /\ [Next]_registryVars => RInv'
<1> SUFFICES ASSUME RInv, [Next]_registryVars
             PROVE  RInv'
  OBVIOUS
<1>1. ASSUME NEW m \in Models, NEW a \in BOOLEAN, Create(m, a)
      PROVE  RInv'
  BY <1>1, CreateKeeps
<1>2. ASSUME NEW k \in Edits, NEW m \in Models, NEW a \in Choice, NEW d \in Choice,
             Judge(k, m, a, d)
      PROVE  RInv'
  BY <1>2, JudgeKeeps
<1>3. ASSUME NEW t \in Writers, Update(t)
      PROVE  RInv'
  BY <1>3, UpdateKeeps
<1>4. ASSUME NEW t \in Writers, Scan(t)
      PROVE  RInv'
  BY <1>4, ScanKeeps
<1>5. ASSUME NEW t \in Writers, SetDefault(t)
      PROVE  RInv'
  BY <1>5, SetKeeps
<1>6. ASSUME NEW t \in Writers, Commit(t)
      PROVE  RInv'
  BY <1>6, CommitKeeps
<1>7. ASSUME NEW t \in Writers, Fail(t)
      PROVE  RInv'
  BY <1>7, AbortKeeps DEF Fail
<1>8. ASSUME NEW t \in Writers, NEW m \in Models, Clear(t, m)
      PROVE  RInv'
  BY <1>8, ClearKeeps
<1>9. ASSUME NEW r \in Replicas, FindDefault(r) \/ Upsert(r) \/ Stop(r)
      PROVE  RInv'
  BY <1>9, FindDefaultKeeps, UpsertKeeps, StopKeeps
<1>10. CASE UNCHANGED registryVars
  BY <1>10 DEF registryVars, RInv, TypeOK, Locks, WrittenRows, TableRows, OneWritten, Rows,
               Placed, Pending, Settled, Switched, Open, Version, Serving, HasDefault
<1> QED
  BY <1>1, <1>2, <1>3, <1>4, <1>5, <1>6, <1>7, <1>8, <1>9, <1>10 DEF Next

\* The registry's invariant: TypeOK, the rows that transactions hold, and the one
\* default, for the edits of model-administration.service.ts, applyDefault of
\* models.repository.ts and the seeders of every replica.
THEOREM RegistryHolds ==
  ASSUME SeedAssumption, WritersAssumption
  PROVE  Spec => []RInv
<1>1. Init => RInv
  BY InitRegistry
<1>2. RInv /\ [Next]_registryVars => RInv'
  BY RegistryKeeps
<1> QED
  BY <1>1, <1>2, PTL DEF Spec

LEMMA RegistryServes == RInv => ServesOneDefault
BY DEF RInv, TableRows, ServesOneDefault

\* While a replica serves requests there is exactly one default model and it is
\* available: two switches that race leave one of them, an edit judged on a stale row
\* cannot withdraw the default, and a transaction that fails changes nothing.
THEOREM OneDefaultServed ==
  ASSUME SeedAssumption, WritersAssumption
  PROVE  Spec => []ServesOneDefault
<1> QED
  BY RegistryServes, RegistryHolds, PTL

-----------------------------------------------------------------------------
(* Edits do not wait in a circle                                           *)

\* What an edit holds at each of its statements.  Its scan finds the default of the
\* table, so the row it waits to clear is one, and its own is not.
Holding(t) ==
  /\ step[t] \in {"scan", "clear", "set", "commit"} => subject[t] \in Rows(t)
  /\ step[t] \in {"scan", "clear"} => Rows(t) \subseteq {subject[t]}
  /\ step[t] = "clear" => /\ ~table[subject[t]].default /\ found[t] # {}
                          /\ \A m, n \in found[t] : m = n

\* Of any edits that have a row to clear, one waits for none of the others' rows.
Clearing == {t \in Edits : step[t] = "clear"}
NoCircle ==
  \A S \in SUBSET Clearing : S # {} =>
    \E t \in S : \A u \in S : subject[u] \notin found[t]

EInv == RInv /\ (\A t \in Edits : Holding(t)) /\ NoCircle

\* A step of one writer that publishes nothing in the others' rows.
LEMMA OthersHold ==
  ASSUME EInv, NEW t \in Writers,
         \A u \in Writers \ {t} :
           /\ written'[u] = written[u] /\ step'[u] = step[u]
           /\ subject'[u] = subject[u] /\ found'[u] = found[u],
         \A u \in Writers \ {t} : \A m \in Rows(u) : table'[m].default = table[m].default
  PROVE  \A u \in Edits \ {t} : Holding(u)'
<1> SUFFICES ASSUME NEW u \in Edits \ {t}
             PROVE  Holding(u)'
  OBVIOUS
<1>1. u \in Writers \ {t} /\ Rows(u)' = Rows(u)
  BY DEF Writers, Rows
<1> QED
  BY <1>1 DEF EInv, Holding

\* No circle arises when nobody begins to wait for more rows.
LEMMA CircleStays ==
  ASSUME EInv,
         \A u \in Edits : step'[u] = "clear" =>
           step[u] = "clear" /\ subject'[u] = subject[u] /\ found'[u] \subseteq found[u]
  PROVE  NoCircle'
<1> SUFFICES ASSUME NEW S \in SUBSET Clearing', S # {}
             PROVE  \E t \in S : \A u \in S : subject'[u] \notin found'[t]
  BY DEF NoCircle
<1>1. S \subseteq Clearing
  BY DEF Clearing
<1>2. PICK t \in S : \A u \in S : subject[u] \notin found[t]
  BY <1>1 DEF EInv, NoCircle
<1>3. \A u \in S : subject'[u] = subject[u] /\ found'[u] \subseteq found[u]
  BY DEF Clearing
<1> QED
  BY <1>2, <1>3

\* A writer that is at none of the four statements after its step.
LEMMA LeavesNoCircle ==
  ASSUME EInv, RInv', NEW t \in Writers, step'[t] \in {"down", "upsert", "up", "idle", "update"},
         \A u \in Writers \ {t} :
           /\ written'[u] = written[u] /\ step'[u] = step[u]
           /\ subject'[u] = subject[u] /\ found'[u] = found[u],
         \A u \in Writers \ {t} : \A m \in Rows(u) : table'[m].default = table[m].default
  PROVE  EInv'
<1>1. \A u \in Edits \ {t} : Holding(u)'
  BY OthersHold
<1>2. t \in Edits => Holding(t)'
  BY DEF Holding
<1>3. NoCircle'
  BY CircleStays DEF Writers
<1> QED
  BY <1>1, <1>2, <1>3 DEF EInv

LEMMA AbortHolds ==
  ASSUME EInv, RInv', SeedAssumption, NEW t \in Writers, Abort(t)
  PROVE  EInv'
<1>1. Rest(t) \in {"down", "idle"}
  BY DEF Rest
<1>2. /\ step'[t] = Rest(t) /\ UNCHANGED table
      /\ \A u \in Writers \ {t} :
           /\ written'[u] = written[u] /\ step'[u] = step[u]
           /\ subject'[u] = subject[u] /\ found'[u] = found[u]
  BY <1>1, LeaveDrops DEF Abort, EInv, RInv
<1> QED
  BY <1>1, <1>2, LeavesNoCircle

LEMMA CreateHolds ==
  ASSUME EInv, RInv', NEW m \in Models, NEW a \in BOOLEAN, Create(m, a)
  PROVE  EInv'
<1>1. /\ \A n \in Models : table'[n].default = table[n].default
      /\ UNCHANGED <<written, step, subject, wish, found>>
  BY DEF Create, Listed, EInv, RInv, TypeOK, TableRows, Row
<1>2. \A t \in Edits : Rows(t)' = Rows(t) /\ subject[t] \in Models
  BY <1>1 DEF Rows, Writers, EInv, RInv, TypeOK
<1>3. \A t \in Edits : Holding(t)'
  BY <1>1, <1>2 DEF EInv, Holding
<1>4. NoCircle'
  BY <1>1, CircleStays
<1> QED
  BY <1>3, <1>4 DEF EInv

LEMMA JudgeHolds ==
  ASSUME EInv, RInv', NEW k \in Edits, NEW m \in Models, NEW a \in Choice, NEW d \in Choice,
         Judge(k, m, a, d)
  PROVE  EInv'
<1>1. k \in Writers
  BY DEF Writers
<1>2. /\ step'[k] = "update" /\ UNCHANGED <<table, written, found>>
      /\ \A u \in Writers \ {k} : step'[u] = step[u] /\ subject'[u] = subject[u]
  BY <1>1 DEF Judge, Goto, EInv, RInv, TypeOK
<1> QED
  BY <1>1, <1>2, LeavesNoCircle

LEMMA UpdateHolds ==
  ASSUME EInv, RInv', SeedAssumption, NEW t \in Writers, Update(t)
  PROVE  EInv'
<1>1. CASE Abort(t)
  BY <1>1, AbortHolds
<1>2. CASE ~Abort(t)
  <2> DEFINE m == subject[t]
             row == Edited(t, Version(t, m))
  <2>1. /\ step[t] = "update" /\ Write(t, m, row) /\ step'[t] \in {"scan", "commit"}
        /\ UNCHANGED <<table, subject, wish, found>>
        /\ \A u \in Writers \ {t} : step'[u] = step[u]
    BY <1>2 DEF Update, Goto, EInv, RInv, TypeOK
  <2>2. Rows(t) = {}
    BY <2>1 DEF EInv, RInv, Placed
  <2>3. Rows(t)' = {m} /\ \A u \in Writers \ {t} : written'[u] = written[u]
    BY <2>1, <2>2 DEF Write, Rows, EInv, RInv, TypeOK
  <2>4. \A u \in Edits \ {t} : Holding(u)'
    BY <2>1, <2>3, OthersHold
  <2>5. Holding(t)'
    BY <2>1, <2>3 DEF Holding
  <2>6. NoCircle'
    BY <2>1, CircleStays DEF Writers
  <2> QED
    BY <2>4, <2>5, <2>6 DEF EInv
<1> QED
  BY <1>1, <1>2

\* The scan is where an edit begins to wait: for the table's default, which is the
\* subject of no edit that waits already.
LEMMA ScanHolds ==
  ASSUME EInv, RInv', NEW t \in Writers, Scan(t)
  PROVE  EInv'
<1>1. /\ step[t] = "scan" /\ found'[t] = ToClear(t)
      /\ step'[t] = (IF ToClear(t) = {} THEN "set" ELSE "clear")
      /\ UNCHANGED <<table, written, subject, wish>>
      /\ \A u \in Writers \ {t} : step'[u] = step[u] /\ found'[u] = found[u]
  BY DEF Scan, Goto, EInv, RInv, TypeOK
<1>2. \A u \in Edits \ {t} : Holding(u)'
  BY <1>1, OthersHold
<1>3. CASE t \notin Edits
  <2>1. NoCircle'
    BY <1>1, <1>3, CircleStays DEF Writers
  <2> QED
    BY <1>2, <1>3, <2>1 DEF EInv
<1>4. CASE t \in Edits
  <2>1. Rows(t)' = Rows(t) /\ Rows(t) = {subject[t]}
    BY <1>1, <1>4 DEF Rows, EInv, Holding
  <2>2. \A m \in found'[t] : m \in Models /\ m # subject[t] /\ table[m].default
    BY <1>1, <2>1 DEF ToClear, Version, Rows
  <2>3. subject[t] \in Models /\ \A m, n \in Models : table[m].default /\ table[n].default => m = n
    BY DEF EInv, RInv, TypeOK, TableRows
  <2>4. Holding(t)'
    <3>1. \A m, n \in found'[t] : m = n
      BY <2>2, <2>3
    <3>2. step'[t] = "clear" => found'[t] # {} /\ ~table[subject[t]].default
      BY <1>1, <2>2, <2>3
    <3> QED
      BY <1>1, <2>1, <3>1, <3>2 DEF Holding
  <2>5. NoCircle'
    <3> SUFFICES ASSUME NEW S \in SUBSET Clearing', S # {}
                 PROVE  \E w \in S : \A u \in S : subject'[u] \notin found'[w]
      BY DEF NoCircle
    <3>1. CASE t \in S
      <4>1. \A u \in S : ~table[subject[u]].default
        <5> SUFFICES ASSUME NEW u \in S
                     PROVE  ~table[subject[u]].default
          OBVIOUS
        <5>1. u \in Edits /\ step'[u] = "clear"
          BY DEF Clearing
        <5>2. Holding(u)'
          BY <1>2, <2>4, <5>1
        <5> QED
          BY <1>1, <5>1, <5>2 DEF Holding
      <4>2. \A u \in S : subject'[u] \notin found'[t]
        BY <1>1, <2>2, <4>1
      <4> QED
        BY <3>1, <4>2
    <3>2. CASE t \notin S
      <4>1. S \subseteq Clearing /\ \A u \in S : found'[u] = found[u] /\ subject'[u] = subject[u]
        BY <1>1, <3>2 DEF Clearing, Writers
      <4>2. PICK w \in S : \A u \in S : subject[u] \notin found[w]
        BY <4>1 DEF EInv, NoCircle
      <4> QED
        BY <4>1, <4>2
    <3> QED
      BY <3>1, <3>2
  <2> QED
    BY <1>2, <2>4, <2>5 DEF EInv
<1> QED
  BY <1>3, <1>4

LEMMA ClearHolds ==
  ASSUME EInv, RInv', NEW t \in Writers, NEW m \in Models, Clear(t, m)
  PROVE  EInv'
<1>1. /\ step[t] = "clear" /\ m \in found[t] /\ found'[t] = found[t] \ {m}
      /\ step'[t] = (IF found'[t] = {} THEN "set" ELSE "clear")
      /\ UNCHANGED <<table, subject, wish>>
      /\ \A u \in Writers \ {t} : step'[u] = step[u] /\ found'[u] = found[u]
  BY DEF Clear, Goto, EInv, RInv, TypeOK
<1>2. /\ \A u \in Writers \ {t} : written'[u] = written[u]
      /\ Rows(t) \subseteq Rows(t)'
  BY DEF Clear, Write, Rows, EInv, RInv, TypeOK
<1>3. \A u \in Edits \ {t} : Holding(u)'
  BY <1>1, <1>2, OthersHold
<1>4. t \in Edits => Holding(t)'
  <2> SUFFICES ASSUME t \in Edits
               PROVE  Holding(t)'
    OBVIOUS
  <2>1. found'[t] = {} /\ step'[t] = "set" /\ subject[t] \in Rows(t)
    BY <1>1 DEF EInv, Holding
  <2> QED
    BY <1>1, <1>2, <2>1 DEF Holding
<1>5. NoCircle'
  BY <1>1, CircleStays DEF Writers
<1> QED
  BY <1>3, <1>4, <1>5 DEF EInv

LEMMA SetHolds ==
  ASSUME EInv, RInv', SeedAssumption, NEW t \in Writers, SetDefault(t)
  PROVE  EInv'
<1>1. CASE Abort(t)
  BY <1>1, AbortHolds
<1>2. CASE ~Abort(t)
  <2>1. /\ step[t] = "set" /\ Write(t, subject[t], Listed(TRUE, TRUE)) /\ step'[t] = "commit"
        /\ UNCHANGED <<table, subject, wish, found>>
        /\ \A u \in Writers \ {t} : step'[u] = step[u]
    BY <1>2 DEF SetDefault, Goto, EInv, RInv, TypeOK
  <2>2. subject[t] \in Rows(t)' /\ \A u \in Writers \ {t} : written'[u] = written[u]
    BY <2>1 DEF Write, Rows, EInv, RInv, TypeOK
  <2>3. \A u \in Edits \ {t} : Holding(u)'
    BY <2>1, <2>2, OthersHold
  <2>4. Holding(t)'
    BY <2>1, <2>2 DEF Holding
  <2>5. NoCircle'
    BY <2>1, CircleStays DEF Writers
  <2> QED
    BY <2>3, <2>4, <2>5 DEF EInv
<1> QED
  BY <1>1, <1>2

LEMMA CommitHolds ==
  ASSUME EInv, RInv', SeedAssumption, NEW t \in Writers, Commit(t)
  PROVE  EInv'
<1> DEFINE place == IF t \in Replicas THEN "up" ELSE "idle"
<1>1. Leave(t, place) /\ table' = Published(t)
  BY DEF Commit
<1>2. /\ step'[t] = place
      /\ \A u \in Writers \ {t} :
           /\ written'[u] = written[u] /\ step'[u] = step[u]
           /\ subject'[u] = subject[u] /\ found'[u] = found[u]
  BY <1>1, LeaveDrops DEF EInv, RInv
<1>3. \A u \in Writers \ {t} : \A m \in Rows(u) : table'[m].default = table[m].default
  <2> SUFFICES ASSUME NEW u \in Writers \ {t}, NEW m \in Rows(u)
               PROVE  table'[m].default = table[m].default
    OBVIOUS
  <2>1. m \in Models /\ m \notin Rows(t)
    BY RowsAreRows DEF EInv, RInv, Locks
  <2> QED
    BY <1>1, <2>1 DEF Published, Version, Rows
<1> QED
  BY <1>2, <1>3, LeavesNoCircle

LEMMA SeederHolds ==
  ASSUME EInv, RInv', WritersAssumption, SeedAssumption, NEW r \in Replicas,
         FindDefault(r) \/ Upsert(r) \/ Stop(r)
  PROVE  EInv'
<1>1. r \in Writers /\ r \notin Edits
  BY DEF Writers, WritersAssumption
<1>2. /\ step'[r] # "clear" /\ UNCHANGED <<written, subject, found>>
      /\ \A u \in Writers \ {r} : step'[u] = step[u]
  BY <1>1 DEF FindDefault, Upsert, Stop, Goto, EInv, RInv, TypeOK
<1>3. \A m \in Models : table'[m].default = table[m].default
  BY DEF FindDefault, Upsert, Stop, Listed, SeedAssumption, EInv, RInv, TypeOK, TableRows, Row
<1>4. \A u \in Writers \ {r} : \A m \in Rows(u) : table'[m].default = table[m].default
  BY <1>3, RowsAreRows DEF EInv, RInv
<1>5. \A u \in Edits : Holding(u)'
  BY <1>1, <1>2, <1>4, OthersHold
<1>6. NoCircle'
  BY <1>1, <1>2, CircleStays DEF Writers
<1> QED
  BY <1>5, <1>6 DEF EInv

\* Were every open edit blocked, none would be at set: the row it waits for is the
\* default, whose holder would be at set too and wait for the same row.
LEMMA NoneAtSet ==
  ASSUME EInv, \A r \in Replicas : ~Open(r), \A k \in Edits : Open(k) => Blocked(k),
         NEW t \in Edits, step[t] = "set"
  PROVE  FALSE
<1>1. \A u \in Writers : Rows(u) # {} => /\ u \in Edits /\ step[u] \in {"clear", "set"}
                                         /\ subject[u] \in Rows(u)
  <2> SUFFICES ASSUME NEW u \in Writers, Rows(u) # {}
               PROVE  /\ u \in Edits /\ step[u] \in {"clear", "set"}
                      /\ subject[u] \in Rows(u)
    OBVIOUS
  <2>1. Placed(u) /\ Open(u) /\ step[u] # "update"
    BY DEF EInv, RInv, Placed
  <2>2. u \in Edits /\ Blocked(u) /\ Holding(u)
    BY <2>1 DEF Writers, EInv
  <2> QED
    BY <2>1, <2>2 DEF Blocked, Open, Holding
<1>2. ASSUME NEW u \in Edits, step[u] = "set"
      PROVE  \E m \in Models \ {subject[u]}, v \in Edits \ {u} :
               /\ m \in Rows(v) /\ step[v] = "set" /\ table[m].default
  <2>1. u \in Writers /\ Blocked(u) /\ Holding(u) /\ Open(u)
    BY <1>2 DEF Writers, Open, EInv
  <2>2. Free(u, subject[u])
    BY <1>2, <2>1 DEF Holding, Free, Locked, Rows, EInv, RInv, Locks
  <2>3. PICK m \in Models \ {subject[u]}, v \in Writers \ {u} :
          m \in Rows(v) /\ (table[m].default \/ written[v][m].default)
    BY <1>2, <2>1, <2>2 DEF Blocked, Undecided, Locked, Rows
  <2>4. v \in Edits /\ step[v] \in {"clear", "set"} /\ subject[v] \in Rows(v)
    BY <1>1, <2>3
  <2>5. table[m].default
    BY <2>3, <2>4 DEF EInv, RInv, Pending, Switched
  <2>6. step[v] # "clear"
    BY <2>3, <2>4, <2>5 DEF EInv, Holding
  <2> QED
    BY <2>3, <2>4, <2>5, <2>6
<1>3. PICK m \in Models, v \in Edits : m \in Rows(v) /\ step[v] = "set" /\ table[m].default
  BY <1>2
<1>4. PICK n \in Models, w \in Edits \ {v} : n \in Rows(w) /\ table[n].default
  BY <1>2, <1>3
<1>5. m = n
  BY <1>3, <1>4 DEF EInv, RInv, TableRows
<1> QED
  BY <1>3, <1>4, <1>5 DEF EInv, RInv, Locks, Writers

LEMMA SomeEditMoves ==
  ASSUME EInv
  PROVE  EditsNeverDeadlock
<1> SUFFICES ASSUME NEW k \in Edits, Open(k), \A r \in Replicas : ~Open(r),
                    \A e \in Edits : Open(e) => Blocked(e)
             PROVE  FALSE
  BY DEF EditsNeverDeadlock
<1>1. \A u \in Writers : Rows(u) # {} => u \in Clearing /\ Rows(u) = {subject[u]}
  <2> SUFFICES ASSUME NEW u \in Writers, Rows(u) # {}
               PROVE  u \in Clearing /\ Rows(u) = {subject[u]}
    OBVIOUS
  <2>1. Open(u) /\ step[u] # "update"
    BY DEF EInv, RInv, Placed
  <2>2. u \in Edits /\ Blocked(u) /\ step[u] # "set"
    BY <2>1, NoneAtSet DEF Writers
  <2>3. u \in Clearing
    BY <2>1, <2>2 DEF Blocked, Clearing
  <2> QED
    BY <2>2, <2>3 DEF EInv, Holding, Clearing
<1>2. ASSUME NEW t \in Edits, NEW m \in Models, ~Free(t, m)
      PROVE  \E u \in Clearing : subject[u] = m
  <2>1. PICK u \in Writers : m \in Rows(u)
    BY <1>2 DEF Free, Locked, Rows
  <2> QED
    BY <1>1, <2>1
<1>3. Clearing # {}
  <2>1. step[k] = "update" \/ step[k] = "clear"
    BY NoneAtSet DEF Blocked
  <2>2. CASE step[k] = "clear"
    BY <2>2 DEF Clearing
  <2>3. CASE step[k] = "update"
    <3>1. ~Free(k, subject[k]) /\ subject[k] \in Models
      BY <2>3 DEF Blocked, EInv, RInv, TypeOK, Writers
    <3> QED
      BY <1>2, <3>1
  <2> QED
    BY <2>1, <2>2, <2>3
<1>4. PICK t \in Clearing : \A u \in Clearing : subject[u] \notin found[t]
  BY <1>3 DEF EInv, NoCircle
<1>5. t \in Edits /\ step[t] = "clear" /\ found[t] # {} /\ found[t] \subseteq Models
  BY DEF Clearing, EInv, Holding, RInv, TypeOK, Writers
<1>6. PICK m \in found[t] : ~Free(t, m)
  BY <1>5 DEF Blocked, Open
<1>7. PICK u \in Clearing : subject[u] = m
  BY <1>2, <1>5, <1>6
<1> QED
  BY <1>4, <1>6, <1>7
LEMMA EditsInit ==
  ASSUME SeedAssumption, WritersAssumption
  PROVE  Init /\ RInv => EInv
<1> SUFFICES ASSUME Init, RInv
             PROVE  EInv
  OBVIOUS
<1>1. \A t \in Edits : step[t] = "idle"
  BY DEF Init, Writers, WritersAssumption
<1> QED
  BY <1>1 DEF EInv, Holding, NoCircle, Clearing
LEMMA EditsKeep ==
  ASSUME SeedAssumption, WritersAssumption
  PROVE  EInv /\ RInv' /\ [Next]_registryVars => EInv'
<1> SUFFICES ASSUME EInv, RInv', [Next]_registryVars
             PROVE  EInv'
  OBVIOUS
<1>1. ASSUME NEW m \in Models, NEW a \in BOOLEAN, Create(m, a)
      PROVE  EInv'
  BY <1>1, CreateHolds
<1>2. ASSUME NEW k \in Edits, NEW m \in Models, NEW a \in Choice, NEW d \in Choice,
             Judge(k, m, a, d)
      PROVE  EInv'
  BY <1>2, JudgeHolds
<1>3. ASSUME NEW t \in Writers, Update(t) \/ Scan(t)
      PROVE  EInv'
  BY <1>3, UpdateHolds, ScanHolds
<1>4. ASSUME NEW t \in Writers, SetDefault(t) \/ Commit(t)
      PROVE  EInv'
  BY <1>4, SetHolds, CommitHolds
<1>5. ASSUME NEW t \in Writers, Fail(t)
      PROVE  EInv'
  BY <1>5, AbortHolds DEF Fail
<1>6. ASSUME NEW t \in Writers, NEW m \in Models, Clear(t, m)
      PROVE  EInv'
  BY <1>6, ClearHolds
<1>7. ASSUME NEW r \in Replicas, FindDefault(r) \/ Upsert(r) \/ Stop(r)
      PROVE  EInv'
  BY <1>7, SeederHolds
<1>8. CASE UNCHANGED registryVars
  <2>1. \A t \in Edits : Holding(t)'
    BY <1>8 DEF EInv, Holding, Rows, registryVars
  <2>2. NoCircle'
    BY <1>8, CircleStays DEF registryVars
  <2> QED
    BY <2>1, <2>2 DEF EInv
<1> QED
  BY <1>1, <1>2, <1>3, <1>4, <1>5, <1>6, <1>7, <1>8 DEF Next

THEOREM EditsHold ==
  ASSUME SeedAssumption, WritersAssumption
  PROVE  Spec => []EInv
<1>1. Init /\ RInv => EInv
  BY EditsInit
<1>2. EInv /\ RInv' /\ [Next]_registryVars => EInv'
  BY EditsKeep
<1>3. EInv => RInv
  BY DEF EInv
<1> QED
  BY <1>1, <1>2, <1>3, RegistryHolds, PTL DEF Spec

\* As long as no seeder writes, some open edit can take its next statement: two
\* administrators who switch the default at once never wait for each other for ever,
\* whichever rows the statements of applyDefault lock first.
THEOREM EditsDoNotDeadlock ==
  ASSUME SeedAssumption, WritersAssumption
  PROVE  Spec => []EditsNeverDeadlock
<1>1. EInv => EditsNeverDeadlock
  BY SomeEditMoves
<1> QED
  BY <1>1, EditsHold, PTL
=============================================================================
