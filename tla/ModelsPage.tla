------------------------------ MODULE ModelsPage ------------------------------
(***************************************************************************)
(* The administrators' page of models: a box per model for its context,    *)
(* saved by Enter and by leaving the box, and the list, which is loaded    *)
(* again after every change.  All rows share one useMutation.              *)
(***************************************************************************)
EXTENDS Naturals, Sequences

CONSTANTS Models,        \* the models there are, or are going to be
          Contexts,      \* what a box may hold that is a context ...
          Odd,           \* ... and what is none: empty, a fraction, out of range
          None,          \* no context: of a model that is not listed
          MaxSaves       \* bound: changes sent from this page

ContextsAssumption == Odd \notin Contexts /\ None \notin Contexts \cup {Odd}
MaxSavesAssumption == MaxSaves \in Nat

VARIABLES
  stored,     \* max_context of the models in the database
  listed,     \* the list on the page
  fetch,      \* the loading of the list: the change it followed, and what it has read
  row,        \* the rows: the text of the box, seenMaxContext, lastSubmitted
  typed,      \* the models whose box was typed in since it was last saved
  saves,      \* the changes sent, in order
  refused,    \* the models of which a change was refused,
  upset,      \* and those changed elsewhere, or of which an answer or a list was lost
  crossed     \* models changed while a change to what the list shows was under way

pageVars == <<stored, listed, fetch, row, typed, saves, refused, upset, crossed>>

Listed(table) == {m \in Models : table[m] # None}
Idle == [on |-> FALSE, by |-> 0, read |-> [m \in Models |-> None]]
Loading(i) == [Idle EXCEPT !.on = TRUE, !.by = i]

Init ==
  /\ stored \in {t \in [Models -> Contexts \cup {None}] : Listed(t) # {}}
  /\ listed = stored /\ fetch = Idle
  /\ row = [m \in Models |-> [text |-> stored[m], seen |-> stored[m], last |-> None]]
  /\ typed = {} /\ saves = <<>> /\ refused = {} /\ upset = {} /\ crossed = {}

-----------------------------------------------------------------------------
(* The page                                                                *)

Type(m, text) ==
  /\ m \in Listed(listed) /\ text # row[m].text
  /\ row' = [row EXCEPT ![m].text = text, ![m].last = None]
  /\ typed' = typed \cup {m}
  /\ UNCHANGED <<stored, listed, fetch, saves, refused, upset, crossed>>

Sent(kind, m, c) ==
  Append(saves, [kind |-> kind, model |-> m, context |-> c, base |-> listed[m],
                 at |-> "sent", ok |-> TRUE])

\* A change of the model that is under way is to what the list shows already.
Restores(m) ==
  \E i \in DOMAIN saves :
    saves[i].model = m /\ saves[i].at = "sent" /\ saves[i].context = listed[m]

Reset(m, c) == [row EXCEPT ![m].text = c, ![m].last = None]

\* Enter, or the focus leaves the box.
SaveContext(m) ==
  /\ m \in Listed(listed) /\ Len(saves) < MaxSaves
  /\ LET c == row[m].text
         goes == c \notin {Odd, listed[m], row[m].last}
     IN /\ saves' = IF goes THEN Sent("update", m, c) ELSE saves
        /\ row' = IF goes THEN [row EXCEPT ![m].last = c]
                  ELSE IF c = Odd THEN Reset(m, listed[m]) ELSE row
        /\ crossed' = IF goes /\ Restores(m) THEN crossed \cup {m} ELSE crossed
  /\ typed' = typed \ {m}
  /\ UNCHANGED <<stored, listed, fetch, refused, upset>>

\* AddModelForm.
AddModel(m, c) ==
  /\ m \notin Listed(stored) /\ Len(saves) < MaxSaves
  /\ saves' = Sent("create", m, c)
  /\ UNCHANGED <<stored, listed, fetch, row, typed, refused, upset, crossed>>

\* Every list that arrives is rendered: a box whose model has another context follows it.
Arrive ==
  /\ fetch.on /\ Listed(fetch.read) # {}
  /\ listed' = fetch.read /\ fetch' = Idle
  /\ row' = [m \in Models |->
               IF row[m].seen = fetch.read[m] THEN row[m]
               ELSE [row[m] EXCEPT !.text = fetch.read[m], !.seen = fetch.read[m]]]
  /\ typed' = {m \in typed : row'[m] = row[m]}
  /\ UNCHANGED <<stored, saves, refused, upset, crossed>>

\* refresh cancels a list under way and loads a new one.
\* (..Reused: as if the one under way were good enough.)
ReloadedReused(i) == IF fetch.on THEN fetch ELSE Loading(i)
Reloaded(i) == Loading(i)

\* onSettled of an update, and onSuccess of a creation.  The mutation is not over before
\* the list has been loaded, or cancelled.
Settle(i) ==
  /\ saves[i].at = "answered"
  /\ LET refresh == saves[i].ok \/ saves[i].kind = "update"
     IN /\ fetch' = IF refresh THEN Reloaded(i) ELSE fetch
        /\ saves' = [saves EXCEPT ![i].at = IF refresh THEN "settling" ELSE "over"]
  /\ UNCHANGED <<stored, listed, row, typed, refused, upset, crossed>>

\* The onError given to mutate runs for the last update only; resetContext restores the
\* context of the render in which it was sent.
LastUpdate(i) == \A j \in DOMAIN saves : saves[j].kind = "update" => j <= i
End(i) ==
  /\ saves[i].at = "settling" /\ ~(fetch.on /\ fetch.by = i)
  /\ saves' = [saves EXCEPT ![i].at = "over"]
  /\ row' = IF ~saves[i].ok /\ LastUpdate(i) THEN Reset(saves[i].model, saves[i].base) ELSE row
  /\ UNCHANGED <<stored, listed, fetch, typed, refused, upset, crossed>>

-----------------------------------------------------------------------------
(* The server                                                              *)

Answered(i, ok) == saves' = [saves EXCEPT ![i].at = "answered", ![i].ok = ok]

Serve(i) ==
  /\ saves[i].at = "sent"
  /\ saves[i].kind = "create" => saves[i].model \notin Listed(stored)
  /\ stored' = [stored EXCEPT ![saves[i].model] = saves[i].context]
  /\ \/ Answered(i, TRUE) /\ upset' = upset
     \/ Answered(i, FALSE) /\ upset' = upset \cup {saves[i].model}     \* the answer is lost
  /\ UNCHANGED <<listed, fetch, row, typed, refused, crossed>>

Refuse(i) ==
  /\ saves[i].at = "sent"
  /\ Answered(i, FALSE)
  /\ refused' = refused \cup {saves[i].model}
  /\ UNCHANGED <<stored, listed, fetch, row, typed, upset, crossed>>

ReadList ==
  /\ fetch.on /\ Listed(fetch.read) = {}
  /\ fetch' = [fetch EXCEPT !.read = stored]
  /\ UNCHANGED <<stored, listed, row, typed, saves, refused, upset, crossed>>

\* Another administrator.
Elsewhere(m, c) ==
  /\ m \in Listed(stored) \ upset
  /\ stored' = [stored EXCEPT ![m] = c] /\ upset' = upset \cup {m}
  /\ UNCHANGED <<listed, fetch, row, typed, saves, refused, crossed>>

ListFails ==
  /\ fetch.on
  /\ fetch' = Idle /\ upset' = Models
  /\ UNCHANGED <<stored, listed, row, typed, saves, refused, crossed>>

Next ==
  \/ \E m \in Models :
       \/ \E text \in Contexts \cup {Odd} : Type(m, text)
       \/ SaveContext(m)
       \/ \E c \in Contexts : AddModel(m, c) \/ Elsewhere(m, c)
  \/ \E i \in DOMAIN saves : Serve(i) \/ Refuse(i) \/ Settle(i) \/ End(i)
  \/ ReadList \/ Arrive \/ ListFails

Spec == Init /\ [][Next]_pageVars

-----------------------------------------------------------------------------
(* Properties                                                              *)

TypeOK ==
  /\ {stored, listed, fetch.read} \subseteq [Models -> Contexts \cup {None}]
  /\ fetch.on \in BOOLEAN /\ fetch.by \in 0 .. MaxSaves
  /\ row \in [Models -> [text : Contexts \cup {Odd, None}, seen : Contexts \cup {None},
                         last : Contexts \cup {None}]]
  /\ typed \cup refused \cup upset \cup crossed \subseteq Models
  /\ saves \in Seq([kind : {"update", "create"}, model : Models, context : Contexts,
                    base : Contexts \cup {None}, at : {"sent", "answered", "settling", "over"},
                    ok : BOOLEAN])

AtRest == ~fetch.on /\ \A i \in DOMAIN saves : saves[i].at = "over"

\* Once every answer is in the list shows what is stored, and so does every box that
\* nobody is typing in, in whatever order the changes were served and the lists arrived;
\* unless something failed.  One box may be left behind: of two changes to one context
\* the first is listed, the box is saved with another, and the second is served last:
\* the list that arrives is the list there was, and the box follows only what is new.
BoxesFollow ==
  AtRest => \A m \in Models \ (refused \cup upset) :
    listed[m] = stored[m] /\ (m \notin typed \cup crossed => row[m].text = listed[m])
=============================================================================
