---------------------------- MODULE MCLiveProofs ----------------------------
(***************************************************************************)
(* What the components of MCLive keep.  Proved here: the summary that a    *)
(* chat's prompt is built from, and what the prompt leaves out, keeps and  *)
(* costs.  The other components' proofs are in ApiProofs, for every value  *)
(* of the constants, and are used here of the instance the run checks.     *)
(***************************************************************************)
EXTENDS MCLive, WellFoundedInduction, TLAPS

-----------------------------------------------------------------------------
(* The stored summary of ContextWindow, for all models, ratios, messages   *)
(* and bounds: it covers the history up to its anchor, each entry once.    *)
(* While a summary is written the same is true of the draft, and the place *)
(* where it will end is a turn boundary (Drafting).  Boundaries stay       *)
(* boundaries: the history grows by whole turns.                           *)

Covers(notes) ==
  \A i \in 1 .. MaxEntries : notes.taken[i] = IF i <= notes.through THEN 1 ELSE 0

Typed ==
  /\ history \in Seq([role : {"user", "assistant"}, cost : Prompts \cup Replies])
  /\ message \in Nat
  /\ saved \in Summaries /\ draft \in Summaries
  /\ saved.through \in Places

Drafting ==
  phase = "fold" => /\ Covers(draft)
                    /\ goal \in Places /\ draft.through <= goal
                    /\ goal > 0 => IsTurnBoundary(goal)

Fits == (phase \in {"build", "fold", "reply"}) => message \in Prompts

WindowInv == Typed /\ SummaryCoversPrefix /\ Drafting /\ Fits

\* A chat starts without a summary.
LEMMA WindowInit == Init => WindowInv
<1> SUFFICES ASSUME Init PROVE WindowInv
  OBVIOUS
<1>1. NoSummary \in Summaries /\ NoSummary.through = 0 /\ Covers(NoSummary)
  BY SizesAssumption DEF NoSummary, Summaries, Covers
<1>2. history \in Seq([role : {"user", "assistant"}, cost : Prompts \cup Replies])
  <2>1. CASE history = <<>>
    BY <2>1
  <2>2. CASE \E cost \in Prompts : history = <<Entry("user", cost)>>
    <3>1. PICK cost \in Prompts : history = <<Entry("user", cost)>>
      BY <2>2
    <3>2. Entry("user", cost) \in [role : {"user", "assistant"}, cost : Prompts \cup Replies]
      BY DEF Entry
    <3> QED
      BY <3>1, <3>2
  <2> QED
    BY <2>1, <2>2 DEF Init
<1>3. 0 \in Places
  BY <1>2 DEF Places
<1> QED
  BY <1>1, <1>2, <1>3 DEF Init, WindowInv, Typed, SummaryCoversPrefix, Covers, Drafting, Fits

\* A place that ends a turn still does when the next turn is appended.
LEMMA BoundariesStay ==
  ASSUME Typed, NEW user, NEW assistant, user.role = "user",
         history' = history \o <<user, assistant>>
  PROVE  /\ Len(history') = Len(history) + 2
         /\ \A i \in Places : i > 0 /\ IsTurnBoundary(i) => IsTurnBoundary(i)'
<1>1. /\ Len(history') = Len(history) + 2
      /\ \A i \in 1 .. Len(history) : history'[i] = history[i]
      /\ history'[Len(history) + 1] = user
  BY DEF Typed
<1>2. ASSUME NEW i \in Places, i > 0, IsTurnBoundary(i)
      PROVE  IsTurnBoundary(i)'
  <2>1. CASE i = Len(history)
    BY <2>1, <1>1 DEF IsTurnBoundary
  <2>2. CASE i # Len(history)
    <3>1. i + 1 \in 1 .. Len(history)
      BY <2>2, <1>2 DEF Places, Typed
    <3> QED
      BY <3>1, <2>2, <1>1, <1>2 DEF IsTurnBoundary
  <2> QED
    BY <2>1, <2>2
<1> QED
  BY <1>1, <1>2

\* Notes on the next chunk cover the entries through its end.
LEMMA NextChunk ==
  ASSUME Typed, Covers(draft), NEW last \in Nat, draft.through < last, NEW cost \in Nat,
         draft' = [through |-> last, cost |-> cost, taken |-> TakenOn(draft.through, last)]
  PROVE  draft' \in Summaries /\ draft'.through = last /\ Covers(draft')
<1>1. draft.through \in Nat /\ draft.taken \in [1 .. MaxEntries -> Nat]
  BY DEF Typed, Summaries
<1>2. \A i \in 1 .. MaxEntries :
        TakenOn(draft.through, last)[i]
          = draft.taken[i] + IF i \in draft.through + 1 .. last THEN 1 ELSE 0
  BY DEF TakenOn
<1>3. \A i \in 1 .. MaxEntries :
        TakenOn(draft.through, last)[i] = IF i <= last THEN 1 ELSE 0
  <2> SUFFICES ASSUME NEW i \in 1 .. MaxEntries
               PROVE  TakenOn(draft.through, last)[i] = IF i <= last THEN 1 ELSE 0
    OBVIOUS
  <2>1. draft.taken[i] = IF i <= draft.through THEN 1 ELSE 0
    BY DEF Covers
  <2>2. i \in Nat
    BY SizesAssumption
  <2> QED
    BY <2>1, <2>2, <1>1, <1>2
<1>4. TakenOn(draft.through, last) \in [1 .. MaxEntries -> Nat]
  <2>1. \A i \in 1 .. MaxEntries : TakenOn(draft.through, last)[i] \in Nat
    BY <1>3
  <2>2. /\ TakenOn(draft.through, last)
             = [i \in 1 .. MaxEntries |-> TakenOn(draft.through, last)[i]]
        /\ DOMAIN TakenOn(draft.through, last) = 1 .. MaxEntries
    BY DEF TakenOn
  <2> QED
    BY <2>1, <2>2
<1> QED
  BY <1>3, <1>4 DEF Summaries, Covers

\* Every step keeps the invariant.
LEMMA WindowKeeps == WindowInv /\ [Next]_vars => WindowInv'
<1> SUFFICES ASSUME WindowInv, [Next]_vars PROVE WindowInv'
  OBVIOUS
<1> USE DEF WindowInv
<1>1. CASE Ask
  BY <1>1, SizesAssumption DEF Ask, Typed, SummaryCoversPrefix, Drafting, Fits, Places, IsTurnBoundary
<1>2. CASE StartFolding
  <2>1. PICK place \in Foldable : goal' = place
    BY <1>2 DEF StartFolding
  <2>2. /\ place \in Places /\ saved.through < place /\ IsTurnBoundary(place)
        /\ saved.through \in Nat
    BY <2>1, SizesAssumption DEF Foldable, Typed, Places, Summaries
  <2>3. Covers(saved)
    BY DEF SummaryCoversPrefix, Covers
  <2> QED
    BY <1>2, <2>1, <2>2, <2>3
       DEF StartFolding, Typed, SummaryCoversPrefix, Drafting, Fits, Covers, Places, IsTurnBoundary
<1>3. CASE TakeNotes
  <2>1. PICK last \in draft.through + 1 .. goal : \E cost \in 1 .. NotesMax :
          draft' = [through |-> last, cost |-> cost, taken |-> TakenOn(draft.through, last)]
    BY <1>3 DEF TakeNotes
  <2>2. PICK cost \in 1 .. NotesMax :
          draft' = [through |-> last, cost |-> cost, taken |-> TakenOn(draft.through, last)]
    BY <2>1
  <2>3. draft.through \in Nat /\ goal \in Nat
    BY <1>3 DEF TakeNotes, Drafting, Typed, Summaries, Places
  <2>4. last \in Nat /\ draft.through < last /\ last <= goal /\ cost \in Nat
    BY <2>1, <2>3
  <2>5. draft' \in Summaries /\ draft'.through = last /\ Covers(draft')
    BY <1>3, <2>2, <2>4, NextChunk DEF TakeNotes, Drafting
  <2> QED
    BY <1>3, <2>4, <2>5
       DEF TakeNotes, Typed, SummaryCoversPrefix, Drafting, Fits, Covers, Places, IsTurnBoundary
<1>4. CASE SendUnfolded
  BY <1>4 DEF SendUnfolded, Send, Typed, SummaryCoversPrefix, Drafting, Fits, Places, IsTurnBoundary
<1>5. CASE SendFolded
  BY <1>5 DEF SendFolded, Send, Typed, SummaryCoversPrefix, Drafting, Fits, Covers, Places, IsTurnBoundary
<1>6. CASE SendDespiteFailure
  BY <1>6 DEF SendDespiteFailure, Send, Typed, SummaryCoversPrefix, Drafting, Fits, Places, IsTurnBoundary
<1>7. CASE Complete
  <2>1. PICK cost \in Replies :
          history' = history \o <<Entry("user", message), Entry("assistant", cost)>>
    BY <1>7 DEF Complete
  <2>2. message \in Prompts
    BY <1>7 DEF Complete, Fits
  <2>3. /\ Entry("user", message).role = "user"
        /\ Entry("user", message) \in [role : {"user", "assistant"}, cost : Prompts \cup Replies]
        /\ Entry("assistant", cost) \in [role : {"user", "assistant"}, cost : Prompts \cup Replies]
    BY <2>2 DEF Entry
  <2>4. history' \in Seq([role : {"user", "assistant"}, cost : Prompts \cup Replies])
    BY <2>1, <2>3 DEF Typed
  <2>5. /\ Len(history') = Len(history) + 2
        /\ \A i \in Places : i > 0 /\ IsTurnBoundary(i) => IsTurnBoundary(i)'
    BY <2>1, <2>3, BoundariesStay
  <2>6. Places \subseteq Places'
    BY <2>5 DEF Places, Typed
  <2>7. saved' = saved /\ draft' = draft /\ message' = message /\ phase' = "idle"
    BY <1>7 DEF Complete
  <2>8. SummaryCoversPrefix'
    <3>1. saved.through > 0 => IsTurnBoundary(saved.through)'
      <4>1. saved.through \in Places
        BY DEF Typed
      <4> QED
        BY <2>5, <2>7, <4>1 DEF SummaryCoversPrefix, IsTurnBoundary
    <3> QED
      BY <3>1, <2>7 DEF SummaryCoversPrefix, IsTurnBoundary
  <2> QED
    BY <2>4, <2>6, <2>7, <2>8 DEF Typed, Drafting, Fits
<1>8. CASE EndTurn
  BY <1>8 DEF EndTurn, Typed, SummaryCoversPrefix, Drafting, Fits, Places, IsTurnBoundary
<1>9. CASE UNCHANGED vars
  BY <1>9 DEF vars, Typed, SummaryCoversPrefix, Drafting, Fits, Places, IsTurnBoundary, Covers
<1> QED
  BY <1>1, <1>2, <1>3, <1>4, <1>5, <1>6, <1>7, <1>8, <1>9 DEF Next

\* The stored summary always covers the history through its anchor, each entry
\* once, and ends with a turn: a failure between two chunks, a cancelled request
\* or a crash leaves the earlier summary with the earlier anchor.
THEOREM CoversPrefix == Spec => []SummaryCoversPrefix
<1>1. WindowInv => SummaryCoversPrefix
  BY DEF WindowInv
<1> QED
  BY <1>1, WindowInit, WindowKeeps, PTL DEF Spec

-----------------------------------------------------------------------------
(* What a prompt carries.  The loops of the code are recursive functions   *)
(* here: that they are what they say follows by induction over the places. *)

Less == {ss \in Nat \X Nat : ss[1] < ss[2]}
\* What the theorems on well-founded relations say of the natural numbers, as facts about
\* sets: the provers cannot instantiate an operator.
LEMMA LessWF == IsWellFoundedOn(Less, Nat)
BY NatLessThanWellFounded DEF OpToRel, Less
\* A set of natural numbers has a least one.
LEMMA LeastOf ==
  ASSUME NEW T \in SUBSET Nat, T # {}
  PROVE  \E x \in T : \A y \in T : x <= y
<1>1. \E x \in T : \A y \in T : ~(<<y, x>> \in Less)
  <2> HIDE DEF Less
  <2> QED BY WFMin, LessWF
<1>2. PICK x \in T : \A y \in T : ~(<<y, x>> \in Less)
  BY <1>1
<1>3. \A y \in T : ~(y < x)
  BY <1>2 DEF Less
<1> QED
  BY <1>3

\* A set that has 0, and with each number the next, has all.
LEMMA Induction ==
  ASSUME NEW T \in SUBSET Nat, 0 \in T, \A n \in T : n + 1 \in T
  PROVE  T = Nat
<1> SUFFICES ASSUME Nat \ T # {} PROVE FALSE
  OBVIOUS
<1>1. PICK x \in Nat \ T : \A y \in Nat \ T : x <= y
  BY LeastOf
<1>2. x # 0
  OBVIOUS
<1>3. x - 1 \in Nat /\ x - 1 + 1 = x /\ ~(x <= x - 1)
  BY <1>2
<1> QED
  BY <1>1, <1>3

Message == [role : {"user", "assistant"}, cost : Prompts \cup Replies]
Logged == history \in Seq(Message)

\* An entry's tokens are a number.
LEMMA Costs ==
  ASSUME Logged
  PROVE  Len(history) \in Nat /\ \A i \in 1 .. Len(history) : history[i].cost \in Nat
<1>1. \A i \in 1 .. Len(history) : history[i] \in Message
  BY DEF Logged
<1>2. \A e \in Message : e.cost \in Nat
  BY SizesAssumption DEF Message
<1> QED
  BY <1>1, <1>2 DEF Logged

\* TokensThrough is the function its recursion says: sums of the entries' tokens.
LEMMA Sums ==
  ASSUME Logged
  PROVE  /\ TokensThrough \in [Places -> Nat]
         /\ \A i \in 1 .. Len(history) :
              TokensThrough[i] = TokensThrough[i - 1] + history[i].cost
<1> DEFINE IsSum(f, n) == f[0] = 0 /\ \A i \in 1 .. n : f[i] = f[i - 1] + history[i].cost
           T == {n \in Nat : n <= Len(history) => \E f \in [0 .. n -> Nat] : IsSum(f, n)}
<1>1. Len(history) \in Nat /\ \A i \in 1 .. Len(history) : history[i].cost \in Nat
  BY Costs
<1>2. 0 \in T
  <2> DEFINE f == [i \in 0 .. 0 |-> 0]
  <2>1. f \in [0 .. 0 -> Nat] /\ IsSum(f, 0)
    OBVIOUS
  <2> QED
    BY <2>1
<1>3. ASSUME NEW n \in T, n + 1 <= Len(history)
      PROVE  \E g \in [0 .. n + 1 -> Nat] : IsSum(g, n + 1)
  <2>0. n \in Nat /\ n <= Len(history)
    BY <1>1, <1>3
  <2>1. PICK f \in [0 .. n -> Nat] : IsSum(f, n)
    BY <1>3, <2>0
  <2> DEFINE g == [i \in 0 .. n + 1 |-> IF i = n + 1 THEN f[n] + history[n + 1].cost ELSE f[i]]
  <2>2. g \in [0 .. n + 1 -> Nat]
    BY <1>1, <1>3
  <2>3. g[0] = 0
    BY <2>1
  <2>4. \A i \in 1 .. n + 1 : g[i] = g[i - 1] + history[i].cost
    <3> SUFFICES ASSUME NEW i \in 1 .. n + 1 PROVE g[i] = g[i - 1] + history[i].cost
      OBVIOUS
    <3>1. CASE i = n + 1
      BY <3>1
    <3>2. CASE i # n + 1
      BY <3>2, <2>1
    <3> QED
      BY <3>1, <3>2
  <2> QED
    BY <2>2, <2>3, <2>4
<1>4. T = Nat
  <2>1. ASSUME NEW n \in T PROVE n + 1 \in T
    <3>1. n + 1 \in Nat
      OBVIOUS
    <3>2. n + 1 <= Len(history) => \E g \in [0 .. n + 1 -> Nat] : IsSum(g, n + 1)
      <4> HIDE DEF IsSum, T
      <4> QED
        BY <1>3
    <3> HIDE DEF IsSum
    <3> QED
      BY <3>1, <3>2
  <2> HIDE DEF T
  <2> QED
    BY <1>2, <2>1, Induction, T \in SUBSET Nat DEF T
<1>5. PICK f \in [Places -> Nat] : IsSum(f, Len(history))
  <2>1. Len(history) \in T
    BY <1>1, <1>4
  <2> HIDE DEF IsSum
  <2> QED
    BY <2>1, <1>1 DEF Places
<1>6. f = [i \in Places |-> IF i = 0 THEN 0 ELSE f[i - 1] + history[i].cost]
  BY <1>1, <1>5 DEF Places
<1>7. TokensThrough = [i \in Places |-> IF i = 0 THEN 0 ELSE TokensThrough[i - 1] + history[i].cost]
  BY <1>6 DEF TokensThrough
<1>8. /\ DOMAIN TokensThrough = Places
      /\ TokensThrough[0] = 0
      /\ \A i \in 1 .. Len(history) : TokensThrough[i] = TokensThrough[i - 1] + history[i].cost
  <2> HIDE DEF IsSum
  <2> DEFINE t == TokensThrough
  <2>1. t = [i \in Places |-> IF i = 0 THEN 0 ELSE t[i - 1] + history[i].cost]
    BY <1>7
  <2> HIDE DEF t
  <2>2. /\ DOMAIN t = Places /\ t[0] = 0
        /\ \A i \in 1 .. Len(history) : t[i] = t[i - 1] + history[i].cost
    BY <2>1, <1>1 DEF Places
  <2> QED
    BY <2>2 DEF t
<1>9. \A i \in Places : TokensThrough[i] \in Nat
  <2> DEFINE S == {n \in Nat : n <= Len(history) => TokensThrough[n] \in Nat}
  <2>1. 0 \in S
    BY <1>8
  <2>2. ASSUME NEW n \in S PROVE n + 1 \in S
    BY <1>1, <1>8
  <2>3. S = Nat
    <3> HIDE DEF S
    <3> QED
      BY <2>1, <2>2, Induction, S \in SUBSET Nat DEF S
  <2> QED
    BY <2>3, <1>1 DEF Places
<1> QED
  BY <1>7, <1>8, <1>9

\* More entries have no fewer tokens.
LEMMA TokensGrow ==
  ASSUME Logged
  PROVE  \A i, j \in Places :
           i <= j => /\ TokensThrough[i] <= TokensThrough[j]
                     /\ Tokens(i, j) \in Nat
                     /\ Tokens(j, Len(history)) <= Tokens(i, Len(history))
<1>1. /\ Len(history) \in Nat /\ \A i \in 1 .. Len(history) : history[i].cost \in Nat
      /\ \A i \in Places : TokensThrough[i] \in Nat
      /\ \A i \in 1 .. Len(history) : TokensThrough[i] = TokensThrough[i - 1] + history[i].cost
  BY Sums, Costs
<1> DEFINE T == {n \in Nat : n <= Len(history) =>
                    \A i \in 0 .. n : TokensThrough[i] <= TokensThrough[n]}
<1>2. 0 \in T
  BY <1>1 DEF Places
<1>3. ASSUME NEW n \in T PROVE n + 1 \in T
  <2> SUFFICES ASSUME n + 1 <= Len(history), NEW i \in 0 .. n + 1
               PROVE  TokensThrough[i] <= TokensThrough[n + 1]
    OBVIOUS
  <2>1. /\ TokensThrough[n + 1] = TokensThrough[n] + history[n + 1].cost
        /\ TokensThrough[n] \in Nat /\ history[n + 1].cost \in Nat /\ TokensThrough[i] \in Nat
    BY <1>1, n + 1 \in 1 .. Len(history) DEF Places
  <2>2. CASE i = n + 1
    BY <2>1, <2>2
  <2>3. CASE i # n + 1
    <3>1. TokensThrough[i] <= TokensThrough[n]
      BY <2>3
    <3> QED
      BY <2>1, <3>1
  <2> QED
    BY <2>2, <2>3
<1>4. T = Nat
  <2> HIDE DEF T
  <2> QED
    BY <1>2, <1>3, Induction, T \in SUBSET Nat DEF T
<1> SUFFICES ASSUME NEW i \in Places, NEW j \in Places, i <= j
             PROVE  /\ TokensThrough[i] <= TokensThrough[j]
                    /\ Tokens(i, j) \in Nat
                    /\ Tokens(j, Len(history)) <= Tokens(i, Len(history))
  OBVIOUS
<1>5. j \in Nat /\ i \in 0 .. j /\ j <= Len(history)
  BY <1>1 DEF Places
<1>6. TokensThrough[i] <= TokensThrough[j]
  BY <1>4, <1>5
<1>7. TokensThrough[Len(history)] \in Nat
  BY <1>1 DEF Places
<1> QED
  BY <1>1, <1>6, <1>7 DEF Tokens

\* Shares of a context, and what a prompt costs, are numbers.
LEMMA Arithmetic ==
  \A a, b \in Nat : a * b \in Nat /\ (a * b) \div 100 \in Nat
OBVIOUS

\* Prompts have a price.
LEMMA PromptsPriced ==
  ASSUME TypeOK, NEW notes \in Summaries
  PROVE  /\ NotesTokens(notes) \in Nat
         /\ \A place \in Places : PromptTokens(notes, place) \in Nat
         /\ Trigger \in Nat /\ Target \in Nat /\ NotesMax \in Nat
<1>1. Logged
  BY DEF TypeOK, Logged, Message
<1>2. NotesTokens(notes) \in Nat
  BY SizesAssumption DEF NotesTokens, Summaries
<1>3. \A place \in Places : Tokens(place, Len(history)) \in Nat
  BY <1>1, TokensGrow, Costs DEF Places
<1>4. Trigger \in Nat /\ Target \in Nat /\ NotesMax \in Nat
  <2>0. model \in Nat
    BY SizesAssumption DEF TypeOK
  <2>1. SummarizeAt \in Nat /\ TargetAt \in Nat /\ SummaryMax \in Nat
    BY RatiosAssumption
  <2> QED
    BY <2>0, <2>1, Arithmetic DEF Trigger, Target, NotesMax
<1> QED
  BY <1>2, <1>3, <1>4 DEF PromptTokens, TypeOK

\* Where dropping stops: the places from which the prompt fits, or nothing is left.
Least(S) == CHOOSE x \in S : \A y \in S : x <= y
Over(notes, place) == place < Len(history) /\ PromptTokens(notes, place) > Trigger
Stops(notes, place) ==
  {i \in Places : /\ i >= place /\ (i = place \/ IsTurnBoundary(i))
                  /\ ~Over(notes, i)}

\* The least number of a set is one of it.
LEMMA LeastIs ==
  ASSUME NEW S \in SUBSET Nat, S # {}
  PROVE  Least(S) \in S /\ \A y \in S : Least(S) <= y
BY LeastOf DEF Least

\* A place to stop at exists, and a place that does not fit leaves them as they are.
LEMMA Stop ==
  ASSUME Logged, NEW notes, NEW place \in Places
  PROVE  /\ Stops(notes, place) # {} /\ Stops(notes, place) \in SUBSET Nat
         /\ ~Over(notes, place) => Least(Stops(notes, place)) = place
         /\ Over(notes, place) => /\ NextBoundary(place) \in Places /\ NextBoundary(place) > place
                                  /\ Stops(notes, place) = Stops(notes, NextBoundary(place))
<1>0. Len(history) \in Nat
  BY Costs
<1>1. Len(history) \in Stops(notes, place)
  BY <1>0 DEF Stops, Over, Places, IsTurnBoundary
<1>2. Stops(notes, place) \in SUBSET Nat
  BY <1>0 DEF Stops, Places
<1>3. ASSUME ~Over(notes, place) PROVE Least(Stops(notes, place)) = place
  <2>1. place \in Stops(notes, place) /\ \A i \in Stops(notes, place) : place <= i
    BY <1>0, <1>3 DEF Stops, Places
  <2>2. /\ Least(Stops(notes, place)) \in Stops(notes, place)
        /\ Least(Stops(notes, place)) <= place
    BY <2>1, <1>2, LeastIs
  <2> QED
    BY <2>1, <2>2, <1>2
<1>4. ASSUME Over(notes, place)
      PROVE  /\ NextBoundary(place) \in Places /\ NextBoundary(place) > place
             /\ Stops(notes, place) = Stops(notes, NextBoundary(place))
  <2> DEFINE B == {i \in Places : i > place /\ IsTurnBoundary(i)}
             next == NextBoundary(place)
  <2>1. Len(history) \in B /\ B \in SUBSET Nat
    BY <1>0, <1>4 DEF Places, Over, IsTurnBoundary
  <2>2. PICK b \in B : \A i \in B : b <= i
    BY <2>1, LeastOf
  <2>3. /\ next \in Places /\ next > place /\ IsTurnBoundary(next)
        /\ \A j \in Places : j > place /\ IsTurnBoundary(j) => next <= j
    BY <2>2 DEF NextBoundary
  <2> HIDE DEF next
  <2>4. \A i \in Places : i \in Stops(notes, place) <=> i \in Stops(notes, next)
    <3> SUFFICES ASSUME NEW i \in Places
                 PROVE  i \in Stops(notes, place) <=> i \in Stops(notes, next)
      OBVIOUS
    <3>1. i \in Nat /\ place \in Nat /\ next \in Nat
      BY <1>0, <2>3 DEF Places
    <3>2. CASE IsTurnBoundary(i)
      BY <1>4, <2>3, <3>1, <3>2 DEF Stops
    <3>3. CASE ~IsTurnBoundary(i)
      BY <1>4, <2>3, <3>1, <3>3 DEF Stops
    <3> QED
      BY <3>2, <3>3
  <2>5. Stops(notes, place) = Stops(notes, next)
    BY <2>4 DEF Stops
  <2> QED
    BY <2>3, <2>5 DEF next
<1> QED
  BY <1>1, <1>2, <1>3, <1>4

\* The loop ends at the first boundary from which the prompt fits.
LEMMA DropsTo ==
  ASSUME Logged, NEW notes, notes.through \in Places
  PROVE  DropOldestTurns(notes) = Least(Stops(notes, notes.through))
<1>0. Len(history) \in Nat /\ Places = 0 .. Len(history)
  BY Costs DEF Places
<1> DEFINE Loops(g) == g = [place \in Places |->
                              IF Over(notes, place) THEN g[NextBoundary(place)] ELSE place]
           f == [place \in Places |-> Least(Stops(notes, place))]
<1>1. Loops(f)
  <2>1. \A place \in Places :
          f[place] = IF Over(notes, place) THEN f[NextBoundary(place)] ELSE place
    BY Stop
  <2>2. f = [place \in Places |-> f[place]]
    OBVIOUS
  <2> HIDE DEF f
  <2> QED
    BY <2>1, <2>2
<1>2. ASSUME NEW g, Loops(g) PROVE \A place \in Places : g[place] = f[place]
  <2>1. /\ \A place \in Places :
             /\ Over(notes, place) => g[place] = g[NextBoundary(place)]
             /\ ~Over(notes, place) => g[place] = place
    BY <1>2
  <2>2. /\ \A place \in Places :
             /\ Over(notes, place) => f[place] = f[NextBoundary(place)]
             /\ ~Over(notes, place) => f[place] = place
    BY Stop
  <2> DEFINE T == {n \in Nat : \A place \in Places : Len(history) - place <= n => g[place] = f[place]}
  <2> HIDE DEF f
  <2>3. 0 \in T
    <3>1. \A place \in Places : Len(history) - place <= 0 => ~Over(notes, place)
      BY <1>0 DEF Over
    <3> QED
      BY <3>1, <2>1, <2>2
  <2>4. ASSUME NEW n \in T PROVE n + 1 \in T
    <3> SUFFICES ASSUME NEW place \in Places, Len(history) - place <= n + 1
                 PROVE  g[place] = f[place]
      OBVIOUS
    <3>1. CASE ~Over(notes, place)
      BY <3>1, <2>1, <2>2
    <3>2. CASE Over(notes, place)
      <4>1. NextBoundary(place) \in Places /\ NextBoundary(place) > place
        BY <3>2, Stop
      <4>2. Len(history) - NextBoundary(place) <= n
        BY <4>1, <1>0
      <4> QED
        BY <3>2, <4>1, <4>2, <2>1, <2>2
    <3> QED
      BY <3>1, <3>2
  <2>5. T = Nat
    <3> HIDE DEF T
    <3> QED
      BY <2>3, <2>4, Induction, T \in SUBSET Nat DEF T
  <2> SUFFICES ASSUME NEW place \in Places PROVE g[place] = f[place]
    OBVIOUS
  <2>6. Len(history) - place \in T
    BY <2>5, <1>0
  <2> QED
    BY <2>6
<1>3. Loops(CHOOSE g : Loops(g))
  <2> HIDE DEF Loops, f
  <2> QED
    BY <1>1
<1>4. DropOldestTurns(notes) = (CHOOSE g : Loops(g))[notes.through]
  BY DEF DropOldestTurns, Over
<1>5. f[notes.through] = Least(Stops(notes, notes.through))
  OBVIOUS
<1> HIDE DEF Loops, f
<1> QED
  BY <1>2, <1>3, <1>4, <1>5

\* The fold under way ends where selectTurnsToFold said.
Chosen == phase = "fold" => TurnsToFold(goal)

\* What fits with more entries fits with fewer.
LEMMA RestsShrink ==
  ASSUME TypeOK, NEW i \in Places, NEW j \in Places, i <= j, RestFits(i)
  PROVE  RestFits(j)
<1>0. Logged
  BY DEF TypeOK, Logged, Message
<1>1. /\ Tokens(i, Len(history)) \in Nat /\ Tokens(j, Len(history)) \in Nat
      /\ Tokens(j, Len(history)) <= Tokens(i, Len(history))
  <2>1. Len(history) \in Places /\ i <= Len(history) /\ j <= Len(history)
    BY <1>0, Costs DEF Places
  <2> QED
    BY <1>0, <2>1, TokensGrow
<1>2. NotesMax \in Nat /\ Target \in Nat /\ message \in Nat
  BY PromptsPriced DEF TypeOK
<1> QED
  BY <1>1, <1>2 DEF RestFits

\* What is sent drops the least, and fits.
LEMMA Sent ==
  ASSUME TypeOK, RoomForNotes, NEW notes \in Summaries, notes.through \in Places,
         message <= Trigger, Send(notes), goal' \in Places,
         (/\ notes.through = goal'
          /\ \E i \in Places : i <= Len(history) - KeepRecent /\ IsTurnBoundary(i) /\ RestFits(i))
            => RestFits(goal') \/ PromptTokens(notes, goal') <= Trigger
  PROVE  from' \in Places /\ WindowFits'
<1> DEFINE start == notes.through
           stops == Stops(notes, start)
           last == Len(history)
<1>1. Logged /\ last \in Nat
  BY Costs DEF TypeOK, Logged, Message
<1>2. /\ from' = Least(stops) /\ draft' = notes /\ phase' = "reply"
      /\ history' = history /\ message' = message /\ model' = model
  BY <1>1, DropsTo DEF Send
<1>3. /\ stops # {} /\ stops \in SUBSET Nat
      /\ ~Over(notes, start) => Least(stops) = start
  BY <1>1, Stop
<1>4. from' \in stops /\ \A i \in stops : from' <= i
  BY <1>2, <1>3, LeastIs
<1>5. /\ from' \in Places /\ from' >= start /\ (from' = start \/ IsTurnBoundary(from'))
      /\ ~Over(notes, from')
  BY <1>4 DEF Stops
<1>6. /\ NotesTokens(notes) \in Nat
      /\ \A place \in Places : PromptTokens(notes, place) \in Nat
      /\ Trigger \in Nat /\ Target \in Nat /\ NotesMax \in Nat /\ message \in Nat
  BY PromptsPriced DEF TypeOK
<1>7. /\ Places' = Places /\ Trigger' = Trigger /\ NotesMax' = NotesMax /\ Target' = Target
      /\ Len(history') = last
      /\ \A i : IsTurnBoundary(i)' <=> IsTurnBoundary(i)
      /\ \A i : RestFits(i)' <=> RestFits(i)
      /\ \A i : PromptTokens(draft, i)' = PromptTokens(notes, i)
  BY <1>2 DEF Places, Trigger, NotesMax, Target, IsTurnBoundary, RestFits, PromptTokens, Tokens,
              TokensThrough, NotesTokens
<1>8. DropsLeast'
  <2>1. from' = notes.through \/ IsTurnBoundary(from')
    BY <1>5
  <2>2. \A place \in start .. from' - 1 :
          IsTurnBoundary(place) => PromptTokens(notes, place) > Trigger
    <3> SUFFICES ASSUME NEW place \in start .. from' - 1, IsTurnBoundary(place)
                 PROVE  PromptTokens(notes, place) > Trigger
      OBVIOUS
    <3>0. start \in Nat /\ from' \in Nat /\ from' <= last
      BY <1>1, <1>5 DEF Places
    <3>1. place \in Places /\ place >= start /\ ~(from' <= place) /\ place < last
      <4> DEFINE end == from'
      <4>1. end \in Nat /\ end <= last /\ place \in start .. end - 1
        BY <3>0
      <4> HIDE DEF end, start
      <4>2. place \in Int /\ start <= place /\ place <= end - 1
        BY <3>0, <4>1
      <4>3. start \in Nat /\ last \in Nat /\ Places = 0 .. last
        BY <1>1, <3>0 DEF Places
      <4> HIDE DEF last
      <4>4. place \in 0 .. last /\ place >= start /\ ~(end <= place) /\ place < last
        BY <4>1, <4>2, <4>3
      <4> QED
        BY <4>3, <4>4 DEF end
    <3>2. place \notin stops
      BY <1>4, <3>1
    <3>3. Over(notes, place)
      BY <3>1, <3>2 DEF Stops
    <3> QED
      BY <3>3 DEF Over
  <2>3. PromptTokens(notes, from') <= Trigger \/ from' = last
    <3>1. from' < last \/ from' = last
      BY <1>1, <1>5 DEF Places
    <3>2. PromptTokens(notes, from') \in Nat
      BY <1>5, <1>6
    <3> QED
      BY <1>5, <1>6, <3>1, <3>2 DEF Over
  <2> QED
    BY <1>2, <1>7, <2>1, <2>2, <2>3 DEF DropsLeast
<1>9. NotesTokens(notes) <= notes.cost + NotesOverhead /\ notes.cost \in Nat /\ NotesOverhead \in Nat
  BY SizesAssumption DEF NotesTokens, Summaries
<1>10. FoldingSavesTurns'
  <2> SUFFICES ASSUME notes.through = goal', notes.cost <= NotesMax,
                      \E i \in Places : i <= last - KeepRecent /\ IsTurnBoundary(i) /\ RestFits(i)
               PROVE  from' = goal'
    BY <1>2, <1>7 DEF FoldingSavesTurns
  <2>1. PromptTokens(notes, goal') <= Trigger
    <3>1. SUFFICES ASSUME RestFits(goal') PROVE PromptTokens(notes, goal') <= Trigger
      OBVIOUS
    <3>2. NotesMax + Tokens(goal', last) + message <= Target
      BY <3>1 DEF RestFits
    <3>3. Target + NotesOverhead <= Trigger
      BY DEF RoomForNotes, TypeOK, Target, Trigger
    <3>4. Tokens(goal', last) \in Nat
      BY <1>1, TokensGrow DEF Places
    <3> QED
      BY <1>6, <1>9, <3>2, <3>3, <3>4 DEF PromptTokens
  <2>2. ~Over(notes, start)
    BY <2>1, <1>6 DEF Over
  <2> QED
    BY <1>2, <1>3, <2>2
<1>11. OverflowOnlyAfterSwitch'
  <2> SUFFICES ASSUME notes.cost <= NotesMax
               PROVE  PromptTokens(notes, from') <= model
    BY <1>2, <1>7 DEF OverflowOnlyAfterSwitch
  <2>1. NotesMax + NotesOverhead + Trigger <= model /\ model \in Nat
    BY SizesAssumption DEF RoomForNotes, TypeOK, NotesMax, Trigger
  <2>2. CASE PromptTokens(notes, from') <= Trigger
    BY <2>1, <2>2, <1>5, <1>6, <1>9
  <2>3. CASE from' = last
    <3>1. Tokens(last, last) = 0
      <4>1. TokensThrough[last] \in Nat
        BY <1>1, Sums DEF Places
      <4> QED
        BY <4>1 DEF Tokens
    <3> QED
      BY <2>1, <2>3, <3>1, <1>6, <1>9 DEF PromptTokens
  <2> QED
    BY <2>2, <2>3, <1>2, <1>7, <1>8 DEF DropsLeast
<1> QED
  BY <1>5, <1>8, <1>10, <1>11 DEF WindowFits

\* A question was short enough to be asked, and the history has room for its turn.
Asked == phase # "idle" => message <= Trigger /\ Len(history) + 2 <= MaxEntries

FitsInv == WindowInv /\ TypeOK /\ Chosen /\ Asked /\ WindowFits

\* A chat starts with nothing under way.
LEMMA FitsInit == Init => FitsInv
<1> SUFFICES ASSUME Init PROVE FitsInv
  OBVIOUS
<1>1. WindowInv
  BY WindowInit
<1>2. phase = "idle"
  BY DEF Init
<1>3. WindowFits /\ Chosen
  BY <1>2 DEF WindowFits, DropsLeast, FoldingSavesTurns, OverflowOnlyAfterSwitch, Chosen
<1>4. Len(history) \in {0, 1} /\ (Len(history) = 1 => Prompts # {})
  BY DEF Init
<1>5. TypeOK
  BY <1>1, <1>4, SizesAssumption DEF Init, TypeOK, WindowInv, Typed, Places, NoSummary
<1> QED
  BY <1>1, <1>2, <1>3, <1>5 DEF FitsInv, Asked

\* Only a prompt that is sent has to fit.
LEMMA NothingSent == phase' # "reply" => WindowFits'
BY DEF WindowFits, DropsLeast, FoldingSavesTurns, OverflowOnlyAfterSwitch

\* Every step keeps it: what is sent is Sent's matter, the rest leaves the prompt alone.
LEMMA FitsKeeps ==
  ASSUME RoomForNotes, FitsInv, [Next]_vars
  PROVE  FitsInv'
<1>1. WindowInv /\ TypeOK /\ Chosen /\ WindowFits /\ Asked
  BY DEF FitsInv
<1>2. WindowInv'
  BY <1>1, WindowKeeps
<1>3. /\ Typed' /\ draft' \in Summaries /\ saved' \in Summaries /\ saved'.through \in Places'
      /\ message' \in Nat
  BY <1>2 DEF WindowInv, Typed
<1> SUFFICES TypeOK' /\ Chosen' /\ WindowFits' /\ Asked'
  BY <1>2 DEF FitsInv
<1>4. CASE Ask
  <2>1. /\ history' = history /\ reported' = reported /\ saved' = saved /\ goal' = goal
        /\ draft' = draft /\ from' = from /\ phase' = "build" /\ model' \in Contexts
    BY <1>4 DEF Ask
  <2>2. TypeOK'
    BY <1>1, <1>3, <2>1 DEF TypeOK, Typed, Places
  <2>3. message' <= Trigger'
    BY <1>4 DEF Ask, ContentFits, Trigger
  <2> QED
    BY <1>4, <2>1, <2>2, <2>3, NothingSent DEF Ask, Chosen, Asked
<1>5. CASE StartFolding
  <2>1. PICK place \in Foldable : TurnsToFold(place) /\ goal' = place
    BY <1>5 DEF StartFolding
  <2>2. /\ history' = history /\ reported' = reported /\ saved' = saved /\ model' = model
        /\ draft' = saved /\ from' = from /\ phase' = "fold" /\ message' = message
        /\ phase = "build"
    BY <1>5 DEF StartFolding
  <2>3. goal' \in Places
    BY <1>1, <2>1, SizesAssumption DEF Foldable, TypeOK, Places, Summaries
  <2>4. TypeOK'
    BY <1>1, <1>3, <2>2, <2>3 DEF TypeOK, Typed, Places
  <2>5. TurnsToFold(goal)'
    <3>1. TurnsToFold(goal')
      BY <2>1
    <3>2. /\ Foldable' = Foldable /\ \A i : RestFits(i)' <=> RestFits(i)
      BY <2>2 DEF Foldable, RestFits, IsTurnBoundary, Tokens, TokensThrough, Places, NotesMax, Target
    <3> QED
      BY <3>1, <3>2 DEF TurnsToFold
  <2> QED
    BY <1>1, <2>2, <2>4, <2>5, NothingSent DEF Chosen, Asked, Trigger
<1>6. CASE TakeNotes
  <2>1. /\ history' = history /\ reported' = reported /\ saved' = saved /\ model' = model
        /\ goal' = goal /\ from' = from /\ phase' = "fold" /\ message' = message
        /\ phase = "fold"
    BY <1>6 DEF TakeNotes
  <2>2. draft'.through \in Places
    <3>1. PICK last \in draft.through + 1 .. goal : draft'.through = last
      BY <1>6 DEF TakeNotes
    <3> QED
      BY <1>1, <3>1 DEF TypeOK, Places
  <2>3. TypeOK'
    BY <1>1, <1>3, <2>1, <2>2 DEF TypeOK, Typed, Places
  <2>4. TurnsToFold(goal)'
    <3>1. TurnsToFold(goal')
      BY <1>1, <2>1 DEF Chosen
    <3>2. /\ Foldable' = Foldable /\ \A i : RestFits(i)' <=> RestFits(i)
      BY <2>1 DEF Foldable, RestFits, IsTurnBoundary, Tokens, TokensThrough, Places, NotesMax, Target
    <3> QED
      BY <3>1, <3>2 DEF TurnsToFold
  <2> QED
    BY <1>1, <2>1, <2>3, <2>4, NothingSent DEF Chosen, Asked, Trigger
<1>7. ASSUME NEW notes \in Summaries, notes.through \in Places, Send(notes), goal' \in Places,
             phase # "idle",
             (/\ notes.through = goal'
              /\ \E i \in Places : i <= Len(history) - KeepRecent /\ IsTurnBoundary(i) /\ RestFits(i))
                => RestFits(goal') \/ PromptTokens(notes, goal') <= Trigger
      PROVE  TypeOK' /\ Chosen' /\ WindowFits' /\ Asked'
  <2>1. from' \in Places /\ WindowFits'
    BY <1>1, <1>7, Sent DEF Asked
  <2>2. /\ history' = history /\ reported' = reported /\ model' = model /\ message' = message
        /\ draft' = notes /\ phase' = "reply"
    BY <1>7 DEF Send
  <2>3. TypeOK'
    BY <1>1, <1>3, <1>7, <2>1, <2>2 DEF TypeOK, Typed, Places
  <2> QED
    BY <1>1, <1>7, <2>1, <2>2, <2>3 DEF Chosen, Asked, Trigger
<1>8. CASE SendUnfolded
  <2>1. /\ Send(saved) /\ goal' = saved.through /\ phase = "build"
        /\ ~NeedsSummarization \/ Foldable = {}
    BY <1>8 DEF SendUnfolded
  <2>2. saved \in Summaries /\ saved.through \in Places
    BY <1>1 DEF TypeOK
  <2>3. PromptTokens(saved, saved.through) \in Nat /\ Trigger \in Nat
    BY <1>1, <2>2, PromptsPriced
  <2>4. CASE ~NeedsSummarization
    <3>1. PromptTokens(saved, saved.through) <= Trigger
      BY <2>3, <2>4 DEF NeedsSummarization
    <3> QED
      BY <1>7, <2>1, <2>2, <3>1
  <2>5. CASE Foldable = {}
    <3>1. ASSUME NEW i \in Places, i <= Len(history) - KeepRecent, IsTurnBoundary(i), RestFits(i)
          PROVE  RestFits(saved.through)
      <4>1. i \notin saved.through + 1 .. Len(history) - KeepRecent
        BY <2>5, <3>1 DEF Foldable
      <4>2. i \in Nat /\ saved.through \in Nat /\ Len(history) - KeepRecent \in Int
        BY <1>1, <2>2, SizesAssumption DEF TypeOK, Places
      <4>3. i <= saved.through
        BY <3>1, <4>1, <4>2
      <4> QED
        BY <1>1, <2>2, <3>1, <4>3, RestsShrink
    <3> QED
      BY <1>7, <2>1, <2>2, <3>1
  <2> QED
    BY <2>1, <2>4, <2>5
<1>9. CASE SendFolded
  <2>1. Send(draft) /\ goal' = goal /\ phase = "fold" /\ draft.through = goal
    BY <1>9 DEF SendFolded
  <2>2. draft \in Summaries /\ draft.through \in Places
    BY <1>1 DEF TypeOK
  <2>3. TurnsToFold(goal)
    BY <1>1, <2>1 DEF Chosen
  <2>4. ASSUME NEW i \in Places, i <= Len(history) - KeepRecent, IsTurnBoundary(i), RestFits(i)
        PROVE  RestFits(goal)
    <3>1. /\ i \in Nat /\ saved.through \in Nat /\ goal \in Nat /\ goal \in Places
          /\ Len(history) - KeepRecent \in Int
      BY <1>1, <2>1, <2>2, SizesAssumption DEF TypeOK, Places
    <3>2. CASE i <= goal
      BY <1>1, <2>4, <3>1, <3>2, RestsShrink
    <3>3. CASE ~(i <= goal)
      <4>1. saved.through < goal
        BY <2>3, <3>1 DEF TurnsToFold, Foldable
      <4>2. i \in Foldable
        BY <2>4, <3>1, <3>3, <4>1 DEF Foldable
      <4> QED
        BY <2>3, <3>3, <4>2 DEF TurnsToFold
    <3> QED
      BY <3>2, <3>3
  <2> QED
    BY <1>7, <2>1, <2>2, <2>4
<1>10. CASE SendDespiteFailure
  <2>1. Send(saved) /\ goal' = goal /\ phase = "fold"
    BY <1>10 DEF SendDespiteFailure
  <2>2. saved \in Summaries /\ saved.through \in Places /\ goal \in Places
    BY <1>1 DEF TypeOK
  <2>3. saved.through # goal
    BY <1>1, <2>1, <2>2 DEF Chosen, TurnsToFold, Foldable, Places, Summaries
  <2> QED
    BY <1>7, <2>1, <2>2, <2>3
<1>11. CASE Complete
  <2>1. PICK cost \in Replies :
          /\ history' = history \o <<Entry("user", message), Entry("assistant", cost)>>
          /\ reported' \in {0, PromptTokens(draft, from) + cost,
                            PromptTokens(draft, from) + cost + Undershoot}
    BY <1>11 DEF Complete
  <2>2. /\ phase = "reply" /\ phase' = "idle" /\ saved' = saved /\ model' = model
        /\ message' = message /\ goal' = goal /\ draft' = draft /\ from' = from
    BY <1>11 DEF Complete
  <2>3. reported' \in Nat
    <3>1. PromptTokens(draft, from) \in Nat
      BY <1>1, PromptsPriced DEF TypeOK
    <3>2. cost \in Nat /\ Undershoot \in Nat
      BY SizesAssumption
    <3> QED
      BY <2>1, <3>1, <3>2
  <2>4. Len(history') = Len(history) + 2 /\ Len(history) \in Nat
    BY <1>1, <2>1 DEF TypeOK
  <2>5. Places \subseteq Places'
    BY <2>4 DEF Places
  <2>6. Len(history') <= MaxEntries
    BY <1>1, <2>2, <2>4 DEF Asked
  <2>7. TypeOK'
    BY <1>1, <1>3, <2>2, <2>3, <2>5, <2>6 DEF TypeOK, Typed
  <2> QED
    BY <2>2, <2>7, NothingSent DEF Chosen, Asked
<1>12. CASE EndTurn
  <2>1. phase' = "idle" /\ UNCHANGED <<history, reported, saved, model, message, goal, draft, from>>
    BY <1>12 DEF EndTurn
  <2>2. TypeOK'
    BY <1>1, <2>1 DEF TypeOK, Places
  <2> QED
    BY <2>1, <2>2, NothingSent DEF Chosen, Asked
<1>13. CASE UNCHANGED vars
  <2>1. TypeOK'
    BY <1>1, <1>13 DEF vars, TypeOK, Places
  <2>2. Chosen' /\ Asked'
    BY <1>1, <1>13 DEF vars, Chosen, Asked, TurnsToFold, Foldable, RestFits, IsTurnBoundary, Tokens,
       TokensThrough, Places, NotesMax, Target, Trigger
  <2>3. DropsLeast'
    BY <1>1, <1>13 DEF vars, WindowFits, DropsLeast, IsTurnBoundary, PromptTokens, NotesTokens, Tokens,
       TokensThrough, Places, Trigger
  <2>4. FoldingSavesTurns'
    BY <1>1, <1>13 DEF vars, WindowFits, FoldingSavesTurns, RestFits, IsTurnBoundary, Tokens,
       TokensThrough, Places, NotesMax, Target
  <2>5. OverflowOnlyAfterSwitch'
    BY <1>1, <1>13 DEF vars, WindowFits, OverflowOnlyAfterSwitch, NotesMax, PromptTokens, NotesTokens,
       Tokens, TokensThrough, Places
  <2> QED
    BY <2>1, <2>2, <2>3, <2>4, <2>5 DEF WindowFits
<1> QED
  BY <1>4, <1>5, <1>6, <1>8, <1>9, <1>10, <1>11, <1>12, <1>13 DEF Next

\* Whatever is folded, fails or is switched: a prompt leaves out whole turns, the oldest
\* and no more than needed; folding spares the others; and it fits the model's context,
\* unless its summary was written for a larger one.  The settings must leave room for a
\* summary of the longest kind, as the defaults do: RatiosAssumption, which is all that the
\* environment's schema asks for, does not say so.
THEOREM PromptsFit ==
  ASSUME RoomForNotes
  PROVE  Spec => [](TypeOK /\ WindowFits)
<1>1. FitsInv /\ [Next]_vars => FitsInv'
  BY FitsKeeps
<1>2. FitsInv => TypeOK /\ WindowFits
  BY DEF FitsInv
<1> QED
  BY <1>1, <1>2, FitsInit, PTL DEF Spec

-----------------------------------------------------------------------------
(* The administrators' summaries and the calls to Ollama                   *)

\* Their sessions and the visitors' chats are the matter of another run.
Api == INSTANCE ApiProofs WITH
  Cards <- {"a"}, Others <- {"b", "d"}, MaxMessages <- 2, MaxFaults <- 1,
  count <- s1, exists <- s2, summary <- s3, lock <- s4, req <- s5, card <- s6,
  faults <- s7, overlapped <- s8,
  Tabs <- {"t", "u"}, Budget <- 2,
  row <- s1, login <- s2, replaced <- s3, jar <- s4, view <- s5, call <- s6, spent <- s7,
  Calls <- {}, MaxSessions <- 0,
  tab <- s1, created <- s2, revoked <- s3, expired <- s4, successor <- s5,
  signedOut <- s6, arriving <- s9, delivered <- s10,
  Requests <- {}, Chats <- {}, VisitorIds <- {},
  visitors <- s1, lapsed <- s2, owner <- s3, cookies <- s4, request <- s5, raced <- s6,
  lost <- s7,
  Kinds <- {"stream", "complete", "tags"}, Replies <- SomeReplies,
  kind <- s1, at <- s2, timers <- s3, fired <- s4, signal <- s5, listening <- s6,
  aborted <- s7, body <- s8, reply <- s9, pos <- s10, buffer <- s11, lines <- s12,
  said <- s13, outcome <- s14,
  Users <- {}, Guests <- {}, Nobody <- "nobody", Entries <- {}, Ranges <- {},
  OpenedLists <- {}, MaxRows <- 0, PageSize <- 1,
  log <- s1, sessions <- s2, chatting <- s3, walk <- s4, kept <- s5

\* The instance the run checks and the one that is proved about are the same.
LEMMA SameSummary ==
  /\ Refresh!Init <=> Api!Refresh!Init
  /\ Refresh!Next <=> Api!Refresh!Next
  /\ Refresh!TypeOK <=> Api!Refresh!TypeOK
  /\ Refresh!CoversThroughAnchor <=> Api!Refresh!CoversThroughAnchor
  /\ Refresh!NothingBilledTwice <=> Api!Refresh!NothingBilledTwice
  /\ Refresh!BoundsAssumption <=> Api!Refresh!BoundsAssumption
  /\ Refresh!summaryVars = Api!Refresh!summaryVars
<1>1. Refresh!Init <=> Api!Refresh!Init
  BY DEF Refresh!Gets, Api!Refresh!Gets, Refresh!Posts, Api!Refresh!Posts, Refresh!Requests,
         Api!Refresh!Requests, Refresh!NoSummary, Api!Refresh!NoSummary, Refresh!Unread,
         Api!Refresh!Unread, Refresh!UnreadSummary, Api!Refresh!UnreadSummary,
         Refresh!Nobody, Api!Refresh!Nobody, Refresh!NoState, Api!Refresh!NoState,
         Refresh!Idle, Api!Refresh!Idle, Refresh!Closed, Api!Refresh!Closed,
         Refresh!NewCard, Api!Refresh!NewCard, Refresh!Init, Api!Refresh!Init
<1>2. Refresh!Next <=> Api!Refresh!Next
  BY DEF Refresh!Get, Api!Refresh!Get, Refresh!Post, Api!Refresh!Post, Refresh!Gets,
         Api!Refresh!Gets, Refresh!Posts, Api!Refresh!Posts, Refresh!Requests,
         Api!Refresh!Requests, Refresh!NoSummary, Api!Refresh!NoSummary, Refresh!Unread,
         Api!Refresh!Unread, Refresh!UnreadSummary, Api!Refresh!UnreadSummary,
         Refresh!Nobody, Api!Refresh!Nobody, Refresh!chat, Api!Refresh!chat,
         Refresh!history, Api!Refresh!history, Refresh!NoState, Api!Refresh!NoState,
         Refresh!Idle, Api!Refresh!Idle, Refresh!Closed, Api!Refresh!Closed,
         Refresh!Running, Api!Refresh!Running, Refresh!Goto, Api!Refresh!Goto, Refresh!End,
         Api!Refresh!End, Refresh!Fault, Api!Refresh!Fault, Refresh!AssertChatExists,
         Api!Refresh!AssertChatExists, Refresh!Peek, Api!Refresh!Peek, Refresh!MayAcquire,
         Api!Refresh!MayAcquire, Refresh!Acquire, Api!Refresh!Acquire, Refresh!Look,
         Api!Refresh!Look, Refresh!ReadMessages, Api!Refresh!ReadMessages,
         Refresh!ReadSummary, Api!Refresh!ReadSummary, Refresh!Loaded, Api!Refresh!Loaded,
         Refresh!AnchorSeen, Api!Refresh!AnchorSeen, Refresh!Pending, Api!Refresh!Pending,
         Refresh!StateOf, Api!Refresh!StateOf, Refresh!Present, Api!Refresh!Present,
         Refresh!Previous, Api!Refresh!Previous, Refresh!Generate, Api!Refresh!Generate,
         Refresh!Complete, Api!Refresh!Complete, Refresh!Saved, Api!Refresh!Saved,
         Refresh!Save, Api!Refresh!Save, Refresh!Freed, Api!Refresh!Freed, Refresh!Release,
         Api!Refresh!Release, Refresh!UnderLock, Api!Refresh!UnderLock, Refresh!CallFails,
         Api!Refresh!CallFails, Refresh!Crash, Api!Refresh!Crash, Refresh!Expire,
         Api!Refresh!Expire, Refresh!Lapse, Api!Refresh!Lapse, Refresh!TurnCompletes,
         Api!Refresh!TurnCompletes, Refresh!DeleteChat, Api!Refresh!DeleteChat,
         Refresh!Begin, Api!Refresh!Begin, Refresh!Browse, Api!Refresh!Browse,
         Refresh!Stale, Api!Refresh!Stale, Refresh!Pair, Api!Refresh!Pair, Refresh!Polling,
         Api!Refresh!Polling, Refresh!Poll, Api!Refresh!Poll, Refresh!Refetch,
         Api!Refresh!Refetch, Refresh!Answered, Api!Refresh!Answered, Refresh!GetAnswered,
         Api!Refresh!GetAnswered, Refresh!PostSucceeded, Api!Refresh!PostSucceeded,
         Refresh!AfterConflict, Api!Refresh!AfterConflict, Refresh!PostConflicted,
         Api!Refresh!PostConflicted, Refresh!PostFailed, Api!Refresh!PostFailed,
         Refresh!EndConflict, Api!Refresh!EndConflict, Refresh!Mutate, Api!Refresh!Mutate,
         Refresh!AutoRefresh, Api!Refresh!AutoRefresh, Refresh!ShowsError,
         Api!Refresh!ShowsError, Refresh!Retry, Api!Refresh!Retry, Refresh!OtherPosts,
         Api!Refresh!OtherPosts, Refresh!OtherAnswered, Api!Refresh!OtherAnswered,
         Refresh!Serve, Api!Refresh!Serve, Refresh!PostAnswered, Api!Refresh!PostAnswered,
         Refresh!Next, Api!Refresh!Next, Refresh!Cardinality, Api!Refresh!Cardinality
<1>3. Refresh!CoversThroughAnchor <=> Api!Refresh!CoversThroughAnchor
  BY DEF Refresh!CoversThroughAnchor, Api!Refresh!CoversThroughAnchor
<1>4. Refresh!NothingBilledTwice <=> Api!Refresh!NothingBilledTwice
  BY DEF Refresh!Posts, Api!Refresh!Posts, Refresh!NothingBilledTwice,
         Api!Refresh!NothingBilledTwice
<1>5. Refresh!BoundsAssumption <=> Api!Refresh!BoundsAssumption
  BY DEF Refresh!BoundsAssumption, Api!Refresh!BoundsAssumption
<1>6. Refresh!summaryVars = Api!Refresh!summaryVars
  BY DEF Refresh!chat, Api!Refresh!chat, Refresh!history, Api!Refresh!history,
         Refresh!summaryVars, Api!Refresh!summaryVars
<1>7. Refresh!TypeOK <=> Api!Refresh!TypeOK
  BY DEF Refresh!Get, Api!Refresh!Get, Refresh!Post, Api!Refresh!Post, Refresh!Gets,
         Api!Refresh!Gets, Refresh!Posts, Api!Refresh!Posts, Refresh!Requests,
         Api!Refresh!Requests, Refresh!NoSummary, Api!Refresh!NoSummary, Refresh!Unread,
         Api!Refresh!Unread, Refresh!UnreadSummary, Api!Refresh!UnreadSummary,
         Refresh!Nobody, Api!Refresh!Nobody, Refresh!NoState, Api!Refresh!NoState,
         Refresh!Messages, Api!Refresh!Messages, Refresh!Summary, Api!Refresh!Summary, Refresh!State, Api!Refresh!State,
         Refresh!TypeOK, Api!Refresh!TypeOK
<1> QED
  BY <1>1, <1>2, <1>3, <1>4, <1>5, <1>6, <1>7

LEMMA SameCall ==
  /\ Ollama!Init <=> Api!Call!Init
  /\ Ollama!Next <=> Api!Call!Next
  /\ Ollama!TypeOK <=> Api!Call!TypeOK
  /\ Ollama!EndsTruthfully <=> Api!Call!EndsTruthfully
  /\ Ollama!OllamaAssumption <=> Api!Call!OllamaAssumption
  /\ Ollama!ollamaVars = Api!Call!ollamaVars
<1>1. Ollama!Init <=> Api!Call!Init
  BY DEF Ollama!NoReply, Api!Call!NoReply, Ollama!Init, Api!Call!Init
<1>2. Ollama!Next <=> Api!Call!Next
  BY DEF Ollama!Chunks, Api!Call!Chunks, Ollama!OllamaErrors, Api!Call!OllamaErrors,
         Ollama!Streaming, Api!Call!Streaming, Ollama!Caught, Api!Call!Caught,
         Ollama!TimersLeft, Api!Call!TimersLeft, Ollama!Settle, Api!Call!Settle,
         Ollama!Fails, Api!Call!Fails, Ollama!unchangedInput, Api!Call!unchangedInput,
         Ollama!Start, Api!Call!Start, Ollama!AfterHeaders, Api!Call!AfterHeaders,
         Ollama!HeadersFine, Api!Call!HeadersFine, Ollama!HeadersBad, Api!Call!HeadersBad,
         Ollama!ParseTags, Api!Call!ParseTags, Ollama!LinesIn, Api!Call!LinesIn,
         Ollama!Ended, Api!Call!Ended, Ollama!CarriedOver, Api!Call!CarriedOver,
         Ollama!Continue, Api!Call!Continue, Ollama!ReadPiece, Api!Call!ReadPiece,
         Ollama!ReadEnd, Api!Call!ReadEnd, Ollama!DrainBehind, Api!Call!DrainBehind,
         Ollama!ReadBroken, Api!Call!ReadBroken, Ollama!GoOn, Api!Call!GoOn, Ollama!Yield,
         Api!Call!Yield, Ollama!Leave, Api!Call!Leave, Ollama!Fire, Api!Call!Fire,
         Ollama!CallerAborts, Api!Call!CallerAborts, Ollama!Next, Api!Call!Next
<1>3. Ollama!EndsTruthfully <=> Api!Call!EndsTruthfully
  BY DEF Ollama!Chunks, Api!Call!Chunks, Ollama!Streaming, Api!Call!Streaming,
         Ollama!LinesIn, Api!Call!LinesIn, Ollama!FirstOf, Api!Call!FirstOf,
         Ollama!EndsTruthfully, Api!Call!EndsTruthfully
<1>4. Ollama!OllamaAssumption <=> Api!Call!OllamaAssumption
  BY DEF Ollama!Texts, Api!Call!Texts, Ollama!Symbols, Api!Call!Symbols,
         Ollama!OllamaAssumption, Api!Call!OllamaAssumption
<1>5. Ollama!ollamaVars = Api!Call!ollamaVars
  BY DEF Ollama!ollamaVars, Api!Call!ollamaVars
<1>6. Ollama!TypeOK <=> Api!Call!TypeOK
  BY DEF Ollama!NoReply, Api!Call!NoReply, Ollama!OllamaErrors, Api!Call!OllamaErrors,
         Ollama!TypeOK, Api!Call!TypeOK
<1> QED
  BY <1>1, <1>2, <1>3, <1>4, <1>5, <1>6

LEMMA SameSession ==
  /\ Session!Init <=> Api!Browser!Init
  /\ Session!Next <=> Api!Browser!Next
  /\ Session!TypeOK <=> Api!Browser!TypeOK
  /\ Session!WebSessionAssumption <=> Api!Browser!WebSessionAssumption
  /\ Session!webSessionVars = Api!Browser!webSessionVars
<1>1. Session!Init <=> Api!Browser!Init
  BY DEF Session!Roles, Api!Browser!Roles, Session!Slots, Api!Browser!Slots,
         Session!Sessions, Api!Browser!Sessions, Session!None, Api!Browser!None,
         Session!Idle, Api!Browser!Idle, Session!Init, Api!Browser!Init
<1>2. Session!Next <=> Api!Browser!Next
  BY DEF Session!Roles, Api!Browser!Roles, Session!Slots, Api!Browser!Slots,
         Session!Sessions, Api!Browser!Sessions, Session!None, Api!Browser!None,
         Session!Idle, Api!Browser!Idle, Session!Live, Api!Browser!Live, Session!Free,
         Api!Browser!Free, Session!NextFree, Api!Browser!NextFree, Session!Busy,
         Api!Browser!Busy, Session!Spend, Api!Browser!Spend, Session!Asking,
         Api!Browser!Asking, Session!Mutating, Api!Browser!Mutating, Session!Refetch,
         Api!Browser!Refetch, Session!Interval, Api!Browser!Interval, Session!Act,
         Api!Browser!Act, Session!CsrfArrives, Api!Browser!CsrfArrives, Session!Send,
         Api!Browser!Send, Session!Answer, Api!Browser!Answer, Session!Revoke,
         Api!Browser!Revoke, Session!Guarded, Api!Browser!Guarded, Session!ServeMe,
         Api!Browser!ServeMe, Session!ServeForbidden, Api!Browser!ServeForbidden,
         Session!ServeSignIn, Api!Browser!ServeSignIn, Session!ServeRefresh,
         Api!Browser!ServeRefresh, Session!ServeSignOut, Api!Browser!ServeSignOut,
         Session!Serve, Api!Browser!Serve, Session!OnUnauthorized,
         Api!Browser!OnUnauthorized, Session!Heard, Api!Browser!Heard, Session!Cookies,
         Api!Browser!Cookies, Session!DeliverLoad, Api!Browser!DeliverLoad,
         Session!DeliverAct, Api!Browser!DeliverAct, Session!Deliver,
         Api!Browser!Deliver, Session!Lose, Api!Browser!Lose, Session!AccessExpires,
         Api!Browser!AccessExpires, Session!RevokedElsewhere,
         Api!Browser!RevokedElsewhere, Session!Next, Api!Browser!Next
<1>3. Session!TypeOK <=> Api!Browser!TypeOK
  BY DEF Session!Roles, Api!Browser!Roles, Session!Slots, Api!Browser!Slots,
         Session!Sessions, Api!Browser!Sessions, Session!None, Api!Browser!None,
         Session!TypeOK, Api!Browser!TypeOK
<1>4. Session!WebSessionAssumption <=> Api!Browser!WebSessionAssumption
  BY DEF Session!WebSessionAssumption, Api!Browser!WebSessionAssumption
<1>5. Session!webSessionVars = Api!Browser!webSessionVars
  BY DEF Session!webSessionVars, Api!Browser!webSessionVars
<1> QED
  BY <1>1, <1>2, <1>3, <1>4, <1>5

\* What each component keeps is kept by the composition.
SummaryPart == part = "summary" => Api!SummaryInv
OllamaPart == part = "ollama" => Api!CallInv
SessionPart == part = "session" => Api!Browser!TypeOK

LEMMA SummaryKept ==
  /\ LiveInit => SummaryPart
  /\ SummaryPart /\ [LiveNext]_liveVars => SummaryPart'
  /\ SummaryPart => SummarySound /\ (part = "summary" => Refresh!TypeOK)
<1>0. Api!Refresh!BoundsAssumption
  BY LiveAssumption, SameSummary
<1>1. LiveInit => SummaryPart
  <2>1. LiveInit /\ part = "summary" => Refresh!Init
    BY DEF LiveInit
  <2> QED
    BY <1>0, <2>1, SameSummary, Api!SummaryInit DEF SummaryPart
<1>2. SummaryPart /\ [LiveNext]_liveVars => SummaryPart'
  <2> SUFFICES ASSUME SummaryPart, [LiveNext]_liveVars, part' = "summary"
               PROVE  Api!SummaryInv'
    BY DEF SummaryPart
  <2>1. part = "summary" /\ (Refresh!Next \/ UNCHANGED <<s1, s2, s3, s4, s5, s6, s7, s8>>)
    BY DEF LiveNext, WindowStep, SummaryStep, OllamaStep, SessionStep, liveVars, Rest0, Rest7
  <2>2. Api!SummaryInv /\ [Api!Refresh!Next]_(Api!Refresh!summaryVars)
    BY <2>1, SameSummary DEF SummaryPart, Api!Refresh!summaryVars, Api!Refresh!chat,
       Api!Refresh!history
  <2> QED
    BY <1>0, <2>2, Api!SummaryKeeps
<1>3. SummaryPart => SummarySound /\ (part = "summary" => Refresh!TypeOK)
  BY <1>0, SameSummary, Api!SummarySound DEF SummaryPart, SummarySound
<1> QED
  BY <1>1, <1>2, <1>3

LEMMA CallKept ==
  /\ LiveInit => OllamaPart
  /\ OllamaPart /\ [LiveNext]_liveVars => OllamaPart'
  /\ OllamaPart => EndsTruthfully /\ (part = "ollama" => Ollama!TypeOK)
<1>0. Api!Call!OllamaAssumption
  BY LiveAssumption, SameCall
<1>1. LiveInit => OllamaPart
  <2>1. LiveInit /\ part = "ollama" => Ollama!Init
    BY DEF LiveInit
  <2> QED
    BY <1>0, <2>1, SameCall, Api!CallInit DEF OllamaPart
<1>2. OllamaPart /\ [LiveNext]_liveVars => OllamaPart'
  <2> SUFFICES ASSUME OllamaPart, [LiveNext]_liveVars, part' = "ollama"
               PROVE  Api!CallInv'
    BY DEF OllamaPart
  <2>1. part = "ollama" /\ (Ollama!Next \/ UNCHANGED <<s1, s2, s3, s4, s5, s6, s7, s8, s9,
                                                       s10, s11, s12, s13, s14>>)
    BY DEF LiveNext, WindowStep, SummaryStep, OllamaStep, SessionStep, liveVars, Rest0, Rest7,
       Rest8
  <2>2. Api!CallInv /\ [Api!Call!Next]_(Api!Call!ollamaVars)
    BY <2>1, SameCall DEF OllamaPart, Api!Call!ollamaVars
  <2> QED
    BY <1>0, <2>2, Api!CallKeeps
<1>3. OllamaPart => EndsTruthfully /\ (part = "ollama" => Ollama!TypeOK)
  BY SameCall, Api!CallSound DEF OllamaPart, EndsTruthfully
<1> QED
  BY <1>1, <1>2, <1>3

LEMMA SessionKept ==
  /\ LiveInit => SessionPart
  /\ SessionPart /\ [LiveNext]_liveVars => SessionPart'
  /\ SessionPart => (part = "session" => Session!TypeOK)
<1>0. Api!Browser!WebSessionAssumption
  BY LiveAssumption, SameSession
<1>1. LiveInit => SessionPart
  <2>1. LiveInit /\ part = "session" => Session!Init
    BY DEF LiveInit
  <2> QED
    BY <1>0, <2>1, SameSession, Api!BrowserInit DEF SessionPart
<1>2. SessionPart /\ [LiveNext]_liveVars => SessionPart'
  <2> SUFFICES ASSUME SessionPart, [LiveNext]_liveVars, part' = "session"
               PROVE  Api!Browser!TypeOK'
    BY DEF SessionPart
  <2>1. part = "session" /\ (Session!Next \/ UNCHANGED <<s1, s2, s3, s4, s5, s6, s7>>)
    BY DEF LiveNext, WindowStep, SummaryStep, OllamaStep, SessionStep, liveVars, Rest0
  <2>2. Api!Browser!TypeOK /\ [Api!Browser!Next]_(Api!Browser!webSessionVars)
    BY <2>1, SameSession DEF SessionPart, Api!Browser!webSessionVars
  <2> QED
    BY <1>0, <2>2, Api!BrowserKeepsTypes
<1>3. SessionPart => (part = "session" => Session!TypeOK)
  BY SameSession DEF SessionPart
<1> QED
  BY <1>1, <1>2, <1>3

\* What an administrator's summary says covers exactly the messages up to its anchor, and
\* no message is billed twice unless a lease lapsed: refreshSummary of
\* admin-chat-summary.service.ts.
THEOREM SummariesStaySound == LiveSpec => []SummarySound
BY SummaryKept, PTL DEF LiveSpec

\* A call to Ollama hands out the lines of the body in order, what it says at its end is
\* what happened to it, and it leaves nothing armed: streamRequest of
\* ollama-client.service.ts.
THEOREM CallsEndTruthfully == LiveSpec => []EndsTruthfully
BY CallKept, PTL DEF LiveSpec

\* The same of the chats' own summaries, beside whatever else runs.
THEOREM PrefixStaysCovered == LiveSpec => []SummaryCoversPrefix
<1>1. LiveInit => WindowInv
  BY WindowInit DEF LiveInit, OffWindow
<1>2. [LiveNext]_liveVars => [Next]_vars
  BY DEF LiveNext, WindowStep, SummaryStep, OllamaStep, SessionStep, liveVars
<1>3. WindowInv => SummaryCoversPrefix
  BY DEF WindowInv
<1> QED
  BY <1>1, <1>2, <1>3, WindowKeeps, PTL DEF LiveSpec

\* The same of what a prompt carries, with the settings of the run.
THEOREM PromptsStayFit == LiveSpec => []WindowFits
<1>0. RoomForNotes
  BY LiveAssumption
<1>1. LiveInit => FitsInv
  BY FitsInit DEF LiveInit, OffWindow
<1>2. [LiveNext]_liveVars => [Next]_vars
  BY DEF LiveNext, WindowStep, SummaryStep, OllamaStep, SessionStep, liveVars
<1>3. FitsInv /\ [Next]_vars => FitsInv'
  BY <1>0, FitsKeeps
<1>4. FitsInv => WindowFits
  BY DEF FitsInv
<1> QED
  BY <1>1, <1>2, <1>3, <1>4, PTL DEF LiveSpec

\* The variables of the four components stay within their types: the entries, notes and
\* places of a chat's context, the summary and the requests for it, the timers, lines and
\* outcome of a call, and the cookies, sessions and calls of a browser.
THEOREM TypesStayLive == LiveSpec => []LiveTypes
<1>0. RoomForNotes
  BY LiveAssumption
<1> DEFINE Inv == FitsInv /\ SummaryPart /\ OllamaPart /\ SessionPart
<1>1. LiveInit => Inv
  BY FitsInit, SummaryKept, CallKept, SessionKept DEF LiveInit, OffWindow
<1>2. Inv /\ [LiveNext]_liveVars => Inv'
  <2>1. [LiveNext]_liveVars => [Next]_vars
    BY DEF LiveNext, WindowStep, SummaryStep, OllamaStep, SessionStep, liveVars
  <2> QED
    BY <1>0, <2>1, FitsKeeps, SummaryKept, CallKept, SessionKept
<1>3. Inv => LiveTypes
  BY SummaryKept, CallKept, SessionKept DEF FitsInv, LiveTypes
<1> QED
  BY <1>1, <1>2, <1>3, PTL DEF LiveSpec
=============================================================================
