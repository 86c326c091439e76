------------------------------ MODULE MCScroll ------------------------------
(***************************************************************************)
(* An instance of Scroll for TLC, of two chats that are as high.           *)
(***************************************************************************)
EXTENDS Scroll

VARIABLE opening   \* a chat was opened while nothing was under way, and since then only the
                   \* browser did something

ThreePrompts == {-2, 0, 2}
TwoChats == {<<0, 4, 0>>, <<2, 2, 0>>}

OpeningInit == Init /\ opening = FALSE
OpeningNext ==
  /\ Next
  /\ seen = Unseen => Frame     \* a reader acts on what a frame has shown
  /\ opening' = \/ AtRest /\ due = {} /\ "refs" \in due'
                \/ opening /\ (RunEffects \/ Frame)
OpeningSpec == OpeningInit /\ [][OpeningNext]_<<scrollVars, opening>>

\* "A different conversation starts pinned to the bottom": once the effects of its opening
\* have run and the frames have shown what they changed, its end is in sight.
OpensAtTheEnd == opening /\ AtRest /\ due = {} => pinned /\ NearBottom(top, Height)
=============================================================================
