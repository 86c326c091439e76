------------------------------- MODULE Scroll -------------------------------
(***************************************************************************)
(* The scroll position of a conversation: useScrollTracking and the parts  *)
(* of MessageList, PromptNavigator and useChatStream that move it.         *)
(*                                                                         *)
(* A place in the conversation is a number: 0 is where the messages that   *)
(* were loaded first begin, older ones have negative places.  The browser  *)
(* works in frames (external): handlers and renders run between them; a    *)
(* frame first reports the scrolling, then the resizing, then the prompts  *)
(* that entered or left the band of the container where reading happens.   *)
(* A render's effects may run before the next frame or after it.           *)
(***************************************************************************)
EXTENDS Integers

CONSTANTS Prompts,     \* the places of the prompts; a page of messages begins with one
          View,        \* clientHeight
          Threshold,   \* BOTTOM_THRESHOLD_PX
          Band,        \* the part of View that is observed, ACTIVE_BAND_MARGIN
          Older,       \* height of a page of older messages; there is one
          MaxBelow,    \* bound: height of the rest
          Opened       \* heights of the chats that are opened: above, below, bubble

GeometryAssumption ==
  /\ {View, Band, Older} \subseteq Nat \ {0} /\ Band <= View
  /\ Threshold \in Nat /\ MaxBelow \in Nat /\ View < MaxBelow
  /\ Prompts \subseteq Int /\ 0 \in Prompts /\ \A p \in Prompts : p <= MaxBelow
  /\ Opened \subseteq {0, Older} \X (0 .. MaxBelow) \X (0 .. MaxBelow)
  /\ \A c \in Opened : c[2] + c[3] <= MaxBelow /\ (c[3] > 0 => c[2] \in Prompts)

Pending == MaxBelow + 1     \* PENDING_PROMPT_ID: the last of the prompts
Nobody == MaxBelow + 2      \* no prompt: null
NoAnchor == -1              \* null
Unseen == -1                \* neither has a frame shown the container yet
NoPlace == MaxBelow

VARIABLES
  above, below,     \* heights of the messages before and after place 0
  bubble,           \* and of the turn in progress that follows them, 0 if it is not shown
  top,              \* scrollTop
  moved,            \* a scroll event is due
  seen,             \* the scrollHeight that the ResizeObserver knows
  pinned, anchor,   \* pinnedRef, prependAnchorRef
  isAtBottom,
  loading,          \* isLoadingOlder
  due,              \* "refs", "observer": effects that set those refs back, and make the
                    \* IntersectionObserver anew; "report": its first, of all prompts
  watched,          \* the prompts it observes
  inBand,           \* those that it has reported in the band
  observed,         \* observedActiveId
  past              \* history variable: see Init

content == <<above, below, bubble>>
refs == <<pinned, anchor>>
highlight == <<watched, inBand, observed>>
scrollVars == <<content, top, moved, seen, refs, isAtBottom, loading, due, highlight, past>>

Height == above + below + bubble
Floor(height) == IF height > View THEN height - View ELSE 0
Clamp(y, height) == IF y < 0 THEN 0 ELSE IF y > Floor(height) THEN Floor(height) ELSE y
NearBottom(y, height) == height - y - View <= Threshold
Place == top - above                \* what the reader has at the upper edge
Rendered == {p \in Prompts : p \in -above .. below - 1} \cup {p \in {Pending} : bubble > 0}
PlaceOf(p) == IF p = Pending THEN below ELSE p

\* A turn begins with its prompt.
Begins(h) == h \in Prompts

\* left: the reader may have gone from the end, or a frame brought too much at once, or a
\* chat has been opened whose end is not shown; place: where older messages were asked for,
\* as long as nothing else happens; at: the place of the last frame; astray: no prompt has
\* come into the band since more than it was skipped between frames, or since the prompt
\* that was read went with its turn.
Init ==
  /\ \E c \in Opened : c[1] = 0 /\ above = 0 /\ below = c[2] /\ bubble = c[3]
  /\ top = 0 /\ moved = FALSE /\ seen = Unseen
  /\ pinned = TRUE /\ anchor = NoAnchor /\ isAtBottom = TRUE /\ loading = FALSE
  /\ due = {"report"} /\ watched = Rendered /\ inBand = {} /\ observed = Nobody
  /\ past = [left |-> FALSE, place |-> NoPlace, at |-> 0, astray |-> TRUE]

\* The content changes, or the position: the browser keeps it within the content, and is
\* going to tell if it moved.  If it is, or if the height is back at the one that the
\* ResizeObserver knows, so that it keeps silent, the end must not be gone by then.
MovesTo(y) ==
  /\ top' = Clamp(y, Height')
  /\ moved' = (moved \/ top' # top)
HasGone == ~NearBottom(top, Height) /\ (moved \/ Height = seen)
Note(change) == due' = IF change THEN due \cup {"observer"} ELSE due

-----------------------------------------------------------------------------
(* Between frames                                                          *)

\* The turn in progress is shown, and gets longer.
Stream(h) ==
  /\ Begins(below) /\ below + bubble + h <= MaxBelow
  /\ bubble' = bubble + h /\ UNCHANGED <<above, below>>
  /\ MovesTo(top)
  /\ Note(Rendered' # Rendered)
  /\ UNCHANGED <<seen, refs, isAtBottom, loading, highlight>>
  /\ past' = [past EXCEPT !.place = NoPlace, !.left = @ \/ HasGone']

\* The turn is over: its bubble is not shown any more, its messages not before they have
\* been read and pending is null.
EndTurn ==
  /\ bubble > 0 /\ bubble' = 0
  /\ UNCHANGED <<above, below>>
  /\ MovesTo(top)
  /\ Note(TRUE)
  /\ UNCHANGED <<seen, refs, isAtBottom, loading, highlight>>
  /\ past' = [past EXCEPT !.place = NoPlace, !.left = @ \/ HasGone', !.astray = @ \/ observed = Pending]

\* The messages come, also without a frame since the bubble was there, or of more turns.
RowsArrive(h) ==
  /\ below + h <= MaxBelow
  /\ below' = below + h /\ bubble' = 0 /\ UNCHANGED above
  /\ MovesTo(top)
  /\ Note(Rendered' # Rendered)
  /\ UNCHANGED <<seen, refs, isAtBottom, loading, highlight>>
  /\ past' = [past EXCEPT !.place = NoPlace, !.left = @ \/ HasGone', !.astray = @ \/ observed = Pending]

Read(y) ==
  /\ y \in 0 .. Floor(Height) /\ y # top
  /\ UNCHANGED content
  /\ MovesTo(y)
  /\ past' = [past EXCEPT !.place = NoPlace, !.left = TRUE]
  /\ UNCHANGED <<seen, refs, isAtBottom, loading, due, highlight>>

\* preserveScrollPosition.  (..FromTop: the distance from the top.)
KeptFromTop == top
Kept == Height - top

\* "Load earlier messages".
LoadOlder ==
  /\ above = 0 /\ ~loading
  /\ anchor' = Kept
  /\ loading' = TRUE
  /\ past' = [past EXCEPT !.place = IF moved \/ Height # seen THEN NoPlace ELSE Place,
                          !.left = @ \/ Height # seen]
  /\ UNCHANGED <<content, top, moved, seen, pinned, isAtBottom, due, highlight>>

OlderArrive ==
  /\ loading /\ loading' = FALSE
  /\ above' = Older /\ UNCHANGED <<below, bubble>>
  /\ MovesTo(top)
  /\ Note(Rendered' # Rendered)
  /\ UNCHANGED <<seen, refs, isAtBottom, highlight>>
  /\ past' = [past EXCEPT !.left = @ \/ moved \/ HasGone']

OlderFail ==
  /\ loading /\ loading' = FALSE
  /\ UNCHANGED <<content, top, moved, seen, refs, isAtBottom, due, highlight, past>>

\* "Jump to latest", and a send.
ScrollToBottom ==
  /\ pinned' = TRUE /\ isAtBottom' = TRUE
  /\ UNCHANGED content
  /\ MovesTo(Height)
  /\ past' = [past EXCEPT !.left = anchor # NoAnchor, !.place = NoPlace]
  /\ UNCHANGED <<seen, anchor, loading, due, highlight>>

\* A prompt of the navigator is selected.  A smooth scroll takes several frames, of which
\* this is the last; on the way the reader's scrolling is like it.
ScrollToPrompt(p) ==
  /\ p \in Rendered
  /\ pinned' = FALSE
  /\ UNCHANGED content
  /\ MovesTo(PlaceOf(p) + above)
  /\ past' = [past EXCEPT !.left = TRUE, !.place = NoPlace]
  /\ UNCHANGED <<seen, anchor, isAtBottom, loading, due, highlight>>

\* Another chat is opened.  Its messages take the place of those shown, in the same
\* container, if they are at hand ...
Reset(c) ==
  /\ above' = c[1] /\ below' = c[2] /\ bubble' = c[3]
  /\ MovesTo(top)
  /\ isAtBottom' = TRUE /\ observed' = Nobody
  /\ loading' \in {b \in BOOLEAN : b => above' = 0}
  /\ due' = due \cup {"refs", "observer"}
  /\ past' = [left |-> TRUE, place |-> NoPlace, at |-> 0, astray |-> TRUE]
  /\ UNCHANGED <<seen, refs, watched, inBand>>

\* ... or else come, once they are loaded, in a container of their own.
Remount(c) ==
  /\ c[1] = 0 /\ above' = 0 /\ below' = c[2] /\ bubble' = c[3]
  /\ top' = 0 /\ moved' = FALSE /\ seen' = Unseen
  /\ pinned' = TRUE /\ anchor' = NoAnchor /\ isAtBottom' = TRUE /\ loading' = FALSE
  /\ due' = {"report"} /\ watched' = Rendered' /\ inBand' = {} /\ observed' = Nobody
  /\ past' = [left |-> FALSE, place |-> NoPlace, at |-> 0, astray |-> TRUE]

\* The effects of the renders: pinnedRef and prependAnchorRef are set back after a change
\* of chat, the IntersectionObserver is made anew after a change of the prompts.
RunEffects ==
  /\ due \cap {"refs", "observer"} # {}
  /\ due' = (due \ {"refs", "observer"}) \cup {e \in {"report"} : "observer" \in due}
  /\ pinned' = (pinned \/ "refs" \in due)
  /\ anchor' = IF "refs" \in due THEN NoAnchor ELSE anchor
  /\ watched' = IF "observer" \in due THEN Rendered ELSE watched
  /\ inBand' = IF "observer" \in due THEN {} ELSE inBand
  /\ past' = IF "refs" \in due
                THEN [past EXCEPT !.place = NoPlace, !.left = HasGone \/ ~isAtBottom] ELSE past
  /\ UNCHANGED <<content, top, moved, seen, isAtBottom, loading, observed>>

-----------------------------------------------------------------------------
(* A frame                                                                 *)

\* onScroll.
PinnedNow == IF moved THEN NearBottom(top, Height) ELSE pinned

\* The ResizeObserver's callback, when the size has changed.
Settled == IF Height = seen THEN top
           ELSE IF anchor # NoAnchor THEN Clamp(Height - anchor, Height)
           ELSE IF PinnedNow THEN Floor(Height) ELSE top

InBand(p, y) == PlaceOf(p) \in y - above .. y - above + Band - 1
LastOf(S) == IF S = {} THEN Nobody ELSE CHOOSE p \in S : \A q \in S : q <= p

\* The prompts that are observed and still there.
Present == watched \cap Rendered

\* The IntersectionObserver's callback: an entry for each prompt that came into the band
\* or left it, in order.  The last that came in is what is read; if none did, and that
\* prompt left downwards, it is the one before, of those there were when it was made.
Before(p) == LastOf({q \in watched : q < p})
LeavesDown(p, y) == PlaceOf(p) >= y - above + Band
HasEntry(p, y) == "report" \in due \/ InBand(p, y) # (p \in inBand)
CameIn(y) == {p \in Present : HasEntry(p, y) /\ InBand(p, y)}
Observe(y) ==
  IF CameIn(y) # {} THEN LastOf(CameIn(y))
  ELSE IF observed \in Present /\ HasEntry(observed, y) /\ LeavesDown(observed, y)
    THEN Before(observed) ELSE observed

\* More than the band is skipped; or a prompt could be that is not observed yet.
Skips(place) ==
  \/ place - past.at \notin -Band .. Band
  \/ place # past.at /\ "observer" \in due

Frame ==
  /\ pinned' = PinnedNow
  /\ isAtBottom' = IF moved THEN PinnedNow ELSE isAtBottom
  /\ top' = Settled
  /\ anchor' = IF Height = seen THEN anchor ELSE NoAnchor
  /\ seen' = Height
  /\ moved' = (top' # top)
  /\ due' = due \ {"report"}
  /\ inBand' = {p \in Present : InBand(p, top')}
  /\ observed' = Observe(top')
  /\ past' = [past EXCEPT !.at = top' - above,
                          !.astray = (@ \/ Skips(top' - above)) /\ CameIn(top') = {}]
  /\ UNCHANGED <<content, loading, watched>>

Next ==
  \/ \E h \in 1 .. Threshold + 1 : Stream(h)
  \/ EndTurn
  \/ \E h \in 1 .. MaxBelow : RowsArrive(h)
  \/ \E y \in 0 .. Older + MaxBelow : Read(y)
  \/ LoadOlder \/ OlderArrive \/ OlderFail \/ ScrollToBottom
  \/ \E p \in Prompts \cup {Pending} : ScrollToPrompt(p)
  \/ \E c \in Opened : Reset(c) \/ Remount(c)
  \/ RunEffects \/ Frame

Spec == Init /\ [][Next]_scrollVars

-----------------------------------------------------------------------------
(* Properties                                                              *)

Offsets == -Older .. Older + MaxBelow
TypeOK ==
  /\ above \in {0, Older} /\ {below, bubble} \subseteq 0 .. MaxBelow
  /\ top \in 0 .. Older + MaxBelow /\ moved \in BOOLEAN
  /\ seen \in {Unseen} \cup 0 .. Older + MaxBelow
  /\ pinned \in BOOLEAN /\ anchor \in {NoAnchor} \cup 0 .. Older + MaxBelow
  /\ isAtBottom \in BOOLEAN /\ loading \in BOOLEAN
  /\ due \subseteq {"refs", "observer", "report"}
  /\ watched \subseteq Prompts \cup {Pending} /\ inBand \subseteq watched
  /\ observed \in Prompts \cup {Pending, Nobody}
  /\ past \in [left : BOOLEAN, place : Offsets, at : Offsets, astray : BOOLEAN]

AtRest == ~moved /\ Height = seen

\* A stream is followed to its end as long as the reader does not scroll, and "Jump to
\* latest" is not offered: neither the answers, nor older messages, nor the scrolling that
\* the hook and the browser do of themselves unpin the view, nor does the turn that
\* disappears before its messages come.  But what comes in one frame may be too much: by
\* more than the threshold while a scrolling is still to be reported, or as much as has
\* just gone.  And a chat that is opened over one of the same height stays where that was.
FollowsTheEnd ==
  AtRest /\ ~past.left => pinned /\ isAtBottom /\ NearBottom(top, Height)

\* Older messages come in above the place where they were asked for, and that place stays
\* where it was, or as near as the end allows: unless the reader scrolled, or the turn or the
\* chat changed meanwhile.
KeepsThePlace ==
  AtRest /\ above = Older /\ past.place # NoPlace => top = Clamp(above + past.place, Height)

\* The prompt that is read is the last one that crossed the band, once one came into it,
\* as long as no more than the band is scrolled from frame to frame and the turns are not
\* shorter than the band; whatever comes, and replaces the prompts that are observed.
Spaced == \A p, q \in Prompts : p < q => p + Band <= q
LastCrossed == LastOf({p \in Rendered : PlaceOf(p) < Place + Band})
HighlightsTheRead == Spaced /\ AtRest /\ due = {} /\ ~past.astray => observed = LastCrossed

ReadingSound == FollowsTheEnd /\ KeepsThePlace /\ HighlightsTheRead
=============================================================================
