----------------------------- MODULE CardStack -----------------------------
(***************************************************************************)
(* The stack of cards on the client's home screen: drags, keys and screen  *)
(* reader actions start a motion of the front card; when the motion ends   *)
(* the deck is told, and the next render puts the stack back for the card  *)
(* it then shows.  Meanwhile the deck changes by itself: more cards come,  *)
(* a load fails, cards are reshuffled.                                     *)
(*                                                                         *)
(* The deck changes in one step and is rendered in a later one; gestures   *)
(* and animation callbacks come in between and read what was rendered      *)
(* last.  A render and the effects it leaves behind are one step.          *)
(***************************************************************************)
EXTENDS Integers

CONSTANTS
    MaxCards,       \* bound: cards in the deck
    MaxComplexity,  \* MAX_CONCEPT_COMPLEXITY, 5 in the code
    None

VARIABLES
    deck,    \* the home screen's state: [count, index, pending, failed,
             \* offline, swapping, complexity]
    view,    \* what was rendered last of it: [count, index, status, locked]
    card,    \* shared values of the front card: [x, y, animating, exiting,
             \* peer, faded, turned]
    commit,  \* the motion under way: None, or what it will commit
    pan,     \* the finger: None, "x" or "y"
    spring,  \* the card springs home
    locks,   \* [behind, overlay]: cards pinned under and over the front one
    shownBehind,  \* the pinned card under the front one as last rendered
    moving,  \* deckMoving, and pulseDragging: the chrome takes no presses
    reduceMotion,
    enter,   \* how the last card came: "settled" or "faded"
    nav,     \* navIntentRef
    crossed, \* the card was sent another way than it was held (history)
    stayed   \* the last commit left index and status as rendered (history)

vars == <<deck, view, card, commit, pan, spring, locks, shownBehind, moving,
          reduceMotion, enter, nav, crossed, stayed>>

-----------------------------------------------------------------------------
IsLast(d) == d.index = d.count - 1
showDeckStatus(d) == IsLast(d) /\ d.pending /\ ~d.failed

ViewOf(d) == [count |-> d.count, index |-> d.index,
              status |-> showDeckStatus(d), locked |-> d.swapping]
Rendered == view = ViewOf(deck)

AtRest == [x |-> 0, y |-> 0, animating |-> FALSE, exiting |-> FALSE,
           peer |-> 0, faded |-> FALSE, turned |-> FALSE]
NoLocks == [behind |-> None, overlay |-> None]

canSwipeRight == view.index > 0 \/ view.status

(* lockBehindIndexForLeftCommit, lockBehindIndexForRightCommit and         *)
(* lockReturnOverlayIndexForRightCommit                                    *)
PinNext(l) == IF view.index + 1 < view.count
              THEN [l EXCEPT !.behind = view.index + 1] ELSE l
PinPrevious(l) == IF view.index > 0
                  THEN [l EXCEPT !.behind = view.index - 1] ELSE l

(* Mutant: the card on screen covers itself.                               *)
CoverFront(l) == IF view.index > 0 THEN [l EXCEPT !.overlay = view.index] ELSE l

CoverPrevious(l) == IF view.index > 0
                    THEN [l EXCEPT !.overlay = view.index - 1] ELSE l

-----------------------------------------------------------------------------
Init ==
    /\ \E n \in 1..MaxCards, c \in 1..MaxComplexity :
        deck = [count |-> n, index |-> 0, pending |-> FALSE, failed |-> FALSE,
                offline |-> FALSE, swapping |-> FALSE, complexity |-> c]
    /\ view = ViewOf(deck)
    /\ card = AtRest /\ commit = None /\ pan = None /\ spring = FALSE
    /\ locks = NoLocks /\ shownBehind = None /\ moving = FALSE
    /\ reduceMotion \in BOOLEAN
    /\ enter = "settled" /\ nav = None /\ crossed = FALSE /\ stayed = FALSE

-----------------------------------------------------------------------------
(* Motions.                                                                *)

(* What a commit does to the shared values: it slides the card out, or     *)
(* under reduced motion fades it and its peer where they are.              *)
Leaving(c, dir) ==
    LET peer == CASE dir = "right" /\ view.status -> 0
                  [] dir = "right" /\ ~view.status -> 1
                  [] OTHER -> -1
    IN
    IF reduceMotion
    THEN [c EXCEPT !.animating = TRUE, !.exiting = TRUE, !.peer = peer,
                   !.faded = dir # "right" \/ c.x > 0 \/ view.status]
    ELSE [c EXCEPT !.animating = TRUE, !.exiting = TRUE,
                   !.x = CASE dir = "left" -> -1 [] dir = "right" -> 1
                           [] OTHER -> @,
                   !.y = IF dir \in {"up", "down"} THEN 1 ELSE @]

Along(dir) == CASE dir = "left" -> card.x < 0
                [] dir = "right" -> card.x > 0
                [] OTHER -> card.x = 0

BeginCommit(dir) ==
    /\ card' = Leaving(card, dir)
    /\ crossed' = (~Along(dir) /\ (card.x # 0 \/ card.y # 0))
    /\ commit' = dir
    /\ spring' = (spring /\ (reduceMotion \/ dir \in {"left", "right"}))

springHome ==
    /\ card' = [card EXCEPT !.exiting = FALSE, !.peer = 0]
    /\ spring' = TRUE
    /\ locks' = [locks EXCEPT !.behind = None]
    /\ UNCHANGED <<commit, crossed>>

SpringEnds ==
    /\ spring
    /\ card' = [card EXCEPT !.x = 0, !.y = 0]
    /\ spring' = FALSE /\ moving' = FALSE
    /\ UNCHANGED <<deck, view, commit, pan, locks, shownBehind, reduceMotion,
                   enter, nav, crossed, stayed>>

(* A finger comes down and its drag is recognised; the vertical one not    *)
(* while the card leaves.                                                  *)
PanStarts(axis) ==
    /\ pan = None /\ ~view.locked
    /\ axis = "y" => ~card.animating
    /\ pan' = axis /\ moving' = TRUE
    /\ card' = IF axis = "y" THEN [card EXCEPT !.x = 0] ELSE card
    /\ UNCHANGED <<deck, view, commit, spring, locks, shownBehind,
                   reduceMotion, enter, nav, crossed, stayed>>

(* Dragging to the right pins the previous card under the front one, any   *)
(* other drag releases it; the loading face is only dragged to the right.  *)
PanXMoves(x, y) ==
    /\ pan = "x" /\ ~card.animating
    /\ view.status => x >= 0
    /\ reduceMotion => y = 0
    /\ card' = [card EXCEPT !.x = x, !.y = y]
    /\ spring' = FALSE
    /\ locks' = IF x > 0 /\ canSwipeRight THEN PinPrevious(locks)
                ELSE [locks EXCEPT !.behind = None]
    /\ UNCHANGED <<deck, view, commit, pan, shownBehind, moving, reduceMotion,
                   enter, nav, crossed, stayed>>

PanYMoves(y) ==
    /\ pan = "y" /\ ~card.animating
    /\ view.status => y = 0
    /\ card' = [card EXCEPT !.y = y]
    /\ spring' = FALSE
    /\ UNCHANGED <<deck, view, commit, pan, locks, shownBehind, moving,
                   reduceMotion, enter, nav, crossed, stayed>>

(* The finger is lifted; dir is what swipeCommitDirection makes of it.     *)
PanEnds(dir) ==
    /\ pan # None
    /\ pan' = None
    /\ CASE card.animating -> UNCHANGED <<card, commit, spring, locks, crossed>>
         [] ~card.animating /\ pan = "x" /\ dir = "left" /\ ~view.status ->
              BeginCommit("left") /\ locks' = PinNext(locks)
         [] ~card.animating /\ pan = "x" /\ dir = "right" /\ canSwipeRight ->
              /\ BeginCommit("right")
              /\ locks' = IF view.status THEN locks
                          ELSE PinPrevious(CoverPrevious(locks))
         [] ~card.animating /\ pan = "y" /\ dir \in {"up", "down"}
              /\ ~view.status ->
              BeginCommit(dir) /\ locks' = PinNext(locks)
         [] OTHER -> springHome
    /\ UNCHANGED <<deck, view, shownBehind, moving, reduceMotion, enter, nav,
                   stayed>>

(* canRunCardAction                                                        *)
CanRun(action) ==
    /\ ~card.animating /\ ~view.locked
    /\ IF action = "right" THEN view.index > 0 ELSE ~view.status

(* animateThenCommit, for keys, screen readers and the row of buttons.     *)
RunAction(dir) ==
    /\ CanRun(dir)
    /\ moving' = TRUE
    /\ BeginCommit(dir)
    /\ locks' = IF dir = "right" THEN CoverPrevious(locks) ELSE PinNext(locks)
    /\ UNCHANGED <<deck, view, pan, shownBehind, reduceMotion, enter, nav,
                   stayed>>

(* toggleFlip, from a tap or the flip action.                              *)
Flip ==
    /\ CanRun("flip")
    /\ card' = [card EXCEPT !.turned = ~@]
    /\ UNCHANGED <<deck, view, commit, pan, spring, locks, shownBehind,
                   moving, reduceMotion, enter, nav, crossed, stayed>>

-----------------------------------------------------------------------------
(* What the home screen does with a commit.                                *)

OnSwipeLeft(d) ==
    LET calm == [d EXCEPT !.failed = FALSE] IN
    CASE ~IsLast(d) -> [calm EXCEPT !.index = @ + 1, !.pending = FALSE]
      [] IsLast(d) /\ d.offline -> calm
      [] OTHER -> [calm EXCEPT !.pending = TRUE]

(* reduceSwipeRight                                                        *)
OnSwipeRight(d) ==
    IF d.pending \/ d.index = 0 THEN [d EXCEPT !.pending = FALSE]
    ELSE [d EXCEPT !.index = @ - 1]

clampComplexity(c) ==
    IF c < 1 THEN 1 ELSE IF c > MaxComplexity THEN MaxComplexity ELSE c

OnSwipeForwardVertical(d, dir) ==
    LET next == clampComplexity(d.complexity + (IF dir = "up" THEN 1 ELSE -1))
    IN IF d.swapping \/ next = d.complexity THEN d
       ELSE [d EXCEPT !.complexity = next, !.failed = FALSE,
                      !.pending = FALSE,
                      !.index = IF IsLast(d) THEN @ ELSE @ + 1]

Committed(d, dir) ==
    CASE dir = "left" -> OnSwipeLeft(d)
      [] dir = "right" -> OnSwipeRight(d)
      [] OTHER -> OnSwipeForwardVertical(d, dir)

(* The animation has finished: commitSwipeLeft, -Vertical or -Right.       *)
(* swipeAnimating stays set; only a render that shows another card or face *)
(* clears it.  The motion outlasts the render of the card it has pinned.   *)
MotionEnds ==
    /\ commit # None /\ shownBehind = locks.behind
    /\ deck' = Committed(deck, commit)
    /\ nav' = CASE commit # "right" -> "forward"
                [] commit = "right" /\ view.status -> "backward"
                [] OTHER -> "backwardGesture"
    /\ stayed' = (ViewOf(deck').index = view.index
                  /\ ViewOf(deck').status = view.status)
    /\ commit' = None
    /\ UNCHANGED <<view, card, pan, spring, locks, shownBehind, moving,
                   reduceMotion, enter, crossed>>

-----------------------------------------------------------------------------
(* Rendering.                                                              *)

(* resolveNavSettleIntent and deckEnterLandsSettled: a face that replaces  *)
(* the loading face without a commit, or after a step back from it, fades  *)
(* in.                                                                     *)
Enter(to) ==
    LET intent == CASE nav # None -> nav
                    [] nav = None /\ view.status /\ ~to.status ->
                         IF to.index > view.index THEN "forward"
                         ELSE "backward"
                    [] OTHER -> None
    IN IF reduceMotion \/ intent \in {None, "backwardGesture"}
          \/ (intent = "forward" /\ nav = "forward")
       THEN "settled" ELSE "faded"

(* The layout effect and the effects after it depend on the index and the  *)
(* status: when one of them changed, every motion is cancelled and the     *)
(* stack is put back.  A cancelled animation commits nothing.              *)
PutBack(to) ==
    /\ card' = AtRest /\ commit' = None /\ spring' = FALSE
    /\ locks' = NoLocks /\ shownBehind' = None
    /\ moving' = FALSE
    /\ enter' = Enter(to) /\ nav' = None

Render ==
    /\ ~Rendered \/ shownBehind # locks.behind
    /\ view' = ViewOf(deck)
    /\ IF view'.index # view.index \/ view'.status # view.status
       THEN PutBack(view')
       ELSE /\ shownBehind' = locks.behind
            /\ UNCHANGED <<card, commit, spring, locks, moving, enter, nav>>
    /\ UNCHANGED <<deck, pan, reduceMotion, crossed, stayed>>

-----------------------------------------------------------------------------
(* What the deck does by itself.                                           *)

(* applyAppendedBatch and applyComplexityTreeSwap: whoever waits is taken  *)
(* to the first new card by the first, and left on his card by the second. *)
(* A load-more in flight has cleared the failure of the one before.        *)
Appended(n) ==
    /\ ~deck.failed /\ n \in (deck.count + 1)..MaxCards
    /\ deck' = [deck EXCEPT !.count = n, !.pending = FALSE,
                  !.index = IF deck.pending THEN deck.count ELSE @]

AheadExchanged(n) ==
    /\ n \in (deck.index + 2)..MaxCards
    /\ deck' = [deck EXCEPT !.count = n, !.pending = FALSE]

(* A load-more fails; or batches were empty to the last.                   *)
LoadFails == ~deck.offline /\ deck' = [deck EXCEPT !.failed = TRUE]
NoNextIdea == deck' = [deck EXCEPT !.failed = TRUE, !.pending = FALSE]

(* Retry or Adjust on the status line, as the chrome allows.               *)
StatusPressed ==
    /\ ~moving /\ deck.failed
    /\ deck' = [deck EXCEPT !.failed = FALSE]

ConnectionChanges ==
    deck' = [deck EXCEPT !.offline = ~@, !.failed = @ /\ deck.offline]

(* A reshuffle begins on a card at rest; it ends on the next card with at  *)
(* least that one dealt, or on the same card with the rest kept or gone.   *)
(* It takes longer (gatherMs and minCueMs) than a motion, and its first    *)
(* render disables the drags.                                              *)
ReshuffleBegins ==
    /\ ~moving /\ ~deck.swapping
    /\ deck' = [deck EXCEPT !.swapping = TRUE, !.failed = FALSE]

ReshuffleEnds(dealt, n) ==
    /\ deck.swapping /\ commit = None /\ pan = None
    /\ n \in IF dealt THEN (deck.index + 2)..MaxCards
             ELSE {deck.index + 1, deck.count}
    /\ deck' = [deck EXCEPT !.swapping = FALSE, !.pending = FALSE,
                  !.index = IF dealt THEN @ + 1 ELSE @, !.count = n]

(* The network is slower than a render.                                    *)
DeckMoves ==
    /\ Rendered
    /\ \/ \E n \in 1..MaxCards :
            \/ Appended(n) \/ AheadExchanged(n)
            \/ \E dealt \in BOOLEAN : ReshuffleEnds(dealt, n)
       \/ LoadFails \/ NoNextIdea \/ StatusPressed \/ ConnectionChanges
       \/ ReshuffleBegins
    /\ UNCHANGED <<view, card, commit, pan, spring, locks, shownBehind,
                   moving, reduceMotion, enter, nav, crossed, stayed>>

-----------------------------------------------------------------------------
(* What the layers show.                                                   *)

(* deckBehindDisplayIndex, deckUnderlayDragProgress,                       *)
(* deckReducedMotionUnderlayPeer and                                       *)
(* deckUnderlayCommittedSideMatchesReveal: the card seen under the front   *)
(* one.  Past the end of the deck there is only a silhouette.              *)
BehindIndex == IF shownBehind = None THEN view.index + 1 ELSE shownBehind
RevealsPrevious == card.peer > 0 /\ card.x > 0
RevealsNext == card.x < 0 \/ card.y # 0 \/ card.peer < 0
SideMatches ==
    LET showsPrevious == BehindIndex = view.index - 1 IN
    /\ RevealsPrevious => showsPrevious
    /\ RevealsNext /\ ~RevealsPrevious => ~showsPrevious
Underlay ==
    IF /\ ~view.status /\ BehindIndex < view.count
       /\ card.x < 0 \/ (card.x = 0 /\ card.y # 0) \/ card.peer < 0
             \/ RevealsPrevious
       /\ SideMatches
    THEN BehindIndex ELSE None

(* The previous card, which slides in over the front one; under reduced    *)
(* motion it has faded out again when it was dragged.                      *)
Overlay ==
    LET i == IF locks.overlay = None THEN view.index - 1 ELSE locks.overlay
    IN IF /\ ~view.status /\ i >= 0
          /\ card.x > 0 \/ card.peer > 0
          /\ ~RevealsPrevious
       THEN i ELSE None

-----------------------------------------------------------------------------
Direction == {"left", "right", "up", "down"}

Fingers ==
    \/ \E axis \in {"x", "y"} : PanStarts(axis)
    \/ \E x \in -1..1, y \in 0..1 : PanXMoves(x, y)
    \/ \E y \in 0..1 : PanYMoves(y)
    \/ \E dir \in Direction \cup {None} : PanEnds(dir)

Next ==
    \/ Fingers
    \/ \E dir \in Direction : RunAction(dir)
    \/ Flip \/ SpringEnds \/ MotionEnds \/ Render
    \/ DeckMoves

Spec == Init /\ [][Next]_vars

-----------------------------------------------------------------------------
(* Properties.                                                             *)

TypeOK ==
    /\ deck.count \in 1..MaxCards /\ deck.index \in 0..(deck.count - 1)
    /\ deck.complexity \in 1..MaxComplexity
    /\ view.index \in 0..(view.count - 1)
    /\ {card.x, card.y, card.peer} \subseteq -1..1
    /\ commit \in Direction \cup {None} /\ pan \in {None, "x", "y"}
    /\ nav \in {None, "forward", "backward", "backwardGesture"}
    /\ locks \in [behind : 0..MaxCards \cup {None},
                  overlay : 0..MaxCards \cup {None}]
    /\ locks.overlay # None => locks.overlay < deck.count

(* The stack comes to rest: with no motion, no finger and everything       *)
(* rendered, the card lies where it belongs, nothing is pinned and the     *)
(* chrome takes presses -- unless the last commit moved nothing.           *)
Quiet == Rendered /\ commit = None /\ pan = None /\ ~spring
Rests == card = [AtRest EXCEPT !.turned = card.turned]
         /\ locks = NoLocks /\ ~moving
ComesToRest == Quiet => Rests \/ stayed

(* The card that a motion uncovers is the one it ends on, unless the card  *)
(* was held or sprang back on one side when it was sent to the other.      *)
UncoversWhatComes ==
    [][commit # None /\ deck' # deck /\ commit' = None
         /\ deck'.index # view.index /\ ~crossed
         => {Underlay, Overlay} \subseteq {None, deck'.index}]_vars

(* A commit forward is made from the card the motion began on.             *)
CommitsOnItsCard ==
    [][commit # None /\ commit # "right" /\ commit' = None /\ deck' # deck
         => deck.index = view.index]_vars
=============================================================================
