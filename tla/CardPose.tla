------------------------------ MODULE CardPose ------------------------------
(***************************************************************************)
(* How the stack is drawn while a card is dragged, leaves or springs back  *)
(* (cardSwipe.ts, the pan gestures and animated styles of                  *)
(* ConceptCardStack): the front card, the underlay beneath it and the      *)
(* previous card, which slides in over it.  Each is drawn by formulas of   *)
(* the same few shared values; CardStack says when those change and which  *)
(* cards are pinned, here is what is seen of it, in lengths and angles,    *)
(* frame by frame.  On a back that scrolls, a vertical drag is the         *)
(* scroll's until its edge, and then the card's.                           *)
(*                                                                         *)
(* Lengths are in points, angles in tenths of a degree, fractions in       *)
(* thousandths, opacities and time in frames of an exit.  The loading face *)
(* is left out.                                                            *)
(***************************************************************************)
EXTENDS Integers, FiniteSetsExt

CONSTANTS
    W, H,       \* size of the card
    Frames,     \* frames of an exit (exitMs, reducedMotionCrossfadeMs)
    DragX, DragY, \* where a finger on the horizontal pan may be
    Reach,      \* bound: how far one goes on the vertical pan
    ScrollRanges, \* how far the back may scroll: 0 on the front
    None

VARIABLES
    x, y,       \* translateX, translateY
    home,       \* axes that spring back
    hand,       \* "none", "down" (undecided), or the pan: "x", "y"
    finger,     \* [x, y, edge, origin, skips]: its way since it came down;
                \* edgeStartY or None, handoffOriginY; the scroll was
                \* reported at one edge and next at the other (history)
    back,       \* [range, at, seen]: the scroll of the back and what
                \* onScroll reported of it
    exit,       \* the exit: [dir, at, fromX, fromY, fades, release] or None
    peer,       \* rmPeerLayerSV
    behind,     \* the card of the underlay: "next", "previous"
    reduceMotion, canGoBack,
    odd         \* the card was sent off while it sprang back, or another way
                \* than it was held (history)

vars == <<x, y, home, hand, finger, back, exit, peer, behind, reduceMotion,
          canGoBack, odd>>

Step == 20      \* a move of the finger on the vertical pan
Abs(n) == IF n < 0 THEN -n ELSE n
Sign(n) == IF n < 0 THEN -1 ELSE IF n > 0 THEN 1 ELSE 0
Part(of, whole) == Min({1000, (Abs(of) * 1000) \div whole})  \* swipeAxisProgress
NewFinger == [x |-> 0, y |-> 0, edge |-> None, origin |-> 0, skips |-> FALSE]

-----------------------------------------------------------------------------
(* What the gestures make of a finger.                                     *)

swipeCommitDirection(way, fling, extent) ==
    IF 10 * Abs(way) >= 3 * extent THEN Sign(way) ELSE fling

applyStartOfHistoryResistance(way) ==
    IF canGoBack \/ way <= 0 THEN way ELSE (way * 35) \div 100

cardSwipeFollowY(way) ==
    IF reduceMotion THEN 0 ELSE Sign(way) * ((Abs(way) * 15) \div 100)

SWIPE_BACK_FACE_SCROLL_HANDOFF_PX == 24

(* Where the card takes over from the scroll, or None.                     *)
backFaceVerticalHandoffOrigin(way, edge, atTop, atBottom) ==
    LET past == way - edge IN
    IF atBottom /\ past < -SWIPE_BACK_FACE_SCROLL_HANDOFF_PX
    THEN edge - SWIPE_BACK_FACE_SCROLL_HANDOFF_PX
    ELSE IF atTop /\ past > SWIPE_BACK_FACE_SCROLL_HANDOFF_PX
    THEN edge + SWIPE_BACK_FACE_SCROLL_HANDOFF_PX
    ELSE None

-----------------------------------------------------------------------------
(* What is drawn.                                                          *)

Cover == IF x > 0 THEN Part(x, W) ELSE 0
frontX == IF x < 0 THEN x ELSE 0
Horizontal == Abs(frontX) >= Abs(y)

cardSwipeDragTiltZDeg(tx) ==
    LET p == Part(tx, W) IN
    IF reduceMotion THEN 0
    ELSE Sign(tx) * (IF p <= 500 THEN (80 * p) \div 500
                     ELSE 80 + (40 * (p - 500)) \div 500)

cardSwipeExitTiltZDeg(release, at) ==
    -(Abs(release) + ((140 - Abs(release)) * at) \div Frames)

ExitProgress == IF exit # None /\ exit.dir = "left" THEN exit.at ELSE 0

(* The rotation of the front card: about its foot, or as it rolls when it  *)
(* moves up or down.                                                       *)
FrontTilt ==
    IF reduceMotion THEN 0
    ELSE IF ~Horizontal THEN Sign(y) * ((30 * Part(y, H)) \div 1000)
    ELSE IF frontX = 0 THEN 0
    ELSE IF ExitProgress > 0
         THEN cardSwipeExitTiltZDeg(exit.release, ExitProgress)
         ELSE cardSwipeDragTiltZDeg(frontX)
cardSwipePitchDeg ==
    IF reduceMotion \/ Horizontal THEN 0
    ELSE -Sign(y) * ((60 * Part(y, H)) \div 1000)

frontCommitOpacity ==
    IF exit # None /\ exit.fades THEN Frames - exit.at ELSE Frames
peerCommitOpacity == IF exit # None /\ peer # 0 THEN exit.at ELSE 0

(* The underlay: how far it is revealed.                                   *)
deckUnderlayDragProgress ==
    IF x < 0 THEN Max({Part(x, W), Part(y, H)})
    ELSE IF x = 0 THEN Part(y, H) ELSE 0

(* Mutant: only a coming next card is uncovered by the fade.               *)
UnderlayPeerOfNext ==
    IF peer < 0 THEN Part(peerCommitOpacity, Frames) ELSE 0

deckReducedMotionUnderlayPeer ==
    IF peer < 0 \/ (peer > 0 /\ x > 0)
    THEN Part(peerCommitOpacity, Frames) ELSE 0
Revealed == Max({deckUnderlayDragProgress, deckReducedMotionUnderlayPeer})
SideMatches ==
    LET previous == peer > 0 /\ x > 0 IN
    /\ previous => behind = "previous"
    /\ ~previous /\ (x < 0 \/ y # 0 \/ peer < 0) => behind = "next"
UnderlayIsSeen == Revealed > 0 /\ SideMatches
deckUnderlayReveal ==
    [scale |-> IF reduceMotion THEN 1000 ELSE 950 + (50 * Revealed) \div 1000,
     tint |-> (22 * (1000 - Revealed)) \div 100]

(* The previous card over the front one.                                   *)
OverlayPeer == IF peer > 0 THEN peerCommitOpacity ELSE 0
deckReturnOverlayTranslateX ==
    IF x > 0 THEN x - W ELSE IF OverlayPeer > 0 THEN 0 ELSE -W
deckReturnOverlayOpacity ==
    IF ~canGoBack \/ ~(x > 0 \/ OverlayPeer > 0) THEN 0
    ELSE IF x > 0 THEN Frames - OverlayPeer ELSE OverlayPeer
cardReturnOverlayTiltZDeg ==
    IF reduceMotion THEN 0 ELSE -((100 * (1000 - Part(x, W))) \div 1000)

-----------------------------------------------------------------------------
AtRest(d) ==
    /\ x = 0 /\ y = 0 /\ home = {} /\ hand = "none"
    /\ finger = NewFinger /\ back = [range |-> d, at |-> 0, seen |-> 0]
    /\ exit = None /\ peer = 0 /\ behind = "next" /\ odd = FALSE
Init ==
    /\ reduceMotion \in BOOLEAN /\ canGoBack \in BOOLEAN
    /\ \E d \in ScrollRanges : AtRest(d)

(* onTouchesDown                                                           *)
TouchDown ==
    /\ hand = "none"
    /\ hand' = "down" /\ finger' = NewFinger
    /\ UNCHANGED <<x, y, home, back, exit, peer, behind, reduceMotion, canGoBack,
                   odd>>

PanXStarts ==
    /\ hand = "down" /\ Abs(finger.y) <= Step
    /\ hand' = "x"
    /\ UNCHANGED <<x, y, home, finger, back, exit, peer, behind, reduceMotion,
                   canGoBack, odd>>

(* onUpdate of panX; the underlay is pinned with it.                       *)
PanXMoves(tx, ty) ==
    /\ hand = "x" /\ exit = None
    /\ finger' = [finger EXCEPT !.x = tx, !.y = ty]
    /\ x' = applyStartOfHistoryResistance(tx)
    /\ y' = cardSwipeFollowY(ty)
    /\ home' = {}
    /\ behind' = IF x' > 0 /\ canGoBack THEN "previous" ELSE "next"
    /\ UNCHANGED <<hand, back, exit, peer, reduceMotion, canGoBack, odd>>

(* The back scrolls with the finger until the card has taken over.         *)
ScrollBy(d) == Max({0, Min({back.range, back.at - d})})

AtTop(scrolled) == scrolled <= 1
AtBottom(scrolled) == scrolled >= back.range - 1

(* onTouchesMove of panY: on a back that scrolls the card takes over only  *)
(* past the edge, as counted from where the finger was when the scroll     *)
(* came to lie at it -- of no use once it has.  (Bound: there the finger   *)
(* moves only on a card at rest.)                                          *)
TouchMoves(d) ==
    LET way == finger.y + d
        canScroll == back.range > 1
        atTop == AtTop(back.seen)
        atBottom == AtBottom(back.seen)
        edge == IF finger.edge = None THEN way ELSE finger.edge
        origin == backFaceVerticalHandoffOrigin(way, edge, atTop, atBottom)
        takesOver == IF canScroll THEN (atTop \/ atBottom) /\ origin # None
                     ELSE TRUE IN
    /\ hand = "down" /\ exit = None /\ Abs(way) <= Reach
    /\ canScroll => home = {}
    /\ finger' = [finger EXCEPT
                    !.y = way,
                    !.edge = IF canScroll /\ (atTop \/ atBottom) /\ ~takesOver
                             THEN edge ELSE None,
                    !.origin = IF canScroll /\ takesOver THEN origin ELSE @,
                    !.skips = @ /\ ~takesOver]
    /\ hand' = IF takesOver THEN "y" ELSE "down"
    /\ x' = IF takesOver THEN 0 ELSE x
    /\ home' = IF takesOver THEN home \ {"x"} ELSE home
    /\ back' = IF takesOver THEN back ELSE [back EXCEPT !.at = ScrollBy(d)]
    /\ UNCHANGED <<y, exit, peer, behind, reduceMotion, canGoBack, odd>>

onScroll ==
    /\ back.seen # back.at
    /\ back' = [back EXCEPT !.seen = back.at]
    /\ finger' = IF /\ hand = "down"
                    /\ \/ AtTop(back.seen) /\ AtBottom(back.at)
                       \/ AtBottom(back.seen) /\ AtTop(back.at)
                 THEN [finger EXCEPT !.skips = TRUE] ELSE finger
    /\ UNCHANGED <<x, y, home, hand, exit, peer, behind, reduceMotion,
                   canGoBack, odd>>

cardSwipeTranslationAfterHandoff(f) == f.y - f.origin

(* onUpdate of panY                                                        *)
PanYMoves(d) ==
    /\ hand = "y" /\ exit = None /\ Abs(finger.y + d) <= Reach
    /\ finger' = [finger EXCEPT !.y = @ + d]
    /\ y' = cardSwipeTranslationAfterHandoff(finger')
    /\ home' = home \ {"y"}
    /\ UNCHANGED <<x, hand, back, exit, peer, behind, reduceMotion, canGoBack,
                   odd>>

-----------------------------------------------------------------------------
(* The card leaves.  Under reduced motion it fades where it is, but not    *)
(* below a previous card that fades in at rest (byPan or with x <= 0).     *)
Leaves(dir, byPan) ==
    /\ exit' = [dir |-> dir, at |-> 0, fromX |-> x, fromY |-> y,
                fades |-> reduceMotion
                          /\ (dir = "right" => byPan /\ x > 0),
                release |-> cardSwipeDragTiltZDeg(x)]
    /\ peer' = IF ~reduceMotion THEN 0 ELSE IF dir = "right" THEN 1 ELSE -1
    /\ behind' = CASE dir = "right" /\ byPan -> "previous"
                   [] dir = "right" /\ ~byPan -> behind
                   [] OTHER -> "next"
    /\ home' = IF reduceMotion THEN home
               ELSE home \ {IF dir \in {"left", "right"} THEN "x" ELSE "y"}
    /\ odd' = \/ home # {}
              \/ dir = "left" /\ x > 0
              \/ dir = "right" /\ x < 0
              \/ dir \in {"up", "down"} /\ x # 0

springHome ==
    /\ home' = {"x", "y"} /\ peer' = 0 /\ behind' = "next"
    /\ UNCHANGED <<exit, odd>>

(* onEnd; the velocity counts when the way is short.                       *)
PanEnds(fling) ==
    LET dir == IF hand = "x" THEN swipeCommitDirection(finger.x, fling, W)
               ELSE swipeCommitDirection(
                      cardSwipeTranslationAfterHandoff(finger), fling, H) IN
    /\ hand # "none"
    /\ hand' = "none" /\ finger' = NewFinger
    /\ CASE hand = "down" \/ exit # None ->
              UNCHANGED <<exit, peer, behind, home, odd>>
         [] hand # "down" /\ exit = None /\ hand = "x"
              /\ (dir < 0 \/ (dir > 0 /\ canGoBack)) ->
              Leaves(IF dir < 0 THEN "left" ELSE "right", TRUE)
         [] hand # "down" /\ exit = None /\ hand = "y" /\ dir # 0 ->
              Leaves(IF dir < 0 THEN "up" ELSE "down", TRUE)
         [] OTHER -> springHome
    /\ UNCHANGED <<x, y, back, reduceMotion, canGoBack>>

(* animateThenCommit (with a finger on the card, see CardStack).           *)
RunAction(dir) ==
    /\ hand = "none" /\ exit = None
    /\ dir = "right" => canGoBack
    /\ Leaves(dir, FALSE)
    /\ UNCHANGED <<x, y, hand, finger, back, reduceMotion, canGoBack>>

-----------------------------------------------------------------------------
(* A frame: what leaves goes its way in equal parts, what springs back     *)
(* keeps a third.  The scroll is reported within a frame.                      *)
Target == CASE exit.dir = "left" -> -(W + 120) [] exit.dir = "right" -> W
            [] exit.dir = "up" -> -(H + 140)   [] OTHER -> H + 140
Along(from, at) == from + ((Target - from) * at) \div Frames
AThird(n) == Sign(n) * (Abs(n) \div 3)
Sprung(axis, n) == IF axis \in home THEN AThird(n) ELSE n

Frame ==
    LET slides == exit # None /\ ~reduceMotion
        at == IF exit = None THEN 0 ELSE exit.at + 1 IN
    /\ exit # None \/ home # {}
    /\ exit # None => exit.at < Frames
    /\ back.seen = back.at
    /\ exit' = IF exit = None THEN None ELSE [exit EXCEPT !.at = at]
    /\ x' = IF slides /\ exit.dir \in {"left", "right"}
            THEN Along(exit.fromX, at) ELSE Sprung("x", x)
    /\ y' = IF slides /\ exit.dir \in {"up", "down"}
            THEN Along(exit.fromY, at) ELSE Sprung("y", y)
    /\ home' = {axis \in home : IF axis = "x" THEN x' # 0 ELSE y' # 0}
    /\ UNCHANGED <<hand, finger, back, peer, behind, reduceMotion, canGoBack, odd>>

(* The commit and the layout effect of the card that it shows.  A finger   *)
(* that is still down is not followed any more.                            *)
Commit ==
    /\ exit # None /\ exit.at = Frames
    /\ \E d \in ScrollRanges, more \in BOOLEAN :
         /\ back' = [range |-> d, at |-> 0, seen |-> 0]
         /\ canGoBack' = (more \/ exit.dir # "right")
    /\ x' = 0 /\ y' = 0 /\ home' = {} /\ exit' = None /\ peer' = 0
    /\ behind' = "next" /\ odd' = FALSE
    /\ hand' = "none" /\ finger' = NewFinger
    /\ UNCHANGED reduceMotion

Next ==
    \/ TouchDown \/ PanXStarts \/ onScroll \/ Frame \/ Commit
    \/ \E tx \in DragX, ty \in DragY : PanXMoves(tx, ty)
    \/ \E d \in {-Step, Step} : TouchMoves(d) \/ PanYMoves(d)
    \/ \E fling \in -1..1 : PanEnds(fling)
    \/ \E dir \in {"left", "right", "up", "down"} : RunAction(dir)

Spec == Init /\ [][Next]_vars

-----------------------------------------------------------------------------
Coming == IF exit.dir = "right" THEN "previous" ELSE "next"

(* When a motion has ended, what is seen is what the next render draws: the *)
(* coming card, flat, in place and untinted, and nothing else over it -- so *)
(* that putting the stack back shows no jump (ConceptCardStack.tsx:484-485).*)
LandsAsItLooks ==
    (exit # None /\ exit.at = Frames /\ ~odd) =>
        \/ /\ Coming = "previous" /\ deckReturnOverlayOpacity = Frames
           /\ deckReturnOverlayTranslateX = 0 /\ cardReturnOverlayTiltZDeg = 0
        \/ /\ UnderlayIsSeen /\ behind = Coming
           /\ deckUnderlayReveal = [scale |-> 1000, tint |-> 0]
           /\ deckReturnOverlayOpacity = 0
           /\ \/ frontCommitOpacity = 0
              \/ Abs(x) >= W \/ Abs(y) >= H

(* While a card leaves, only it and the coming one are seen, and where it  *)
(* uncovers or no longer hides what is under it, there is a card; one that *)
(* the previous card covers from the left stays where it was dragged to.   *)
NothingElseIsSeen ==
    (exit # None /\ ~odd) =>
        /\ UnderlayIsSeen => behind = Coming
        /\ deckReturnOverlayOpacity > 0 => Coming = "previous"
        /\ \/ frontX < 0
           \/ y # 0 /\ exit.dir # "right"
           \/ frontCommitOpacity < Frames
           => UnderlayIsSeen

(* Not so: nor is a gap seen by which that card has strayed up or down.    *)
(* The underlay is that of a card beside it, and failOffsetY holds a drag  *)
(* to its side only until the pan has begun (ConceptCardStack).            *)
StrayedCardIsBacked ==
    (exit # None /\ ~odd /\ y # 0) => UnderlayIsSeen

(* The card turns smoothly: released, it goes on from where it was held,   *)
(* and no frame turns it by more than a few degrees.                       *)
TurnsSmoothly ==
    [][hand' = "none" /\ (exit # None => exit' # None) /\ ~odd' =>
         /\ Abs(FrontTilt' - FrontTilt) <= 35
         /\ Abs(cardSwipePitchDeg' - cardSwipePitchDeg) <= 35]_vars

(* The card that takes over from the scroll of its back does not leap: it  *)
(* has gone no farther than the finger in its last move -- unless the back *)
(* was reported at one edge and then at the other.                         *)
HandoffIsGentle ==
    [][hand # "y" /\ hand' = "y" /\ ~finger.skips =>
         Abs(cardSwipeTranslationAfterHandoff(finger')) <= Step]_vars

(* Not so: the edge that a finger is counted from is that of the scroll's  *)
(* other end, if no report came from between.                              *)
HandoffNeverLeaps ==
    [][hand # "y" /\ hand' = "y" =>
         Abs(cardSwipeTranslationAfterHandoff(finger')) <= Step]_vars

(* Not so: a card flung to the left while it is held to the right begins   *)
(* to turn in one frame; a key pressed while it springs back likewise.     *)
AlwaysTurnsSmoothly ==
    [][hand' = "none" /\ (exit # None => exit' # None) =>
         Abs(FrontTilt' - FrontTilt) <= 35]_vars

(* Not so: with reduced motion the previous card stays over such a card.   *)
AlwaysLandsAsItLooks ==
    (exit # None /\ exit.at = Frames /\ Coming = "next") =>
        deckReturnOverlayOpacity = 0
=============================================================================
