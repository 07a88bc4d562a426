------------------------------- MODULE Coaching -------------------------------
(***************************************************************************)
(* Gesture coaching: three tips in a fixed order, each offered after some  *)
(* idle time on a card whose front is shown (discoveryCoaching.ts, the     *)
(* hook useDiscoveryCoaching and the tip's slot of the deck screen).       *)
(*                                                                         *)
(* What a gesture changes is rendered first; the hook's effects run after  *)
(* that, and the idle timer of before can fire in between.                 *)
(***************************************************************************)
EXTENDS Integers, Sequences, FiniteSetsExt

CONSTANTS
    LastCard,   \* bound: cards 0..LastCard
    NoTip

COACH_TIP_SEQUENCE == <<"tipTap", "tipSwipe", "tipComplexity">>
NoCard == -1

VARIABLES
    session,  \* DiscoveryCoachingState; resolved joins discovered and dismissed
    view,     \* DiscoveryCoachingView
    idle,     \* the card the idle timer was armed on, or NoCard
    effects,  \* the hook's effects have not run since the last change
    chip      \* the tip in the slot above the cards

coachingVars == <<session, view, idle, effects, chip>>

discoveryCoachingStateAfterReplay(anchor) ==
    [resolved |-> {}, offeredTip |-> NoTip, tipCardIndex |-> NoCard,
     replayAnchorIndex |-> anchor]

nextCoachTip(s) ==
    LET open == {k \in DOMAIN COACH_TIP_SEQUENCE :
                    COACH_TIP_SEQUENCE[k] \notin s.resolved}
    IN IF open = {} THEN NoTip ELSE COACH_TIP_SEQUENCE[Min(open)]

(* reduceDiscoveryCoaching                                                 *)
Noted(s, tip) == [s EXCEPT !.resolved = @ \cup {tip}, !.offeredTip = NoTip]

offerTip(s, tip, card) ==
    IF /\ s.offeredTip = NoTip
       /\ tip # NoTip /\ nextCoachTip(s) = tip
       /\ s.tipCardIndex # card
    THEN [s EXCEPT !.offeredTip = tip, !.tipCardIndex = card]
    ELSE s

dismissTip(s) ==
    IF s.offeredTip = NoTip THEN s ELSE Noted(s, s.offeredTip)

coachContextReady(s, v) ==
    /\ ~v.deckStatus /\ ~v.flipped
    /\ s.offeredTip = NoTip
    /\ v.cardIndex >= s.replayAnchorIndex
    /\ s.tipCardIndex # v.cardIndex
    /\ nextCoachTip(s) # NoTip

visibleCoach(s, v) ==
    IF ~v.deckStatus /\ ~v.flipped /\ s.tipCardIndex = v.cardIndex
    THEN s.offeredTip ELSE NoTip

-----------------------------------------------------------------------------
Init ==
    /\ session = discoveryCoachingStateAfterReplay(0)
    /\ view = [cardIndex |-> 0, flipped |-> FALSE, deckStatus |-> FALSE]
    /\ idle = NoCard /\ effects = TRUE /\ chip = NoTip

Changes(s, v) ==
    /\ session' = s /\ view' = v /\ effects' = TRUE
    /\ UNCHANGED <<idle, chip>>

(* toggleFlip, a committed swipe, and the coaching notes they take.        *)
Tap == /\ ~view.deckStatus
       /\ Changes(Noted(session, "tipTap"),
                  [view EXCEPT !.flipped = ~@])
SwipeHorizontal(card) ==
    /\ card \in {view.cardIndex - 1, view.cardIndex + 1} \cap (0..LastCard)
    /\ Changes(Noted(session, "tipSwipe"),
               [view EXCEPT !.cardIndex = card, !.flipped = FALSE])
SwipeVertical ==
    Changes(Noted(session, "tipComplexity"), [view EXCEPT !.flipped = FALSE])

(* The deck shows a status face, or a card again; a laterality swap or a   *)
(* new first batch starts the cards over.                                  *)
StatusFace == Changes(session, [view EXCEPT !.deckStatus = ~@])
DeckStartsOver ==
    /\ view.cardIndex # 0
    /\ Changes(session, [view EXCEPT !.cardIndex = 0, !.flipped = FALSE])

noteInteraction == Changes(session, view)
Dismissed == chip # NoTip /\ Changes(dismissTip(session), view)
replayGestureTips ==
    Changes(discoveryCoachingStateAfterReplay(view.cardIndex), view)

(* The idle timer, with the card of the render that armed it.              *)
Offers ==
    /\ idle # NoCard
    /\ idle' = NoCard
    /\ session' = offerTip(session, nextCoachTip(session), idle)
    /\ effects' = (effects \/ session' # session)
    /\ UNCHANGED <<view, chip>>

(* The effects of the hook and of ConceptCardStack: an offer of another    *)
(* card is withdrawn, and that is a change of its own; the timer is armed  *)
(* anew.                                                                   *)
Effects ==
    /\ effects
    /\ chip' = visibleCoach(session, view)
    /\ IF session.offeredTip # NoTip /\ session.tipCardIndex # view.cardIndex
       THEN session' = [session EXCEPT !.offeredTip = NoTip] /\ UNCHANGED effects
       ELSE effects' = FALSE /\ UNCHANGED session
    /\ idle' = IF coachContextReady(session, view) THEN view.cardIndex
               ELSE NoCard
    /\ UNCHANGED view

Next ==
    \/ Tap \/ SwipeVertical \/ StatusFace \/ DeckStartsOver
    \/ \E card \in 0..LastCard : SwipeHorizontal(card)
    \/ noteInteraction \/ Dismissed \/ replayGestureTips
    \/ Offers \/ Effects

Spec == Init /\ [][Next]_coachingVars

-----------------------------------------------------------------------------
(* Properties.                                                             *)

(* The tip that is offered is the first one whose gesture has been neither *)
(* made nor dismissed since the last replay; one that was swiped away with *)
(* its card is that one again.  At rest the tip belongs to the card that   *)
(* is shown, the slot shows exactly it, and there is a timer for the next  *)
(* one exactly when one is due: coaching never stalls.                     *)
CoachingIsSound ==
    /\ session.offeredTip # NoTip => session.offeredTip = nextCoachTip(session)
    /\ ~effects =>
         /\ chip = visibleCoach(session, view)
         /\ session.offeredTip # NoTip => session.tipCardIndex = view.cardIndex
         /\ idle # NoCard =>
              idle = view.cardIndex /\ coachContextReady(session, view)
         /\ coachContextReady(session, view) => idle # NoCard \/ chip # NoTip

(* Not so: a card receives at most one tip in a session.  The session       *)
(* remembers only the card of its last tip, so that a reader who goes back  *)
(* to an earlier one is given another tip there.                            *)
OneTipPerCard ==
    [][/\ session.offeredTip = NoTip /\ session'.offeredTip # NoTip
       /\ session.tipCardIndex # NoCard
       => session'.tipCardIndex > session.tipCardIndex]_coachingVars
=============================================================================
