------------------------------ MODULE CardFlip ------------------------------
(***************************************************************************)
(* How a card is turned over (ConceptCardStack, ConceptCard, cardFlip.ts,  *)
(* flipSuppress.ts) and how the time that its faces are looked at is told  *)
(* (flushDwell and the effect on the active concept).                      *)
(*                                                                         *)
(* The turn is an animation on the UI thread; a reaction there posts the   *)
(* face beyond its middle to JavaScript, where it decides which face takes *)
(* presses.  What the handlers read are refs that effects set after a      *)
(* render: at once when the layout effect turned a card back, else later,  *)
(* and a press may come before.                                            *)
(*                                                                         *)
(* A tick is 100 ms: a turn takes 360 ms, an ignored press 400.            *)
(***************************************************************************)
EXTENDS Integers, Sequences

CONSTANTS
    Cards,      \* concepts, each with its place in the deck
    None,
    Turn,       \* ticks of a turn (FLIP_MS): 4, even
    Suppress,   \* FLIP_SUPPRESS_MS in ticks: 4
    TapMax,     \* the longest touch that is still a tap, in ticks: 5
    MaxStay     \* bound: a longer look is not told apart

VARIABLES
    deck,       \* the props [top, status]: the card of currentIndex,
                \* showDeckStatus
    flipped,    \* the state of this name
    turn,       \* [at, to]: flipProgress in ticks and where it goes
    presented,  \* presentedFace
    news,       \* faces posted by the reaction, not yet set
    refs,       \* [flipped, deck]: flippedRef; currentIndexRef, conceptsRef,
                \* showDeckStatusRef
    due,        \* effects to run: "none", "flip" (of flipped), "deck" (all)
    dwell,      \* [card, face, stay]: dwellConceptRef, dwellFaceRef and the
                \* ticks since dwellStartedAtRef, or None for 0
    away,       \* AppState is not "active"
    held,       \* a motion or a reshuffle: swipeAnimating or inputLocked
    quiet,      \* ticks until suppressFlipUntilRef
    touch,      \* on a link of the back: [age, tap, press], or None
    seen,       \* ticks that what is shown has been in sight (history)
    odd         \* the time may be that of another face: a press came before the
                \* effects of a deal, or they ran on a turned card or out of
                \* sight (history)

vars == <<deck, flipped, turn, presented, news, refs, due, dwell, away, held,
          quiet, touch, seen, odd>>

Face == {"front", "back"}
FaceOf(back) == IF back THEN "back" ELSE "front"

(* cardFlipA11yFace: the face beyond the middle of the turn.               *)
cardFlipA11yFace(at) == FaceOf(2 * at >= Turn)

(* flipFaceOpacity where the middle, a few percent, is between ticks; with *)
(* reduced motion the front fades over the opaque back.                    *)
Opaque(at) == IF at = 0 THEN {"front"} ELSE IF at = Turn THEN {"back"} ELSE Face

Capped(n) == IF n < MaxStay THEN n + 1 ELSE n

-----------------------------------------------------------------------------
(* flushDwell: the time of what the refs name is told, if their clock runs *)
(* (the analytics are not modelled), and it starts anew.                   *)
flushDwell(card, face) == dwell' = [card |-> card, face |-> face, stay |-> 0]

(* The effect on active concept, index and status, with the deck d.        *)
ViewEffect(d) ==
    IF d.status THEN flushDwell(None, "front") ELSE flushDwell(d.top, "front")

Init ==
    /\ \E top \in Cards : deck = [top |-> top, status |-> FALSE]
    /\ flipped = FALSE /\ turn = [at |-> 0, to |-> 0]
    /\ presented = "front" /\ news = <<>>
    /\ refs = [flipped |-> FALSE, deck |-> deck] /\ due = "none"
    /\ dwell = [card |-> deck.top, face |-> "front", stay |-> 0]
    /\ away = FALSE /\ held = FALSE /\ quiet = 0 /\ touch = None
    /\ seen = 0 /\ odd = FALSE

-----------------------------------------------------------------------------
(* Mutant: the turn survives the card, as it would without its reset.      *)
ResetKeepsTurn == flipped' = FALSE /\ UNCHANGED turn

(* The layout effect on index and status: the new card shows its front.    *)
Reset == flipped' = FALSE /\ turn' = [at |-> 0, to |-> 0]

(* What the reaction then posts: it goes with the card when the loading    *)
(* face replaces it, and posts at once from a card that replaces that.     *)
PresentedAfter(status) ==
    /\ presented' = IF deck.status /\ ~status THEN FaceOf(flipped) ELSE presented
    /\ news' = IF status THEN <<>>
               ELSE IF deck.status \/ cardFlipA11yFace(turn.at) = "back"
               THEN Append(news, "front") ELSE news

(* Another index or status: the layout effect, and with a render that it   *)
(* asked for every other effect; else those are due.                       *)
Deal(top, status) ==
    LET d == [top |-> top, status |-> status] IN
    /\ due = "none"
    /\ d # deck
    /\ deck' = d
    /\ held' = FALSE /\ seen' = 0
    /\ Reset /\ PresentedAfter(status)
    /\ IF flipped
       THEN /\ refs' = [flipped |-> FALSE, deck |-> d]
            /\ ViewEffect(d)
            /\ odd' = away
            /\ UNCHANGED due
       ELSE /\ due' = "deck"
            /\ UNCHANGED <<refs, dwell, odd>>
    /\ UNCHANGED <<away, quiet, touch>>

(* The first load is tried again and lands on the same index: the layout   *)
(* effect does not run.                                                    *)
Reload(top) ==
    /\ due = "none" /\ ~deck.status /\ top # deck.top
    /\ deck' = [deck EXCEPT !.top = top]
    /\ due' = "deck" /\ seen' = 0
    /\ UNCHANGED <<flipped, turn, presented, news, refs, dwell, away, held, quiet,
                   touch, odd>>

Effects ==
    /\ due # "none"
    /\ due' = "none"
    /\ IF due = "deck"
       THEN /\ refs' = [flipped |-> flipped, deck |-> deck]
            /\ ViewEffect(deck)
            /\ odd' = (flipped \/ away)
       ELSE /\ refs' = [refs EXCEPT !.flipped = flipped]
            /\ UNCHANGED <<dwell, odd>>
    /\ UNCHANGED <<deck, flipped, turn, presented, news, away, held, quiet, touch,
                   seen>>

-----------------------------------------------------------------------------
(* toggleFlip outside the window of a pressed link.                        *)
toggleFlip ==
    LET next == ~refs.flipped IN
    /\ quiet = 0
    /\ IF refs.deck.status THEN UNCHANGED dwell
       ELSE flushDwell(refs.deck.top, FaceOf(next))
    /\ turn' = [turn EXCEPT !.to = IF next THEN Turn ELSE 0]
    /\ flipped' = next
    /\ seen' = IF next = flipped THEN seen ELSE 0
    /\ due' = IF due = "none" THEN "flip" ELSE due
    /\ odd' = (odd \/ due = "deck" \/ away)

(* The tap gesture ends; the loading face has none.                        *)
Tap ==
    /\ ~away /\ ~held /\ ~deck.status /\ touch = None
    /\ toggleFlip
    /\ UNCHANGED <<deck, presented, news, refs, away, held, quiet, touch>>

(* The key or the action of a screen reader: runAction refuses it on the   *)
(* loading face.                                                           *)
FlipAction ==
    /\ ~away /\ ~held /\ touch = None /\ ~refs.deck.status
    /\ toggleFlip
    /\ UNCHANGED <<deck, presented, news, refs, away, held, quiet, touch>>

(* A finger on a link of the back, which is one while the back is          *)
(* presented: onPressIn (on the web, the listener of pointerdown).         *)
TouchLink ==
    /\ ~away /\ touch = None /\ presented = "back" /\ ~deck.status
    /\ touch' = [age |-> 0, tap |-> FALSE, press |-> FALSE]
    /\ quiet' = Suppress
    /\ UNCHANGED <<deck, flipped, turn, presented, news, refs, due, dwell, away,
                   held, seen, odd>>

TouchAfter(t) == IF t.tap \/ t.press THEN t ELSE None

(* It is lifted in time for a tap: the gesture and the link both hear of   *)
(* it, in either order, unless the loading face has replaced them.         *)
Lift ==
    /\ touch # None /\ ~touch.tap /\ ~touch.press
    /\ touch' = TouchAfter([touch EXCEPT !.press = ~deck.status,
                              !.tap = ~deck.status /\ touch.age <= TapMax])
    /\ UNCHANGED <<deck, flipped, turn, presented, news, refs, due, dwell, away,
                   held, quiet, seen, odd>>

TapHeard ==
    /\ touch # None /\ touch.tap
    /\ touch' = TouchAfter([touch EXCEPT !.tap = FALSE])
    /\ IF held \/ quiet > 0
       THEN UNCHANGED <<flipped, turn, due, dwell, seen, odd>>
       ELSE toggleFlip
    /\ UNCHANGED <<deck, presented, news, refs, away, held, quiet>>

(* openWiki, openLicence                                                   *)
LinkOpens ==
    /\ touch # None /\ touch.press
    /\ touch' = TouchAfter([touch EXCEPT !.press = FALSE])
    /\ quiet' = Suppress
    /\ UNCHANGED <<deck, flipped, turn, presented, news, refs, due, dwell, away,
                   held, seen, odd>>

-----------------------------------------------------------------------------
(* A frame of the turn; the reaction posts the face that is now beyond the *)
(* middle.  JavaScript has caught up before the next tick.                 *)
Tick ==
    LET at == IF turn.at < turn.to THEN turn.at + 1
              ELSE IF turn.at > turn.to THEN turn.at - 1 ELSE turn.at IN
    /\ due = "none" /\ news = <<>>
    /\ touch # None => ~touch.tap /\ ~touch.press /\ touch.age <= TapMax
    /\ turn' = [turn EXCEPT !.at = at]
    /\ news' = IF deck.status \/ cardFlipA11yFace(at) = cardFlipA11yFace(turn.at)
               THEN <<>> ELSE <<cardFlipA11yFace(at)>>
    /\ quiet' = IF quiet > 0 THEN quiet - 1 ELSE 0
    /\ touch' = IF touch = None THEN None ELSE [touch EXCEPT !.age = @ + 1]
    /\ dwell' = IF dwell.stay = None THEN dwell
                ELSE [dwell EXCEPT !.stay = Capped(@)]
    /\ seen' = IF away THEN seen ELSE Capped(seen)
    /\ UNCHANGED <<deck, flipped, presented, refs, due, away, held, odd>>

setPresentedFace ==
    /\ news # <<>>
    /\ presented' = Head(news) /\ news' = Tail(news)
    /\ UNCHANGED <<deck, flipped, turn, refs, due, dwell, away, held, quiet, touch,
                   seen, odd>>

(* onAppState: the time is told when the app is left, and not counted.     *)
onAppState(active) ==
    /\ away \/ ~active
    /\ away' = ~active
    /\ dwell' = [dwell EXCEPT !.stay =
                   IF ~active THEN None ELSE IF dwell.card # None THEN 0 ELSE @]
    /\ seen' = 0
    /\ UNCHANGED <<deck, flipped, turn, presented, news, refs, due, held, quiet,
                   touch, odd>>

Moves ==
    /\ held' = ~held
    /\ UNCHANGED <<deck, flipped, turn, presented, news, refs, due, dwell, away,
                   quiet, touch, seen, odd>>

Next ==
    \/ \E top \in Cards, status \in BOOLEAN : Deal(top, status)
    \/ \E top \in Cards : Reload(top)
    \/ Effects \/ Tap \/ FlipAction \/ TouchLink \/ Lift \/ TapHeard \/ LinkOpens
    \/ Tick \/ setPresentedFace \/ Moves
    \/ \E active \in BOOLEAN : onAppState(active)

Spec == Init /\ [][Next]_vars

-----------------------------------------------------------------------------
(* When a turn has ended and is posted, the face that takes presses is the *)
(* one that is seen, alone, and the one that the state names -- also when  *)
(* the card was turned while it was turning, or dealt away (ConceptCard,   *)
(* cardFlip.ts:8-17).                                                      *)
OneFaceAnswers ==
    (~deck.status /\ turn.at = turn.to /\ news = <<>>) =>
        /\ Opaque(turn.at) = {presented}
        /\ presented = FaceOf(flipped)

(* The clock of the view time runs for the face that is seen, as long as   *)
(* it is seen and while the app is (flushDwell and its callers), unless a  *)
(* press came before its effects, the card was swapped in its place, or it *)
(* was dealt while the app was left.                                       *)
Timed ==
    IF away THEN dwell.stay = None
    ELSE IF deck.status THEN dwell.card = None
    ELSE dwell = [card |-> deck.top, face |-> FaceOf(flipped), stay |-> seen]
TimeIsThatOfTheFace == (due = "none" /\ ~odd) => Timed

(* The press of a link that is lifted within its window does not turn the  *)
(* card, whether its tap or its press is heard first (flipSuppress.ts).    *)
LinkKeepsFace ==
    [][(touch # None /\ touch.age < Suppress) => flipped' = flipped \/ deck' # deck]_vars

FlipIsSound == [](OneFaceAnswers /\ TimeIsThatOfTheFace) /\ LinkKeepsFace

(* Not so: a tap of 400 to 500 ms on a link is heard before its press, and *)
(* turns the card while the link opens.                                    *)
LinkNeverTurns ==
    [][touch # None => flipped' = flipped \/ deck' # deck]_vars

(* Not so: a card dealt while the app is inactive counts until the app is  *)
(* in the background; a card swapped in its place shows its back while its *)
(* front is told; a press before the effects of a deal likewise.           *)
TimeIsAlwaysThatOfTheFace == due = "none" => Timed
=============================================================================
