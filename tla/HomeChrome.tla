----------------------------- MODULE HomeChrome -----------------------------
(***************************************************************************)
(* What app/index.tsx shows around the card: one line for messages in the  *)
(* gap below it -- the status of the deck, a tip, the cue that names a new *)
(* complexity, or the mark of a complexity from the URL, in this order --  *)
(* and the row of buttons for a keyboard or a screen reader.               *)
(*                                                                         *)
(* React renders and runs effects at the end of each handler.  The cue is  *)
(* a component of its own: an effect arms its timer whenever it is mounted *)
(* or its token changes; the timer starts a fade on the UI thread, whose   *)
(* end is posted back.                                                     *)
(***************************************************************************)
EXTENDS Integers, FiniteSetsExt

CONSTANTS
    None,
    MaxGrade,   \* MAX_CONCEPT_COMPLEXITY, 5 in the code
    MaxCues     \* bound on the cues announced

VARIABLES
    start,      \* [url, web, reduced]: the grade that the URL or the route names,
                \* or None; the platform; reduced motion
    screen,     \* [hydrated, main]: complexity is loaded; showMainDeck
    complexity,
    session,    \* [pending, announced, mark]: pendingSessionComplexity,
                \* announcedSessionComplexityRef, showSessionComplexityMark
    status,     \* resolveDeckChromeStatus
    tip,        \* a tip waits or is shown: coachTip
    cue,        \* complexityCue: [grade, token], or None
    chip,       \* the component ComplexityCue: [token, phase]
    posted,     \* the end of a fade on its way to JavaScript: [token, elapsed],
                \* or None
    nav,        \* [reader, keyboard]: the states of useAccessibleNavVisible
    press,      \* a finger or pointer is down: None, "row" or "column"
    said,       \* how often the grade of the URL was announced (history)
    dropped     \* a press was lost with what it was on (history)

vars == <<start, screen, complexity, session, status, tip, cue, chip, posted,
          nav, press, said, dropped>>

Off == [token |-> 0, phase |-> "off"]

Status == {"none", "offline", "noNextIdea", "fetchFailed", "busy"}
suppressCoachTip(s) == s \in {"fetchFailed", "noNextIdea"}

(* messagingSlot and what follows it.                                      *)
Slot(main, s, t, c, mark) ==
    CASE ~main -> "nothing"
      [] main /\ s # "none" -> "status"
      [] main /\ s = "none" /\ t /\ ~suppressCoachTip(s) -> "tip"
      [] main /\ s = "none" /\ ~t /\ c # None -> "cue"
      [] main /\ s = "none" /\ ~t /\ c = None /\ mark -> "mark"
      [] OTHER -> "nothing"

InSlot == Slot(screen.main, status, tip, cue, session.mark)

(* The effect of ComplexityCue: the timer goes with the component, and is  *)
(* armed anew with it or for another token.  A fade that is cut does not   *)
(* post its end.                                                           *)
CueEffect(slot, c) ==
    IF slot # "cue" THEN Off
    ELSE IF chip.token = c.token THEN chip
    ELSE [token |-> c.token, phase |-> "hold"]

Rendered ==
    chip' = CueEffect(Slot(screen'.main, status', tip', cue', session'.mark), cue')

-----------------------------------------------------------------------------
Init ==
    /\ \E url \in {None} \cup 1..MaxGrade, web, reduced \in BOOLEAN :
         start = [url |-> url, web |-> web, reduced |-> reduced]
    /\ screen = [hydrated |-> FALSE, main |-> FALSE]
    /\ complexity = 2
    /\ session = [pending |-> None, announced |-> FALSE, mark |-> FALSE]
    /\ status = "none" /\ tip = FALSE
    /\ cue = None /\ chip = Off /\ posted = None
    /\ nav = [reader |-> FALSE, keyboard |-> FALSE]
    /\ press = None /\ said = 0 /\ dropped = FALSE

-----------------------------------------------------------------------------
(* The cue.                                                                *)

NextToken == IF cue = None /\ chip = Off /\ posted = None THEN 1
             ELSE 1 + Max({c.token : c \in {cue, posted} \ {None}} \cup {chip.token})

announceComplexity(grade) == cue' = [grade |-> grade, token |-> NextToken]
                             /\ NextToken <= MaxCues

(* resolveSessionComplexityToAnnounce                                      *)
SessionComplexityToAnnounce(main, pending) ==
    IF ~main \/ session.announced THEN None
    ELSE IF pending # None THEN pending ELSE start.url

(* The effect that announces the grade of the URL once the deck shows.     *)
SessionEffect(pending) ==
    LET grade == SessionComplexityToAnnounce(screen'.main, pending) IN
    IF grade = None
    THEN /\ session' = [session EXCEPT !.pending = pending,
                                       !.mark = @ \/ pending # None]
         /\ UNCHANGED <<cue, said>>
    ELSE /\ session' = [pending |-> None, announced |-> TRUE, mark |-> TRUE]
         /\ announceComplexity(grade)
         /\ said' = said + 1

HydrateComplexity ==
    /\ ~screen.hydrated
    /\ screen' = [screen EXCEPT !.hydrated = TRUE]
    /\ complexity' = IF start.url # None THEN start.url ELSE complexity
    /\ SessionEffect(start.url)
    /\ UNCHANGED <<start, status, tip, posted, nav, press, dropped>>
    /\ Rendered

(* The intro ends, the first load fails, or is tried again.                *)
MainDeck(main) ==
    /\ screen.hydrated /\ main # screen.main
    /\ screen' = [screen EXCEPT !.main = main]
    /\ SessionEffect(session.pending)
    /\ nav' = nav /\ press' = None
    /\ UNCHANGED <<start, complexity, status, tip, posted, dropped>>
    /\ Rendered

(* onSwipeForwardVertical                                                  *)
SwipeVertical(by) ==
    LET next == Min({MaxGrade, Max({1, complexity + by})}) IN
    /\ screen.main /\ next # complexity
    /\ complexity' = next
    /\ announceComplexity(next)
    /\ UNCHANGED <<start, screen, session, status, tip, posted, nav, press, said,
                   dropped>>
    /\ Rendered

(* onSelectComplexity, from the rail or the menu: nothing is announced.    *)
SelectComplexity(grade) ==
    /\ screen.main /\ grade # complexity
    /\ complexity' = grade
    /\ UNCHANGED <<start, screen, session, status, tip, cue, chip, posted, nav,
                   press, said, dropped>>

(* The time of the cue is over: it is hidden, or first fades.              *)
HoldEnds ==
    /\ chip.phase = "hold"
    /\ IF start.reduced THEN cue' = None ELSE cue' = cue
    /\ UNCHANGED <<start, screen, complexity, session, status, tip, posted, nav,
                   press, said, dropped>>
    /\ chip' = IF start.reduced THEN Off ELSE [chip EXCEPT !.phase = "fade"]

FadeEnds ==
    /\ chip.phase = "fade" /\ posted = None
    /\ posted' = [token |-> chip.token, elapsed |-> TRUE]
    /\ chip' = [chip EXCEPT !.phase = "gone"]
    /\ UNCHANGED <<start, screen, complexity, session, status, tip, cue, nav,
                   press, said, dropped>>

(* onHidden: dismissComplexityCue, whatever cue is there by then.          *)
HideRuns ==
    /\ posted # None
    /\ posted' = None
    /\ cue' = None
    /\ UNCHANGED <<start, screen, complexity, session, status, tip, nav, press,
                   said, dropped>>
    /\ Rendered

(* The deck's status and the tips change as the deck and the coach do.     *)
StatusChanges(s) ==
    /\ s # status /\ screen.main
    /\ status' = s
    /\ UNCHANGED <<start, screen, complexity, session, tip, cue, posted, nav,
                   press, said, dropped>>
    /\ Rendered

TipChanges ==
    /\ screen.main
    /\ tip' = ~tip
    /\ UNCHANGED <<start, screen, complexity, session, status, cue, posted, nav,
                   press, said, dropped>>
    /\ Rendered

-----------------------------------------------------------------------------
(* The row.                                                                *)

shouldShowAccessibleNavRow(n) == n.reader \/ n.keyboard

(* The practice column is a ScrollView with the row and a View without it: *)
(* when the row comes or goes, all that is in the column is mounted anew,  *)
(* and a press on it is lost.                                              *)
NavChanges(n, pressed) ==
    LET anew == shouldShowAccessibleNavRow(n) # shouldShowAccessibleNavRow(nav)
                /\ screen.main
    IN /\ nav' = n
       /\ press' = IF anew THEN None ELSE pressed
       /\ dropped' = (dropped \/ (anew /\ pressed # None))
       /\ chip' = IF anew /\ InSlot = "cue"
                  THEN [token |-> cue.token, phase |-> "hold"] ELSE chip
       /\ UNCHANGED <<start, screen, complexity, session, status, tip, cue,
                      posted, said>>

(* The screen reader is asked for and listened to on native only.          *)
ScreenReader(on) ==
    /\ ~start.web /\ on # nav.reader
    /\ NavChanges([nav EXCEPT !.reader = on], press)

(* A key that moves: keyEstablishesKeyboardModality.                       *)
KeyDown ==
    /\ start.web
    /\ NavChanges([nav EXCEPT !.keyboard = TRUE], press)

(* shouldClearKeyboardModalityOnPointer: not by a press on the row itself. *)
PointerDown(where) ==
    /\ press = None /\ screen.main
    /\ where = "row" => shouldShowAccessibleNavRow(nav)
    /\ NavChanges(IF start.web /\ where = "column"
                  THEN [nav EXCEPT !.keyboard = FALSE] ELSE nav, where)

PointerUp ==
    /\ press # None
    /\ press' = None
    /\ UNCHANGED <<start, screen, complexity, session, status, tip, cue, chip,
                   posted, nav, said, dropped>>

(* canRunCardAction as AccessibleNavRow asks it and as the stack does.     *)
Action == {"previous", "complexityDown", "flip", "complexityUp", "next"}
canRunCardAction(action, gate) ==
    /\ ~gate.sheetOpen /\ ~gate.animating /\ ~gate.inputLocked
    /\ IF action = "previous" THEN gate.currentIndex > 0 ELSE ~gate.showDeckStatus
Gate == [currentIndex : 0..1, showDeckStatus : BOOLEAN, sheetOpen : BOOLEAN,
         animating : BOOLEAN, inputLocked : BOOLEAN]
RowGate(gate) ==
    [gate EXCEPT !.sheetOpen = @ \/ gate.inputLocked, !.animating = FALSE,
                 !.inputLocked = FALSE]

-----------------------------------------------------------------------------
Next ==
    \/ HydrateComplexity
    \/ \E main \in BOOLEAN : MainDeck(main)
    \/ \E by \in {-1, 1} : SwipeVertical(by)
    \/ \E grade \in 1..MaxGrade : SelectComplexity(grade)
    \/ HoldEnds \/ FadeEnds \/ HideRuns
    \/ \E s \in Status : StatusChanges(s)
    \/ TipChanges
    \/ \E on \in BOOLEAN : ScreenReader(on)
    \/ KeyDown \/ PointerUp
    \/ \E where \in {"row", "column"} : PointerDown(where)

Spec == Init /\ [][Next]_vars

-----------------------------------------------------------------------------
(* The grade of the URL is announced once, as soon as the deck shows,      *)
(* however late it is loaded and however often the first load fails; and   *)
(* its mark stays (resolveSessionComplexityToAnnounce).                    *)
SessionIsAnnouncedOnce ==
    /\ said <= 1
    /\ start.url # None /\ screen.main => said = 1 /\ session.mark

(* A cue on screen is about to go: its timer runs, its fade, or the end of *)
(* it is on its way.  It never stays.                                      *)
CueWillGo ==
    InSlot = "cue" =>
        \/ chip.token = cue.token /\ chip.phase \in {"hold", "fade"}
        \/ posted # None

(* A button of the row that can be pressed does what it says, unless a     *)
(* card is moving.                                                         *)
RowKeepsItsWord ==
    \A gate \in Gate, action \in Action :
        ~gate.animating =>
            canRunCardAction(action, gate) = canRunCardAction(action, RowGate(gate))

ChromeIsSound == SessionIsAnnouncedOnce /\ CueWillGo /\ RowKeepsItsWord

(* Not so when the end of a fade is on its way: a cue is on screen for its *)
(* time.                                                                   *)
HidesItsOwn == posted # None /\ cue # None => posted.token = cue.token

(* Not so after the rail: a cue names the grade on screen.                 *)
CueNamesTheGrade == InSlot = "cue" => cue.grade = complexity

(* Not so for the press that hides the row: no press is lost.              *)
NoPressIsLost == ~dropped
=============================================================================
