----------------------------- MODULE CardLayout -----------------------------
(***************************************************************************)
(* How the practice screen is shared between the header, the two grade     *)
(* rails, the card and the gaps around it (cardLayout.ts,                  *)
(* practiceLayout.ts, lateralityChrome.ts, coachHintPresentation.ts,       *)
(* app/index.tsx).  The screen gives the card what the measured heights of *)
(* the rails and of the row of buttons leave; the stack computes the card  *)
(* anew from its own measured width, and the reshuffle cue from the width  *)
(* of the column.  Measurements are posted after a layout, so that each    *)
(* may be older than the rest.                                             *)
(*                                                                         *)
(* Lengths are in tenths of a point.                                       *)
(***************************************************************************)
EXTENDS Integers, FiniteSetsExt

CONSTANTS
    Screens,    \* [width, height, top, bottom]: windows and their insets
    Texts,      \* sizes of text
    Height      \* [Texts -> [complexity, laterality, nav]]: the heights that the
                \* two controls and the row of buttons take

VARIABLES
    screen, text,
    navShown,   \* accessibleNavVisible
    measured    \* [complexity, laterality, nav, column]: the states of
                \* app/index.tsx and containerW of the stack

vars == <<screen, text, navShown, measured>>

(* The tokens, and what lateralityChrome.ts derives from them.             *)
CARD_STACK_GUTTER == 120
PRACTICE_COLUMN_MAX_WIDTH == 4800
minCardWidth == 2880
LATERALITY_RAIL_HEIGHT == 480
LATERALITY_CONTROL_HEIGHT == 200 + LATERALITY_RAIL_HEIGHT
RAIL_DOT_RADIUS == 45
LABEL_GLYPH_TOP_INSET == 45
ACCESSIBLE_NAV_ROW_MIN_HEIGHT == 480
AtRatio(tenths, width) == (width * tenths) \div 10        \* cardAspect
min == 13
preferred == 14
max == 15

NotBelow0(n) == IF n < 0 THEN 0 ELSE n

-----------------------------------------------------------------------------
(* Of the screen: header, rails and what is left.                          *)

practiceHeaderRowHeight == Max({200, 480})
practiceWordmarkTopOffset == NotBelow0(practiceHeaderRowHeight \div 2 - 116)
practiceHeaderToComplexityOffset ==
    practiceWordmarkTopOffset + 200 + 240 - LABEL_GLYPH_TOP_INSET

columnWidth == Min({screen.width, PRACTICE_COLUMN_MAX_WIDTH})

complexityDotsBottomToControlBottom ==
    LATERALITY_RAIL_HEIGHT \div 2 - RAIL_DOT_RADIUS

(* Mutant: the two gaps are equal as boxes, not as they are seen.          *)
EqualBoxes(leftover) == [above |-> leftover \div 2, below |-> leftover - leftover \div 2]

resolveEqualCardGaps(leftover) ==
    LET bias == complexityDotsBottomToControlBottom - LABEL_GLYPH_TOP_INSET IN
    IF leftover <= bias THEN [above |-> 0, below |-> leftover]
    ELSE LET half == (leftover - bias) \div 2 IN
         [above |-> half, below |-> leftover - half]

cardVerticalBudget ==
    NotBelow0(screen.height - screen.top - screen.bottom
              - practiceHeaderToComplexityOffset
              - measured.complexity - measured.laterality
              - (IF navShown THEN measured.nav ELSE 0))

(* The card of a column within a height: as wide as the column and of the  *)
(* preferred shape; else flatter; else narrower, but not below a minimum.  *)
(* What is left goes to both gaps, or above the card.                      *)
resolveCardAspectLayout(column, available, equal) ==
    LET full == NotBelow0(column - 2 * CARD_STACK_GUTTER)
        narrowed == available < AtRatio(min, full)
        width == IF ~narrowed THEN full
                 ELSE Min({full, Max({minCardWidth, (available * 10) \div min})})
        height == IF available >= AtRatio(preferred, width)
                  THEN AtRatio(preferred, width)
                  ELSE Max({available, AtRatio(min, width)})
        left == NotBelow0(available - height)
        gaps == IF equal THEN resolveEqualCardGaps(left)
                ELSE [above |-> left, below |-> 0] IN
    IF full = 0 THEN [width |-> 0, height |-> 0, above |-> 0, below |-> 0]
    ELSE [width |-> width, height |-> height, above |-> gaps.above,
          below |-> gaps.below]

Layout == resolveCardAspectLayout(columnWidth, cardVerticalBudget, TRUE)
stackAvailableHeight == Layout.above + Layout.height

visibleCardGapAbove == Layout.above + complexityDotsBottomToControlBottom
visibleCardGapBelow == Layout.below + LABEL_GLYPH_TOP_INSET

(* The card that the stack draws, in its own width, and the frame of the   *)
(* cue (reshuffleCueFrame).                                                *)
StackCard == resolveCardAspectLayout(measured.column, stackAvailableHeight, FALSE)
CueFrame ==
    LET c == resolveCardAspectLayout(columnWidth, stackAvailableHeight, FALSE) IN
    [top |-> c.above, left |-> NotBelow0(columnWidth - c.width) \div 2,
     width |-> c.width, height |-> c.height]

(* The height that two lines of a tip take, and the type chosen for them.  *)
coachHintSlotHeight(fit) == IF fit = "compact" THEN 2 * 20 + 2 * 170
                            ELSE 2 * 80 + 2 * 200
tipFit == IF Layout.below >= coachHintSlotHeight("comfortable")
          THEN "comfortable" ELSE "compact"

-----------------------------------------------------------------------------
Init ==
    /\ screen \in Screens /\ text \in Texts /\ navShown = FALSE
    /\ measured = [complexity |-> LATERALITY_CONTROL_HEIGHT,
                   laterality |-> LATERALITY_CONTROL_HEIGHT,
                   nav |-> ACCESSIBLE_NAV_ROW_MIN_HEIGHT, column |-> 0]

(* The window is rotated or resized; text or language changes; the row of  *)
(* buttons comes and goes.                                                 *)
Resize(to) == screen' = to /\ UNCHANGED <<text, navShown, measured>>
TextChanges(to) == text' = to /\ UNCHANGED <<screen, navShown, measured>>
NavToggles == navShown' = ~navShown /\ UNCHANGED <<screen, text, measured>>

(* onControlLayout of a rail, and of the row of buttons while it is shown. *)
ControlMeasured(part) ==
    /\ part = "nav" => navShown
    /\ measured' = [measured EXCEPT ![part] = Height[text][part]]
    /\ UNCHANGED <<screen, text, navShown>>

(* onLayout of the stack.                                                  *)
ColumnMeasured ==
    /\ measured' = [measured EXCEPT !.column = columnWidth]
    /\ UNCHANGED <<screen, text, navShown>>

Next ==
    \/ \E to \in Screens : Resize(to)
    \/ \E to \in Texts : TextChanges(to)
    \/ NavToggles \/ ColumnMeasured
    \/ \E part \in {"complexity", "laterality", "nav"} : ControlMeasured(part)

Spec == Init /\ [][Next]_vars

-----------------------------------------------------------------------------
(* Once the stack has measured its width, it draws the card where the cue  *)
(* covers it and as large as the screen counted on, though each computes   *)
(* it for itself (ConceptCardStack, LateralityReshuffle).                  *)
OneCard ==
    measured.column = columnWidth =>
        /\ <<StackCard.width, StackCard.height, StackCard.above>>
             = <<Layout.width, Layout.height, Layout.above>>
        /\ <<CueFrame.width, CueFrame.height, CueFrame.top>>
             = <<StackCard.width, StackCard.height, StackCard.above>>

(* The card is never squashed and never leaves its column, whatever was    *)
(* measured, and there is a gap around it only when it could not be larger *)
(* (cardLayout.ts:153-159).                                                *)
NeverSquashed ==
    LET c == Layout full == columnWidth - 2 * CARD_STACK_GUTTER IN
    /\ AtRatio(min, c.width) <= c.height /\ c.height <= AtRatio(max, c.width)
    /\ Min({full, minCardWidth}) <= c.width /\ c.width <= full
    /\ c.above + c.below > 0 =>
         c.height = AtRatio(preferred, c.width)

(* The gaps above and below the card look the same -- from the dots of the *)
(* one rail and to the letters of the other -- to a point, as soon as      *)
(* there is room for both (resolveEqualCardGaps).                          *)
GapsLookEqual ==
    Layout.above + Layout.below
        >= complexityDotsBottomToControlBottom - LABEL_GLYPH_TOP_INSET
    => visibleCardGapAbove - visibleCardGapBelow \in -10..10

(* When every part has been measured, header, rails, gaps, card and row    *)
(* fill no more than the screen, if a card of the smallest size fits.      *)
AllMeasured ==
    \A part \in {"complexity", "laterality"} \cup (IF navShown THEN {"nav"} ELSE {}) :
        measured[part] = Height[text][part]
Used == practiceHeaderToComplexityOffset + Layout.above + Layout.height
        + Layout.below + Height[text].complexity + Height[text].laterality
        + (IF navShown THEN Height[text].nav ELSE 0)
ColumnFits ==
    AllMeasured /\ cardVerticalBudget >= AtRatio(min, minCardWidth) =>
        Used <= screen.height - screen.top - screen.bottom

CardFitsItsScreen == OneCard /\ NeverSquashed /\ GapsLookEqual /\ ColumnFits

(* Not so: on a short screen or with large text the gap is smaller than    *)
(* the tip, which then overlaps the card (coachHintPresentation.ts:9-10).  *)
TipClearsTheCard == coachHintSlotHeight(tipFit) <= Layout.below

(* Not so: without the row of buttons the column does not scroll, and a    *)
(* card of the smallest size may not fit.                                  *)
EverythingFits == AllMeasured => Used <= screen.height - screen.top - screen.bottom
=============================================================================
