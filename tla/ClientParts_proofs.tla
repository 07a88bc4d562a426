------------------------- MODULE ClientParts_proofs -------------------------
(***************************************************************************)
(* Proofs about the parts of the client around its deck: for each part, an *)
(* inductive invariant, one lemma per kind of step, and the theorem that   *)
(* its property holds for every value of the constants.  A step of another *)
(* part leaves a part as it is, so that each invariant is shown of all     *)
(* behaviours and the properties need only the part they speak of.         *)
(***************************************************************************)
EXTENDS ClientParts, FiniteSetTheorems, SequenceTheorems, TLAPS

-----------------------------------------------------------------------------
(* Sheets.                                                                 *)

(* The inductive invariant of the sheets: what is stated of them, and that *)
(* a sheet that has left does not slide.                                   *)
SheetsInv ==
    /\ SheetsAreSound
    /\ \A s \in Sheet!Sheet : ~mounted[s] => slide[s] = "still"

(* One step of a sheet is a step of its module, and no other part touches  *)
(* it.                                                                     *)
LEMMA SheetSteps ==
    [ClientNext]_clientVars => (Sheet!Next \/ UNCHANGED sheetVars) /\ UNCHANGED onWeb
  BY DEF ClientNext, OthersRest, Keeps, clientVars

(* Init: both sheets are away.                                             *)
LEMMA SheetsStart == ClientInit => SheetsInv
<1> SUFFICES ASSUME ClientInit PROVE SheetsInv
  OBVIOUS
<1>1. onWeb \in BOOLEAN /\ Sheet!Init
  BY DEF ClientInit
<1>2. Sheet!TypeOK
  <2>1. /\ onWeb \in BOOLEAN /\ skipNextClose \in BOOLEAN /\ mixClose \in BOOLEAN
        /\ swapping \in BOOLEAN /\ rowFocus \in BOOLEAN
    BY <1>1 DEF Sheet!Init
  <2>2. /\ shown \in [Sheet!Sheet -> BOOLEAN] /\ mounted \in [Sheet!Sheet -> BOOLEAN]
        /\ titleFocused \in [Sheet!Sheet -> BOOLEAN]
    BY <1>1 DEF Sheet!Init
  <2>3. /\ slide \in [Sheet!Sheet -> {"still", "in", "out"}]
        /\ title \in [Sheet!Sheet -> {"hidden", "early", "measured"}]
    BY <1>1 DEF Sheet!Init
  <2>4. returnTo \in [Sheet!Sheet -> Sheet!Opener]
    BY <1>1 DEF Sheet!Init, Sheet!Opener
  <2>5. heard \in [Sheet!Sheet -> 0..MaxCloses]
    <3>1. 0 \in 0..MaxCloses
      BY ClientAssumption
    <3> QED
      BY <1>1, <3>1 DEF Sheet!Init
  <2>6. menuView \in Sheet!View /\ initialView \in {"root", "complexity"} /\ focus \in Sheet!Host
    BY <1>1 DEF Sheet!Init, Sheet!View, Sheet!Host, Sheet!Opener
  <2> QED
    BY <2>1, <2>2, <2>3, <2>4, <2>5, <2>6 DEF Sheet!TypeOK
<1>3. focus \in {returnTo[s] : s \in Sheet!Sheet}
  BY <1>1 DEF Sheet!Init, Sheet!Sheet
<1> QED
  BY <1>1, <1>2, <1>3
     DEF Sheet!Init, SheetsInv, SheetsAreSound, Sheet!SheetsAreSound, Sheet!Sheet

(* A sheet opens from the chrome or from the row of the menu.              *)
LEMMA SheetOpens ==
    ASSUME SheetsInv, NEW s \in Sheet!Sheet, Sheet!Opens(s), Sheet!Reachable,
           UNCHANGED <<onWeb, title, rowFocus, swapping, skipNextClose, mixClose>>,
           returnTo' \in [Sheet!Sheet -> Sheet!Opener], menuView' \in Sheet!View,
           initialView' \in {"root", "complexity"}
    PROVE  SheetsInv'
  BY ClientAssumption
     DEF Sheet!Opens, SheetsInv, SheetsAreSound, Sheet!TypeOK, Sheet!SheetsAreSound,
         Sheet!Sheet, Sheet!Opener, Sheet!Host, Sheet!Reachable

(* A sheet is dismissed: it slides out, or its close is skipped for a      *)
(* swap.                                                                   *)
LEMMA SheetDismissed ==
    ASSUME SheetsInv, NEW s \in Sheet!Sheet, NEW skip \in BOOLEAN, mounted[s],
           Sheet!Dismissed(s, skip), swapping' \in BOOLEAN, mixClose' \in BOOLEAN,
           mixClose => mixClose',
           skip => s = "laterality" /\ (mixClose' \/ ~shown[s]),
           UNCHANGED rowFocus
    PROVE  SheetsInv'
  BY ClientAssumption
     DEF Sheet!Dismissed, Sheet!Heard, SheetsInv, SheetsAreSound, Sheet!TypeOK,
         Sheet!SheetsAreSound, Sheet!Sheet, Sheet!View, Sheet!Opener, Sheet!Host

(* A slide ends, or a title is measured for the first time.                *)
LEMMA SheetSlides ==
    ASSUME SheetsInv, NEW s \in Sheet!Sheet, Sheet!SlideEnds(s) \/ Sheet!MeasureTitle(s)
    PROVE  SheetsInv'
<1>1. CASE Sheet!SlideEnds(s) /\ slide[s] = "in"
  <2>1. Sheet!TypeOK'
    <3>1. /\ onWeb' \in BOOLEAN /\ skipNextClose' \in BOOLEAN /\ mixClose' \in BOOLEAN
          /\ swapping' \in BOOLEAN /\ rowFocus' \in BOOLEAN
          /\ menuView' \in Sheet!View /\ initialView' \in {"root", "complexity"}
          /\ shown' \in [Sheet!Sheet -> BOOLEAN] /\ heard' \in [Sheet!Sheet -> 0..MaxCloses]
          /\ returnTo' \in [Sheet!Sheet -> Sheet!Opener]
      BY <1>1 DEF Sheet!SlideEnds, Sheet!Closed, SheetsInv, SheetsAreSound, Sheet!TypeOK
    <3>2. /\ mounted' \in [Sheet!Sheet -> BOOLEAN]
          /\ titleFocused' \in [Sheet!Sheet -> BOOLEAN]
      BY <1>1 DEF Sheet!SlideEnds, Sheet!Closed, SheetsInv, SheetsAreSound, Sheet!TypeOK
    <3>3. /\ slide' \in [Sheet!Sheet -> {"still", "in", "out"}]
          /\ title' \in [Sheet!Sheet -> {"hidden", "early", "measured"}]
      BY <1>1 DEF Sheet!SlideEnds, Sheet!Closed, SheetsInv, SheetsAreSound, Sheet!TypeOK
    <3>4. focus' \in Sheet!Host
      BY <1>1 DEF Sheet!SlideEnds, Sheet!Closed, SheetsInv, SheetsAreSound, Sheet!TypeOK, Sheet!Host
    <3> QED
      BY <3>1, <3>2, <3>3, <3>4 DEF Sheet!TypeOK
  <2>2. Sheet!SheetsAreSound' /\ \A t \in Sheet!Sheet : ~mounted'[t] => slide'[t] = "still"
    BY <1>1
       DEF Sheet!SlideEnds, Sheet!Closed, SheetsInv, SheetsAreSound,
           Sheet!SheetsAreSound, Sheet!TypeOK, Sheet!Sheet, Sheet!View, Sheet!Opener,
           Sheet!Host
  <2> QED
    BY <2>1, <2>2 DEF SheetsInv, SheetsAreSound
<1>2. CASE Sheet!SlideEnds(s) /\ slide[s] = "out"
  <2>1. Sheet!TypeOK'
    <3>1. /\ onWeb' \in BOOLEAN /\ skipNextClose' \in BOOLEAN /\ mixClose' \in BOOLEAN
          /\ swapping' \in BOOLEAN /\ rowFocus' \in BOOLEAN
          /\ menuView' \in Sheet!View /\ initialView' \in {"root", "complexity"}
          /\ shown' \in [Sheet!Sheet -> BOOLEAN] /\ heard' \in [Sheet!Sheet -> 0..MaxCloses]
          /\ returnTo' \in [Sheet!Sheet -> Sheet!Opener]
      BY <1>2 DEF Sheet!SlideEnds, Sheet!Closed, SheetsInv, SheetsAreSound, Sheet!TypeOK
    <3>2. /\ mounted' \in [Sheet!Sheet -> BOOLEAN]
          /\ titleFocused' \in [Sheet!Sheet -> BOOLEAN]
      BY <1>2 DEF Sheet!SlideEnds, Sheet!Closed, SheetsInv, SheetsAreSound, Sheet!TypeOK
    <3>3. /\ slide' \in [Sheet!Sheet -> {"still", "in", "out"}]
          /\ title' \in [Sheet!Sheet -> {"hidden", "early", "measured"}]
      BY <1>2 DEF Sheet!SlideEnds, Sheet!Closed, SheetsInv, SheetsAreSound, Sheet!TypeOK
    <3>4. focus' \in Sheet!Host
      BY <1>2 DEF Sheet!SlideEnds, Sheet!Closed, SheetsInv, SheetsAreSound, Sheet!TypeOK, Sheet!Host
    <3> QED
      BY <3>1, <3>2, <3>3, <3>4 DEF Sheet!TypeOK
  <2>2. Sheet!SheetsAreSound' /\ \A t \in Sheet!Sheet : ~mounted'[t] => slide'[t] = "still"
    BY <1>2
       DEF Sheet!SlideEnds, Sheet!Closed, SheetsInv, SheetsAreSound,
           Sheet!SheetsAreSound, Sheet!TypeOK, Sheet!Sheet, Sheet!View, Sheet!Opener,
           Sheet!Host
  <2> QED
    BY <2>1, <2>2 DEF SheetsInv, SheetsAreSound
<1>3. CASE Sheet!MeasureTitle(s)
  <2>1. Sheet!TypeOK'
    BY <1>3
       DEF Sheet!MeasureTitle, SheetsInv, SheetsAreSound, Sheet!TypeOK, Sheet!Sheet,
           Sheet!View, Sheet!Opener, Sheet!Host
  <2>2. Sheet!SheetsAreSound' /\ \A t \in Sheet!Sheet : ~mounted'[t] => slide'[t] = "still"
    BY <1>3
       DEF Sheet!MeasureTitle, SheetsInv, SheetsAreSound, Sheet!SheetsAreSound,
           Sheet!TypeOK, Sheet!Sheet, Sheet!View, Sheet!Opener, Sheet!Host
  <2> QED
    BY <2>1, <2>2 DEF SheetsInv, SheetsAreSound
<1> QED
  BY <1>1, <1>2, <1>3 DEF Sheet!SlideEnds

(* The menu turns to a view, back to its root, or to its row.              *)
LEMMA SheetViews ==
    ASSUME SheetsInv, NEW v \in Sheet!View,
           Sheet!OpenView(v) \/ Sheet!BackToRoot \/ Sheet!FocusRow
    PROVE  SheetsInv'
<1>1. CASE Sheet!OpenView(v)
  <2>1. Sheet!TypeOK'
    BY <1>1
       DEF Sheet!OpenView, Sheet!ViewOnly, SheetsInv, SheetsAreSound, Sheet!TypeOK,
           Sheet!Sheet, Sheet!View, Sheet!Opener, Sheet!Host
  <2>2. Sheet!SheetsAreSound' /\ \A t \in Sheet!Sheet : ~mounted'[t] => slide'[t] = "still"
    BY <1>1
       DEF Sheet!OpenView, Sheet!ViewOnly, SheetsInv, SheetsAreSound,
           Sheet!SheetsAreSound, Sheet!TypeOK, Sheet!Sheet, Sheet!View, Sheet!Opener,
           Sheet!Host
  <2> QED
    BY <2>1, <2>2 DEF SheetsInv, SheetsAreSound
<1>2. CASE Sheet!BackToRoot
  <2>1. Sheet!TypeOK'
    BY <1>2
       DEF Sheet!BackToRoot, Sheet!ViewOnly, SheetsInv, SheetsAreSound, Sheet!TypeOK,
           Sheet!Sheet, Sheet!View, Sheet!Opener, Sheet!Host
  <2>2. Sheet!SheetsAreSound' /\ \A t \in Sheet!Sheet : ~mounted'[t] => slide'[t] = "still"
    BY <1>2
       DEF Sheet!BackToRoot, Sheet!ViewOnly, SheetsInv, SheetsAreSound,
           Sheet!SheetsAreSound, Sheet!TypeOK, Sheet!Sheet, Sheet!View, Sheet!Opener,
           Sheet!Host
  <2> QED
    BY <2>1, <2>2 DEF SheetsInv, SheetsAreSound
<1>3. CASE Sheet!FocusRow
  <2>1. Sheet!TypeOK'
    BY <1>3
       DEF Sheet!FocusRow, Sheet!ViewOnly, SheetsInv, SheetsAreSound, Sheet!TypeOK,
           Sheet!Sheet, Sheet!View, Sheet!Opener, Sheet!Host
  <2>2. Sheet!SheetsAreSound' /\ \A t \in Sheet!Sheet : ~mounted'[t] => slide'[t] = "still"
    BY <1>3
       DEF Sheet!FocusRow, Sheet!ViewOnly, SheetsInv, SheetsAreSound,
           Sheet!SheetsAreSound, Sheet!TypeOK, Sheet!Sheet, Sheet!View, Sheet!Opener,
           Sheet!Host
  <2> QED
    BY <2>1, <2>2 DEF SheetsInv, SheetsAreSound
<1> QED
  BY <1>1, <1>2, <1>3

(* A mix is picked on the rail, and its sheet closes once the swap is      *)
(* over.                                                                   *)
LEMMA SheetSwaps ==
    ASSUME SheetsInv, Sheet!PickOnRail \/ Sheet!MixCloseDue \/ Sheet!SwapEnds
    PROVE  SheetsInv'
<1>1. CASE Sheet!PickOnRail
  <2>1. Sheet!TypeOK'
    BY <1>1
       DEF Sheet!PickOnRail, Sheet!Reachable, SheetsInv, SheetsAreSound, Sheet!TypeOK,
           Sheet!Sheet, Sheet!View, Sheet!Opener, Sheet!Host
  <2>2. Sheet!SheetsAreSound' /\ \A t \in Sheet!Sheet : ~mounted'[t] => slide'[t] = "still"
    BY <1>1
       DEF Sheet!PickOnRail, Sheet!Reachable, SheetsInv, SheetsAreSound,
           Sheet!SheetsAreSound, Sheet!TypeOK, Sheet!Sheet, Sheet!View, Sheet!Opener,
           Sheet!Host
  <2> QED
    BY <2>1, <2>2 DEF SheetsInv, SheetsAreSound
<1>2. CASE Sheet!MixCloseDue
  <2>1. Sheet!TypeOK'
    <3>1. heard["laterality"] \in 0..MaxCloses
      BY DEF SheetsInv, SheetsAreSound, Sheet!TypeOK, Sheet!Sheet
    <3>2. heard["laterality"] < MaxCloses => heard["laterality"] + 1 \in 0..MaxCloses
      BY <3>1, ClientAssumption
    <3>3. heard' \in [Sheet!Sheet -> 0..MaxCloses]
      BY <1>2, <3>2 DEF Sheet!MixCloseDue, Sheet!Heard, SheetsInv, SheetsAreSound, Sheet!TypeOK
    <3> QED
      BY <1>2, <3>3 DEF Sheet!MixCloseDue, SheetsInv, SheetsAreSound, Sheet!TypeOK
  <2>2. Sheet!SheetsAreSound' /\ \A t \in Sheet!Sheet : ~mounted'[t] => slide'[t] = "still"
    BY ClientAssumption, <1>2
       DEF Sheet!MixCloseDue, Sheet!Heard, SheetsInv, SheetsAreSound,
           Sheet!SheetsAreSound, Sheet!TypeOK, Sheet!Sheet, Sheet!View, Sheet!Opener,
           Sheet!Host
  <2> QED
    BY <2>1, <2>2 DEF SheetsInv, SheetsAreSound
<1>3. CASE Sheet!SwapEnds
  <2>1. Sheet!TypeOK'
    BY <1>3
       DEF Sheet!SwapEnds, SheetsInv, SheetsAreSound, Sheet!TypeOK, Sheet!Sheet,
           Sheet!View, Sheet!Opener, Sheet!Host
  <2>2. Sheet!SheetsAreSound' /\ \A t \in Sheet!Sheet : ~mounted'[t] => slide'[t] = "still"
    BY <1>3
       DEF Sheet!SwapEnds, SheetsInv, SheetsAreSound, Sheet!SheetsAreSound, Sheet!TypeOK,
           Sheet!Sheet, Sheet!View, Sheet!Opener, Sheet!Host
  <2> QED
    BY <2>1, <2>2 DEF SheetsInv, SheetsAreSound
<1> QED
  BY <1>1, <1>2, <1>3

(* The row of a mix is pressed.                                            *)
LEMMA SheetRows ==
    ASSUME SheetsInv, NEW same \in BOOLEAN, Sheet!PressLateralityRow(same)
    PROVE  SheetsInv'
<1> DEFINE starts == ~same /\ ~swapping
           skip == IF starts THEN shown["laterality"] ELSE skipNextClose
<1>1. /\ mounted["laterality"] /\ Sheet!Dismissed("laterality", skip)
      /\ swapping' = (swapping \/ starts) /\ mixClose' = (mixClose \/ starts)
      /\ UNCHANGED rowFocus
  BY DEF Sheet!PressLateralityRow
<1>2. skip \in BOOLEAN /\ swapping' \in BOOLEAN /\ mixClose' \in BOOLEAN
  BY <1>1 DEF SheetsInv, SheetsAreSound, Sheet!TypeOK, Sheet!Sheet
<1>3. skip => mixClose'
  BY <1>1 DEF SheetsInv, SheetsAreSound, Sheet!SheetsAreSound
<1>4. "laterality" \in Sheet!Sheet
  BY DEF Sheet!Sheet
<1> HIDE DEF skip, starts
<1>5. mixClose => mixClose'
  BY <1>1
<1> QED
  BY <1>1, <1>2, <1>3, <1>4, <1>5, SheetDismissed

(* Every step keeps the invariant of the sheets.                           *)
LEMMA SheetsStep == SheetsInv /\ [ClientNext]_clientVars => SheetsInv'
<1> SUFFICES ASSUME SheetsInv, (Sheet!Next \/ UNCHANGED sheetVars) /\ UNCHANGED onWeb
             PROVE  SheetsInv'
  BY SheetSteps
<1>1. /\ "laterality" \in Sheet!Sheet /\ "menu" \in Sheet!Sheet
      /\ ~skipNextClose /\ skipNextClose \in BOOLEAN /\ swapping \in BOOLEAN
      /\ mixClose \in BOOLEAN
      /\ returnTo \in [Sheet!Sheet -> Sheet!Opener] /\ menuView \in Sheet!View
      /\ initialView \in {"root", "complexity"}
  BY DEF Sheet!Sheet, SheetsInv, SheetsAreSound, Sheet!TypeOK, Sheet!SheetsAreSound
<1>2. CASE Sheet!OpenLateralitySheet
  BY <1>1, <1>2, SheetOpens DEF Sheet!OpenLateralitySheet
<1>3. ASSUME NEW from \in Sheet!Opener, NEW first \in {"root", "complexity"},
             Sheet!OpenMenu(from, first)
      PROVE  SheetsInv'
  <2>1. /\ returnTo' \in [Sheet!Sheet -> Sheet!Opener]
        /\ menuView' \in Sheet!View /\ initialView' \in {"root", "complexity"}
    BY <1>1, <1>3 DEF Sheet!OpenMenu, Sheet!View
  <2>2. /\ Sheet!Reachable /\ Sheet!Opens("menu")
        /\ UNCHANGED <<onWeb, title, rowFocus, swapping, skipNextClose, mixClose>>
    BY <1>3 DEF Sheet!OpenMenu
  <2> QED
    BY <1>1, <2>1, <2>2, SheetOpens
<1>4. ASSUME NEW s \in Sheet!Sheet, Sheet!Dismiss(s)
      PROVE  SheetsInv'
  <2> DEFINE skip == s = "laterality" /\ skipNextClose
  <2>1. ~skip /\ skip \in BOOLEAN
    BY <1>1
  <2>2. /\ mounted[s] /\ Sheet!Dismissed(s, skip)
        /\ UNCHANGED <<rowFocus, swapping, mixClose>>
    BY <1>4 DEF Sheet!Dismiss
  <2> HIDE DEF skip
  <2>3. swapping' \in BOOLEAN /\ mixClose' \in BOOLEAN /\ (mixClose => mixClose')
    BY <1>1, <2>2
  <2> QED
    BY <2>1, <2>2, <2>3, SheetDismissed
<1>5. CASE Sheet!BackOutOfPicker \/ Sheet!ReplayTips
  <2> DEFINE skip == FALSE
  <2>2. /\ mounted["menu"] /\ Sheet!Dismissed("menu", skip)
        /\ UNCHANGED <<rowFocus, swapping, mixClose>>
    BY <1>5 DEF Sheet!BackOutOfPicker, Sheet!ReplayTips
  <2>1. ~skip /\ skip \in BOOLEAN
    OBVIOUS
  <2> HIDE DEF skip
  <2>3. swapping' \in BOOLEAN /\ mixClose' \in BOOLEAN /\ (mixClose => mixClose')
    BY <1>1, <2>2
  <2> QED
    BY <1>1, <2>1, <2>2, <2>3, SheetDismissed
<1>6. CASE UNCHANGED sheetVars
  BY <1>6 DEF sheetVars, SheetsInv, SheetsAreSound, Sheet!TypeOK, Sheet!SheetsAreSound
<1>7. /\ "menuButton" \in Sheet!Opener /\ "complexityLabel" \in Sheet!Opener
      /\ "root" \in Sheet!View
  BY DEF Sheet!Opener, Sheet!View
<1> QED
  BY <1>2, <1>3, <1>4, <1>5, <1>6, <1>7, SheetSlides, SheetViews, SheetRows, SheetSwaps
     DEF Sheet!Next

(* An open sheet is on screen and a closing one slides out, the focus goes *)
(* back to what the last of them was opened from, and no close is unheard  *)
(* -- for any bound of closes, however slides, swaps, presses and keys     *)
(* interleave (Sheet.tsx, AppMenuSheet.tsx, LateralitySheet.tsx).          *)
THEOREM SheetsCorrect == ClientSpec => []SheetsAreSound
<1>1. SheetsInv => SheetsAreSound
  BY DEF SheetsInv
<1> QED
  BY <1>1, SheetsStart, SheetsStep, PTL DEF ClientSpec

-----------------------------------------------------------------------------
(* The room of the card.                                                   *)

(* The larger and the smaller of two numbers.                              *)
LEMMA LargerOf ==
    ASSUME NEW a \in Int, NEW b \in Int
    PROVE  Page!Max({a, b}) = IF a >= b THEN a ELSE b
<1> DEFINE m == IF a >= b THEN a ELSE b
<1>1. m \in {a, b} /\ \A y \in {a, b} : m >= y
  OBVIOUS
<1>2. \A x \in {a, b} : (\A y \in {a, b} : x >= y) => x = m
  OBVIOUS
<1> HIDE DEF m
<1>3. Page!Max({a, b}) = m
  BY <1>1, <1>2 DEF Page!Max
<1> QED
  BY <1>3 DEF m

(* And the smaller.                                                        *)
LEMMA SmallerOf ==
    ASSUME NEW a \in Int, NEW b \in Int
    PROVE  Page!Min({a, b}) = IF a <= b THEN a ELSE b
<1> DEFINE m == IF a <= b THEN a ELSE b
<1>1. m \in {a, b} /\ \A y \in {a, b} : m <= y
  OBVIOUS
<1>2. \A x \in {a, b} : (\A y \in {a, b} : x <= y) => x = m
  OBVIOUS
<1> HIDE DEF m
<1>3. Page!Min({a, b}) = m
  BY <1>1, <1>2 DEF Page!Min
<1> QED
  BY <1>3 DEF m

(* What the code finds, without maxima and minima: the width of the column *)
(* without its gutters, the width and the height of the card, and what is  *)
(* left of a room.                                                         *)
RoomOf(col) == IF col <= 240 THEN 0 ELSE col - 240
WidthOf(room, av) ==
    LET fits == (av * 10) \div 13
    IN  IF av >= (room * 13) \div 10 \/ room <= fits \/ room <= 2880 THEN room
        ELSE IF fits <= 2880 THEN 2880 ELSE fits
HeightOf(wide, av) ==
    IF av >= (wide * 14) \div 10 THEN (wide * 14) \div 10
    ELSE IF av >= (wide * 13) \div 10 THEN av ELSE (wide * 13) \div 10
Over(n, m) == IF n <= m THEN 0 ELSE n - m

(* The width of the card, without maxima.                                  *)
LEMMA WidthIs ==
    ASSUME NEW room \in Nat, NEW av \in Nat
    PROVE  /\ WidthOf(room, av) \in Nat
           /\ WidthOf(room, av) =
                IF ~(av < Page!AtRatio(Page!min, room)) THEN room
                ELSE Page!Min({room, Page!Max({Page!minCardWidth,
                                               (av * 10) \div Page!min})})
<1> DEFINE q == (av * 10) \div 13
           m == IF 2880 >= q THEN 2880 ELSE q
<1>1. q \in Nat
  OBVIOUS
<1>2. Page!Max({2880, q}) = m
  BY <1>1, LargerOf
<1>3. m \in Nat
  BY <1>1
<1>4. Page!Min({room, m}) = IF room <= m THEN room ELSE m
  BY <1>3, SmallerOf
<1>6. WidthOf(room, av) \in Nat
  BY <1>1 DEF WidthOf
<1>7. WidthOf(room, av) = IF ~(av < (room * 13) \div 10) THEN room
                          ELSE IF room <= m THEN room ELSE m
  BY <1>1 DEF WidthOf
<1> QED
  BY <1>2, <1>4, <1>6, <1>7 DEF Page!AtRatio, Page!min, Page!minCardWidth

(* The height of the card, without maxima.                                 *)
LEMMA HeightIs ==
    ASSUME NEW wide \in Nat, NEW av \in Nat
    PROVE  /\ HeightOf(wide, av) \in Nat
           /\ HeightOf(wide, av) =
                IF av >= Page!AtRatio(Page!preferred, wide)
                THEN Page!AtRatio(Page!preferred, wide)
                ELSE Page!Max({av, Page!AtRatio(Page!min, wide)})
<1>1. (wide * 13) \div 10 \in Nat /\ (wide * 14) \div 10 \in Nat
  OBVIOUS
<1>2. Page!Max({av, (wide * 13) \div 10})
        = IF av >= (wide * 13) \div 10 THEN av ELSE (wide * 13) \div 10
  BY <1>1, LargerOf
<1> QED
  BY <1>1, <1>2 DEF HeightOf, Page!AtRatio, Page!preferred, Page!min

(* The card with all of what is left above it, and with equal gaps.        *)
Alone(col, av) ==
    LET room == RoomOf(col)
        wide == WidthOf(room, av)
        high == HeightOf(wide, av)
    IN  IF room = 0 THEN [width |-> 0, height |-> 0, above |-> 0, below |-> 0]
        ELSE [width |-> wide, height |-> high, above |-> Over(av, high), below |-> 0]
Upper(spare) == IF spare <= 150 THEN 0 ELSE (spare - 150) \div 2
Shared(col, av) ==
    LET room == RoomOf(col)
        wide == WidthOf(room, av)
        high == HeightOf(wide, av)
        spare == Over(av, high)
    IN  IF room = 0 THEN [width |-> 0, height |-> 0, above |-> 0, below |-> 0]
        ELSE [width |-> wide, height |-> high, above |-> Upper(spare),
              below |-> spare - Upper(spare)]

(* The layout of the card in a room, alone in it or shared with the row.   *)
LEMMA LayoutIs ==
    ASSUME NEW col \in Nat, NEW av \in Nat
    PROVE  /\ Page!resolveCardAspectLayout(col, av, FALSE) = Alone(col, av)
           /\ Page!resolveCardAspectLayout(col, av, TRUE) = Shared(col, av)
<1> DEFINE room == RoomOf(col)
           wide == WidthOf(room, av)
           high == HeightOf(wide, av)
           spare == Over(av, high)
<1>1. room \in Nat /\ room = Page!NotBelow0(col - 2 * Page!CARD_STACK_GUTTER)
  BY DEF RoomOf, Page!NotBelow0, Page!CARD_STACK_GUTTER
<1> HIDE DEF room
<1>2. /\ wide \in Nat
      /\ wide = IF ~(av < Page!AtRatio(Page!min, room)) THEN room
                ELSE Page!Min({room, Page!Max({Page!minCardWidth,
                                               (av * 10) \div Page!min})})
  BY <1>1, WidthIs
<1> HIDE DEF wide
<1>3. /\ high \in Nat
      /\ high = IF av >= Page!AtRatio(Page!preferred, wide)
                THEN Page!AtRatio(Page!preferred, wide)
                ELSE Page!Max({av, Page!AtRatio(Page!min, wide)})
  BY <1>2, HeightIs
<1> HIDE DEF high
<1>4. spare \in Nat /\ spare = Page!NotBelow0(av - high)
  BY <1>3 DEF Over, Page!NotBelow0
<1> HIDE DEF spare
<1>5. Page!resolveEqualCardGaps(spare)
        = [above |-> Upper(spare), below |-> spare - Upper(spare)]
  <2>1. Page!complexityDotsBottomToControlBottom - Page!LABEL_GLYPH_TOP_INSET = 150
    BY DEF Page!complexityDotsBottomToControlBottom, Page!LABEL_GLYPH_TOP_INSET,
           Page!LATERALITY_RAIL_HEIGHT, Page!RAIL_DOT_RADIUS
  <2>2. CASE spare <= 150
    BY <1>4, <2>1, <2>2 DEF Page!resolveEqualCardGaps, Upper
  <2>3. CASE ~(spare <= 150)
    BY <1>4, <2>1, <2>3 DEF Page!resolveEqualCardGaps, Upper
  <2> QED
    BY <2>2, <2>3
<1>6. Page!resolveCardAspectLayout(col, av, FALSE)
        = IF room = 0 THEN [width |-> 0, height |-> 0, above |-> 0, below |-> 0]
          ELSE [width |-> wide, height |-> high, above |-> spare, below |-> 0]
  BY <1>1, <1>2, <1>3, <1>4, Zenon DEF Page!resolveCardAspectLayout
<1>7. Page!resolveCardAspectLayout(col, av, TRUE)
        = IF room = 0 THEN [width |-> 0, height |-> 0, above |-> 0, below |-> 0]
          ELSE [width |-> wide, height |-> high,
                above |-> Page!resolveEqualCardGaps(spare).above,
                below |-> Page!resolveEqualCardGaps(spare).below]
  BY <1>1, <1>2, <1>3, <1>4, Zenon DEF Page!resolveCardAspectLayout
<1>8. Page!resolveCardAspectLayout(col, av, FALSE) = Alone(col, av)
  BY <1>6, Zenon DEF Alone, room, wide, high, spare
<1>9. Page!resolveCardAspectLayout(col, av, TRUE) = Shared(col, av)
  <2> DEFINE gaps == Page!resolveEqualCardGaps(spare)
  <2>1. gaps.above = Upper(spare) /\ gaps.below = spare - Upper(spare)
    BY <1>5
  <2> HIDE DEF gaps
  <2>2. Page!resolveCardAspectLayout(col, av, TRUE)
        = IF room = 0 THEN [width |-> 0, height |-> 0, above |-> 0, below |-> 0]
          ELSE [width |-> wide, height |-> high, above |-> Upper(spare),
                below |-> spare - Upper(spare)]
    BY <1>7, <2>1, Zenon DEF gaps
  <2> QED
    BY <2>2, Zenon DEF Shared, room, wide, high, spare
<1> QED
  BY <1>8, <1>9

(* A card is between 1.3 and 1.4 times as high as it is wide.              *)
LEMMA HeightLaw ==
    ASSUME NEW wide \in Nat, NEW av \in Nat, NEW high, high = HeightOf(wide, av)
    PROVE  /\ (wide * 13) \div 10 <= high /\ high <= (wide * 14) \div 10
           /\ av > high => high = (wide * 14) \div 10
           /\ av >= (wide * 13) \div 10 => high <= av
  BY DEF HeightOf

(* A card is narrowed only to take all of the height.                      *)
LEMMA TightWidth ==
    ASSUME NEW room \in Nat, NEW av \in Nat, NEW wide, wide = WidthOf(room, av),
           NEW high, high = HeightOf(wide, av), av > high
    PROVE  wide = room
<1>1. wide \in Nat
  BY WidthIs
<1>2. high = (wide * 14) \div 10 /\ high \in Nat
  BY <1>1, HeightLaw, HeightIs
<1>3. CASE wide # room
  <2>1. /\ av < (room * 13) \div 10 /\ room > 2880 /\ room > (av * 10) \div 13
        /\ wide = IF (av * 10) \div 13 <= 2880 THEN 2880 ELSE (av * 10) \div 13
    BY <1>3 DEF WidthOf
  <2>2. CASE (av * 10) \div 13 <= 2880
    BY <2>1, <2>2, <1>2
  <2>3. CASE ~((av * 10) \div 13 <= 2880)
    <3> DEFINE q == (av * 10) \div 13
    <3>1. q > 2880 /\ q \in Nat /\ 13 * q + 13 > av * 10
      BY <2>3
    <3>2. (q * 14) \div 10 \in Nat /\ q * 14 < 10 * ((q * 14) \div 10) + 10
      BY <3>1
    <3>3. wide = q
      BY <2>1, <2>3
    <3> HIDE DEF q
    <3> QED
      BY <3>1, <3>2, <3>3, <1>2
  <2> QED
    BY <2>2, <2>3
<1> QED
  BY <1>3

(* The card of a height that the same card and the gap above it take.      *)
LEMMA SameAgain ==
    ASSUME NEW col \in Nat, NEW av \in Nat
    PROVE  LET s == Shared(col, av)
               a == Alone(col, s.above + s.height)
           IN  /\ a.width = s.width /\ a.height = s.height /\ a.above = s.above
               /\ s.above + s.height \in Nat
<1> DEFINE room == RoomOf(col)
           wide == WidthOf(room, av)
           high == HeightOf(wide, av)
           spare == Over(av, high)
           upper == Upper(spare)
           again == upper + high
<1>1. room \in Nat
  BY DEF RoomOf
<1>2. CASE room = 0
  <2>1. Shared(col, av) = [width |-> 0, height |-> 0, above |-> 0, below |-> 0]
    BY <1>2 DEF Shared
  <2>2. Alone(col, 0) = [width |-> 0, height |-> 0, above |-> 0, below |-> 0]
    BY <1>2 DEF Alone
  <2> QED
    BY <2>1, <2>2
<1>3. CASE room # 0
  <2> HIDE DEF room
  <2>1. wide \in Nat /\ high \in Nat
    BY <1>1, WidthIs, HeightIs
  <2>2. spare \in Nat /\ upper \in Nat /\ upper <= spare
    <3>1. spare \in Nat
      BY <2>1 DEF Over
    <3> HIDE DEF spare
    <3> QED
      BY <3>1 DEF Upper
  <2>3. (spare > 0 => av = high + spare) /\ (spare = 0 => av <= high)
    BY <2>1 DEF Over
  <2>4. spare > 0 => high = (wide * 14) \div 10
    BY <2>1, <2>2, <2>3, HeightLaw
  <2>5. again \in Nat
    BY <2>1, <2>2
  <2>6. WidthOf(room, again) = wide
    <3>1. CASE spare > 0
      <4>1. again >= (wide * 14) \div 10
        BY <2>2, <2>1, <2>4, <3>1
      <4>2. wide = room
        BY <1>1, <2>1, <2>2, <2>3, <3>1, TightWidth
      <4> QED
        BY <1>1, <4>1, <4>2, <2>5 DEF WidthOf
    <3>2. CASE spare = 0
      <4>1. again = high
        BY <2>1, <2>2, <3>2
      <4>2. CASE wide = room
        <5>1. high >= (wide * 13) \div 10
          BY <2>1 DEF HeightOf
        <5> QED
          BY <1>1, <4>1, <4>2, <5>1, <2>1 DEF WidthOf
      <4>3. CASE wide # room
        <5>1. /\ av < (room * 13) \div 10 /\ room > 2880 /\ room > (av * 10) \div 13
              /\ wide = IF (av * 10) \div 13 <= 2880 THEN 2880 ELSE (av * 10) \div 13
          BY <1>1, <4>3 DEF WidthOf
        <5>2. CASE (av * 10) \div 13 <= 2880
          <6>1. wide = 2880 /\ high >= 3744
            BY <5>1, <5>2 DEF HeightOf
          <6>2. av < 3757
            BY <5>2
          <6>3. high = IF av >= 3744 THEN av ELSE 3744
            BY <6>1, <6>2 DEF HeightOf
          <6>4. (high * 10) \div 13 <= 2880 
            BY <5>2, <6>3
          <6>5. high < (room * 13) \div 10
            BY <5>1, <6>3, <1>1
          <6> QED
            BY <1>1, <6>1, <6>4, <6>5, <4>1, <5>1, <2>1 DEF WidthOf
        <5>3. CASE ~((av * 10) \div 13 <= 2880)
          <6>1. wide = (av * 10) \div 13
            BY <5>1, <5>3
          <6>2. high = av
            BY <2>1, <2>3, <3>2, <6>1, <5>3 DEF HeightOf
          <6> QED
            BY <4>1, <6>2
        <5> QED
          BY <5>2, <5>3
      <4> QED
        BY <4>2, <4>3
    <3> QED
      BY <2>2, <3>1, <3>2
  <2>7. HeightOf(wide, again) = high
    <3>1. CASE spare > 0
      BY <2>1, <2>2, <2>4, <3>1 DEF HeightOf
    <3>2. CASE spare = 0
      <4>1. again = high
        BY <2>1, <2>2, <3>2
      <4> QED
        BY <4>1, <2>1 DEF HeightOf
    <3> QED
      BY <2>2, <3>1, <3>2
  <2>8. Over(again, high) = upper
    BY <2>1, <2>2 DEF Over
  <2>9. Shared(col, av) = [width |-> wide, height |-> high, above |-> upper,
                           below |-> spare - upper]
    BY <1>3 DEF Shared, room
  <2> HIDE DEF wide, high, spare, upper, again
  <2>10. Alone(col, again) = [width |-> wide, height |-> high, above |-> upper,
                              below |-> 0]
    BY <1>3, <2>6, <2>7, <2>8 DEF Alone, room
  <2>11. Shared(col, av).above + Shared(col, av).height = again
    BY <2>9 DEF again
  <2> QED
    BY <2>5, <2>9, <2>10, <2>11
<1> QED
  BY <1>2, <1>3
(* What the layout gives the card.                                         *)
CardFits(c, col, av) ==
    /\ c.width \in Nat /\ c.height \in Nat /\ c.above \in Nat /\ c.below \in Nat
    /\ (c.width * 13) \div 10 <= c.height /\ c.height <= (c.width * 15) \div 10
    /\ c.width <= col - 240 /\ (c.width >= 2880 \/ c.width = col - 240)
    /\ c.above + c.below > 0 => c.height = (c.width * 14) \div 10
    /\ c.above + c.below >= 150 => (c.above + 195) - (c.below + 45) \in -1..1
    /\ av >= 3744 => c.above + c.height + c.below <= av

(* The card fits the room that it was laid out for.                        *)
LEMMA CardIs ==
    ASSUME NEW col \in Nat, NEW av \in Nat, col >= 240, NEW c, c = Shared(col, av)
    PROVE  CardFits(c, col, av)
<1> DEFINE room == RoomOf(col)
           wide == WidthOf(room, av)
           high == HeightOf(wide, av)
           spare == Over(av, high)
           upper == Upper(spare)
<1>1. room \in Nat /\ room = col - 240
  BY DEF RoomOf
<1>2. CASE room = 0
  <2>1. c = [width |-> 0, height |-> 0, above |-> 0, below |-> 0]
    BY <1>2 DEF Shared
  <2> QED
    BY <1>1, <1>2, <2>1 DEF CardFits
<1>3. CASE room # 0
  <2> HIDE DEF room
  <2>1. wide \in Nat /\ high \in Nat
    BY <1>1, WidthIs, HeightIs
  <2>2. /\ (wide * 13) \div 10 <= high /\ high <= (wide * 14) \div 10
        /\ av > high => high = (wide * 14) \div 10
        /\ av >= (wide * 13) \div 10 => high <= av
    BY <2>1, HeightLaw
  <2>3. /\ wide <= room /\ (wide >= 2880 \/ wide = room)
        /\ av >= 3744 => (wide * 13) \div 10 <= av
    <3>1. CASE av >= (room * 13) \div 10
      BY <1>1, <3>1 DEF WidthOf
    <3>2. CASE ~(av >= (room * 13) \div 10) /\ room <= (av * 10) \div 13
      BY <1>1, <3>2 DEF WidthOf
    <3>3. CASE ~(av >= (room * 13) \div 10) /\ ~(room <= (av * 10) \div 13) /\ room <= 2880
      BY <1>1, <3>3 DEF WidthOf
    <3>4. CASE /\ ~(av >= (room * 13) \div 10) /\ ~(room <= (av * 10) \div 13)
               /\ ~(room <= 2880)
      BY <1>1, <3>4 DEF WidthOf
    <3> QED
      BY <3>1, <3>2, <3>3, <3>4
  <2> HIDE DEF wide, high
  <2>4. /\ spare \in Nat /\ (spare > 0 => av = high + spare)
        /\ (spare = 0 => av <= high)
    BY <2>1 DEF Over
  <2> HIDE DEF spare
  <2>5. /\ upper \in Nat /\ upper <= spare
        /\ spare >= 150 => (upper + 195) - (spare - upper + 45) \in -1..1
    <3>1. CASE spare <= 150
      BY <2>4, <3>1 DEF Upper
    <3>2. CASE ~(spare <= 150)
      <4>1. PICK half \in Nat : half = (spare - 150) \div 2
                                /\ 2 * half <= spare - 150 /\ spare - 150 <= 2 * half + 1
        BY <2>4, <3>2
      <4>2. upper = half
        BY <3>2, <4>1 DEF Upper
      <4> QED
        BY <2>4, <4>1, <4>2
    <3> QED
      BY <3>1, <3>2
  <2> HIDE DEF upper
  <2>6. c = [width |-> wide, height |-> high, above |-> upper, below |-> spare - upper]
    BY <1>3 DEF Shared, room, wide, high, spare, upper
  <2>7. /\ c.width = wide /\ c.height = high /\ c.above = upper
        /\ c.below = spare - upper
    BY <2>6
  <2>8. (wide * 14) \div 10 <= (wide * 15) \div 10
        /\ (wide * 14) \div 10 \in Nat /\ (wide * 15) \div 10 \in Nat
        /\ (wide * 13) \div 10 \in Nat
    BY <2>1
  <2>9. /\ spare - upper \in Nat /\ upper + (spare - upper) = spare
        /\ av >= 3744 => upper + high + (spare - upper) <= av
    BY <2>1, <2>2, <2>3, <2>4, <2>5, <2>8
  <2>10. /\ wide \in Nat /\ high \in Nat /\ upper \in Nat /\ spare - upper \in Nat
         /\ (wide * 13) \div 10 <= high /\ high <= (wide * 15) \div 10
         /\ wide <= col - 240 /\ (wide >= 2880 \/ wide = col - 240)
    BY <1>1, <2>1, <2>2, <2>3, <2>5, <2>8, <2>9
  <2>11. /\ upper + (spare - upper) > 0 => high = (wide * 14) \div 10
         /\ upper + (spare - upper) >= 150 =>
              (upper + 195) - (spare - upper + 45) \in -1..1
    BY <2>1, <2>2, <2>4, <2>5, <2>9
  <2> QED
    BY <2>7, <2>9, <2>10, <2>11 DEF CardFits
<1> QED
  BY <1>2, <1>3

-----------------------------------------------------------------------------
(* What the layout reads: a screen, and measured heights, of any kind.     *)
PageTypes ==
    /\ window \in Screens /\ text \in Texts /\ navShown \in BOOLEAN
    /\ heights \in [complexity : Nat, laterality : Nat, nav : Nat, column : Nat]

(* One step of the page is a step of its module.                           *)
LEMMA PageSteps ==
    [ClientNext]_clientVars => Page!Next \/ UNCHANGED pageVars
  BY DEF ClientNext, OthersRest, Keeps, clientVars

(* What the page measures is a number, and the column takes its gutters.   *)
LEMMA ColumnIs ==
    ASSUME PageTypes
    PROVE  /\ window.width \in Nat /\ window.height \in Nat /\ window.top \in Nat
           /\ window.bottom \in Nat /\ Page!columnWidth \in Nat /\ Page!columnWidth >= 240
           /\ Page!cardVerticalBudget \in Nat
           /\ Page!practiceHeaderToComplexityOffset = 519
<1>1. /\ window.width \in Nat /\ window.height \in Nat /\ window.top \in Nat
      /\ window.bottom \in Nat /\ window.width >= 240
  BY ClientAssumption DEF PageTypes
<1>2. Page!columnWidth = IF window.width <= 4800 THEN window.width ELSE 4800
  BY <1>1, SmallerOf DEF Page!columnWidth, Page!PRACTICE_COLUMN_MAX_WIDTH
<1>3. Page!practiceHeaderToComplexityOffset = 519
  <2>1. Page!practiceHeaderRowHeight = 480
    BY LargerOf DEF Page!practiceHeaderRowHeight
  <2> QED
    BY <2>1 DEF Page!practiceHeaderToComplexityOffset, Page!practiceWordmarkTopOffset,
                Page!NotBelow0, Page!LABEL_GLYPH_TOP_INSET
<1>4. /\ heights.complexity \in Nat /\ heights.laterality \in Nat /\ heights.nav \in Nat
  BY DEF PageTypes
<1>5. Page!cardVerticalBudget \in Nat
  BY <1>1, <1>3, <1>4 DEF Page!cardVerticalBudget, Page!NotBelow0
<1> QED
  BY <1>1, <1>2, <1>3, <1>5

(* Whatever has been measured, the card fits its screen.                   *)
LEMMA PageFits ==
    ASSUME PageTypes
    PROVE  Page!CardFitsItsScreen
<1> DEFINE col == Page!columnWidth
           av == Page!cardVerticalBudget
           c == Page!Layout
<1>1. col \in Nat /\ col >= 240 /\ av \in Nat
  BY ColumnIs
<1>2. c = Shared(col, av)
  BY <1>1, LayoutIs DEF Page!Layout
<1>3. /\ c.width \in Nat /\ c.height \in Nat /\ c.above \in Nat /\ c.below \in Nat
      /\ (c.width * 13) \div 10 <= c.height /\ c.height <= (c.width * 15) \div 10
      /\ c.width <= col - 240 /\ (c.width >= 2880 \/ c.width = col - 240)
      /\ c.above + c.below > 0 => c.height = (c.width * 14) \div 10
      /\ c.above + c.below >= 150 => (c.above + 195) - (c.below + 45) \in -1..1
      /\ av >= 3744 => c.above + c.height + c.below <= av
  <2> HIDE DEF c, col, av
  <2>1. CardFits(c, col, av)
    BY <1>1, <1>2, CardIs
  <2> QED
    BY <2>1 DEF CardFits
<1>4. Page!OneCard
  <2>1. /\ Page!stackAvailableHeight = c.above + c.height
        /\ Page!stackAvailableHeight \in Nat
    BY <1>3 DEF Page!stackAvailableHeight
  <2> DEFINE a == Alone(col, Page!stackAvailableHeight)
  <2>2. Page!resolveCardAspectLayout(col, Page!stackAvailableHeight, FALSE) = a
    BY <1>1, <2>1, LayoutIs
  <2>3. a.width = c.width /\ a.height = c.height /\ a.above = c.above
    BY <1>1, <1>2, <2>1, SameAgain
  <2> HIDE DEF a
  <2>4. /\ Page!CueFrame.width = c.width /\ Page!CueFrame.height = c.height
        /\ Page!CueFrame.top = c.above
    BY <2>2, <2>3 DEF Page!CueFrame
  <2>5. heights.column = col =>
          /\ Page!StackCard.width = c.width /\ Page!StackCard.height = c.height
          /\ Page!StackCard.above = c.above
    BY <2>2, <2>3 DEF Page!StackCard
  <2> HIDE DEF c
  <2> QED
    BY <2>4, <2>5 DEF Page!OneCard, c
<1>5. Page!NeverSquashed
  <2>1. Page!Min({col - 240, 2880}) = IF col - 240 <= 2880 THEN col - 240 ELSE 2880
    BY <1>1, SmallerOf
  <2> HIDE DEF c, col
  <2>2. Page!Min({col - 240, 2880}) <= c.width
    BY <1>1, <1>3, <2>1
  <2> QED
    BY <1>1, <1>3, <2>2
       DEF Page!NeverSquashed, Page!AtRatio, Page!min, Page!max, Page!preferred,
           Page!minCardWidth, Page!CARD_STACK_GUTTER, c, col
<1>6. Page!GapsLookEqual
  <2>1. /\ Page!complexityDotsBottomToControlBottom = 195
        /\ Page!LABEL_GLYPH_TOP_INSET = 45
    BY DEF Page!complexityDotsBottomToControlBottom, Page!LABEL_GLYPH_TOP_INSET,
           Page!LATERALITY_RAIL_HEIGHT, Page!RAIL_DOT_RADIUS
  <2> HIDE DEF c
  <2>2. c.above + c.below >= 150 => (c.above + 195) - (c.below + 45) \in -10..10
    BY <1>3
  <2> QED
    BY <2>1, <2>2
       DEF Page!GapsLookEqual, Page!visibleCardGapAbove, Page!visibleCardGapBelow, c
<1>7. Page!ColumnFits
  <2> SUFFICES ASSUME Page!AllMeasured, av >= 3744
               PROVE  Page!Used <= window.height - window.top - window.bottom
    BY DEF Page!ColumnFits, Page!AtRatio, Page!min, Page!minCardWidth
  <2> DEFINE row == IF navShown THEN Height[text].nav ELSE 0
             h1 == Height[text].complexity
             h2 == Height[text].laterality
  <2>1. h1 \in Nat /\ h2 \in Nat /\ Height[text].nav \in Nat
    <3>1. \A control \in {"complexity", "laterality", "nav"} :
             Height[text][control] \in Nat
      BY ClientAssumption DEF PageTypes
    <3> QED
      BY <3>1
  <2>2. heights.complexity = h1 /\ heights.laterality = h2
        /\ (navShown => heights.nav = Height[text].nav)
    <3>1. heights["complexity"] = Height[text]["complexity"]
      BY DEF Page!AllMeasured
    <3>2. heights["laterality"] = Height[text]["laterality"]
      BY DEF Page!AllMeasured
    <3>3. navShown => heights["nav"] = Height[text]["nav"]
      BY DEF Page!AllMeasured
    <3> QED
      BY <3>1, <3>2, <3>3
  <2> HIDE DEF h1, h2
  <2>3. av = window.height - window.top - window.bottom - 519 - h1 - h2 - row
    <3>1. /\ window.height \in Nat /\ window.top \in Nat /\ window.bottom \in Nat
      BY ColumnIs
    <3>2. av = Page!NotBelow0(window.height - window.top - window.bottom
                              - 519 - h1 - h2 - row)
      BY <2>2, ColumnIs DEF Page!cardVerticalBudget
    <3>3. row \in Nat
      BY <2>1
    <3> HIDE DEF row, av
    <3> QED
      BY <2>1, <3>1, <3>2, <3>3 DEF Page!NotBelow0
  <2>4. Page!Used = 519 + c.above + c.height + c.below + h1 + h2 + row
    BY ColumnIs DEF Page!Used, h1, h2
  <2>5. row \in Nat
    BY <2>1
  <2> HIDE DEF c, row, av
  <2>6. /\ window.height \in Nat /\ window.top \in Nat /\ window.bottom \in Nat
    BY ColumnIs
  <2> QED
    BY <1>1, <1>3, <2>1, <2>3, <2>4, <2>5, <2>6
<1> QED
  BY <1>4, <1>5, <1>6, <1>7 DEF Page!CardFitsItsScreen

(* Init: nothing has been measured.                                        *)
LEMMA PageStarts == ClientInit => PageTypes
<1> SUFFICES ASSUME ClientInit PROVE PageTypes
  OBVIOUS
<1>1. Page!Init
  BY DEF ClientInit
<1>2. /\ Page!LATERALITY_CONTROL_HEIGHT \in Nat
      /\ Page!ACCESSIBLE_NAV_ROW_MIN_HEIGHT \in Nat
  BY DEF Page!LATERALITY_CONTROL_HEIGHT, Page!LATERALITY_RAIL_HEIGHT,
         Page!ACCESSIBLE_NAV_ROW_MIN_HEIGHT
<1>3. heights \in [complexity : Nat, laterality : Nat, nav : Nat, column : Nat]
  BY <1>1, <1>2 DEF Page!Init
<1> QED
  BY <1>1, <1>3 DEF Page!Init, PageTypes

(* Every step keeps the types of the page.                                 *)
LEMMA PageStep == PageTypes /\ [ClientNext]_clientVars => PageTypes'
<1> SUFFICES ASSUME PageTypes, Page!Next \/ UNCHANGED pageVars
             PROVE  PageTypes'
  BY PageSteps
<1>1. ASSUME NEW control \in {"complexity", "laterality", "nav"},
             Page!ControlMeasured(control)
      PROVE  PageTypes'
  <2>1. Height[text][control] \in Nat
    BY ClientAssumption DEF PageTypes
  <2> QED
    BY <1>1, <2>1 DEF Page!ControlMeasured, PageTypes
<1>2. CASE Page!ColumnMeasured
  BY <1>2, ColumnIs DEF Page!ColumnMeasured, PageTypes
<1>3. CASE Page!NavToggles
  BY <1>3 DEF Page!NavToggles, PageTypes
<1>4. ASSUME NEW to \in Screens, Page!Resize(to) PROVE PageTypes'
  BY <1>4 DEF Page!Resize, PageTypes
<1>5. ASSUME NEW to \in Texts, Page!TextChanges(to) PROVE PageTypes'
  BY <1>5 DEF Page!TextChanges, PageTypes
<1>6. CASE UNCHANGED pageVars
  BY <1>6 DEF pageVars, PageTypes
<1> QED
  BY <1>1, <1>2, <1>3, <1>4, <1>5, <1>6 DEF Page!Next

(* The card fits its screen, for all screens, texts and heights, and what  *)
(* has been measured of them so far.                                       *)
THEOREM LayoutCorrect == ClientSpec => []CardFitsItsScreen
<1>1. PageTypes => CardFitsItsScreen
  BY PageFits DEF CardFitsItsScreen
<1> QED
  BY <1>1, PageStarts, PageStep, PTL DEF ClientSpec

-----------------------------------------------------------------------------
(* Preferences.                                                            *)

(* The inductive invariant of a preference.                                *)
PrefTypes ==
    /\ key \in Prefs!Key
    /\ writes \in Seq(Choice[key])
    /\ hydrated \in BOOLEAN /\ intro \in BOOLEAN /\ lost \in BOOLEAN
    /\ swap \in [committed : {swap.committed}, running : BOOLEAN]
    /\ motion \in [os : BOOLEAN, seen : BOOLEAN, web : BOOLEAN, news : BOOLEAN,
                   browser : BOOLEAN]
    /\ url \in [asks : {url.asks}, live : BOOLEAN]

(* What has been written, and what is still to be, ends on what was        *)
(* settled; before the preference is loaded nothing is written.            *)
WritesEnd ==
    /\ writes # <<>> => writes[Len(writes)] = picked
    /\ writes = <<>> /\ ~lost => Prefs!Own(stored) = picked
    /\ ~hydrated => intro /\ writes = <<>> /\ ~lost /\ ~swap.running

(* A swap under way is one to a grade that was picked, away from the last  *)
(* that was settled.                                                       *)
SwapIsPicked ==
    /\ swap.running => key = "laterality" /\ hydrated /\ pref \in Choice[key]
    /\ key = "laterality" /\ hydrated /\ prefFrom = "own" => swap.committed = picked

(* Only a change on its way hides that the system says reduced.            *)
MotionIsSeen ==
    /\ key = "motion" => url.asks = None /\ prefFrom = "own"
    /\ motion.seen \/ motion.news \/ ~motion.os

PrefInv == PrefTypes /\ WritesEnd /\ Prefs!PicksStay /\ SwapIsPicked /\ MotionIsSeen

(* One step of a preference is a step of its module.                       *)
LEMMA PrefSteps == [ClientNext]_clientVars => Prefs!Next \/ UNCHANGED prefVars
  BY DEF ClientNext, OthersRest, Keeps, clientVars

(* A mix or a grade between 1 and 5 is loaded as it is.                    *)
LEMMA Clamped ==
    ASSUME NEW n \in 1..5
    PROVE  Prefs!clampLaterality(n) = n /\ Prefs!clampComplexity(n) = n
<1>1. \A x \in {1, n} : (\A y \in {1, n} : x >= y) => x = n
  OBVIOUS
<1>2. n \in {1, n} /\ \A y \in {1, n} : n >= y
  OBVIOUS
<1>3. Prefs!Max({1, n}) = n
  BY <1>1, <1>2 DEF Prefs!Max
<1>4. \A x \in {5, n} : (\A y \in {5, n} : x <= y) => x = n
  OBVIOUS
<1>5. n \in {5, n} /\ \A y \in {5, n} : n <= y
  OBVIOUS
<1>6. Prefs!Min({5, n}) = n
  BY <1>4, <1>5 DEF Prefs!Min
<1> QED
  BY <1>3, <1>6 DEF Prefs!clampLaterality, Prefs!clampComplexity

(* What can be picked is stored and loaded as it is.                       *)
LEMMA PicksLoad ==
    ASSUME key \in Prefs!Key, NEW v \in Choice[key]
    PROVE  Prefs!Own(v) = v
<1>1. v # None /\ v # Junk
  BY ClientAssumption DEF Prefs!Key
<1>2. CASE key = "motion"
  BY <1>1, <1>2 DEF Prefs!Own, Prefs!loadStoredMotionPreference
<1>3. CASE key = "sound"
  <2>1. v \in [Prefs!Channel -> BOOLEAN]
    BY <1>3, ClientAssumption DEF Prefs!Channel
  <2>2. Prefs!parseSoundPreferences(v) = v
    BY <1>1, <2>1 DEF Prefs!parseSoundPreferences
  <2> QED
    BY <1>3, <2>2 DEF Prefs!Own
<1>4. CASE key = "locale"
  BY <1>1, <1>4 DEF Prefs!Own, Prefs!resolveLocalePreference, Prefs!loadStoredLocale
<1>5. CASE key = "laterality"
  <2>1. v \in 1..5
    BY <1>5, ClientAssumption
  <2> QED
    BY <1>1, <1>5, <2>1, Clamped DEF Prefs!Own, Prefs!loadStoredLaterality
<1>6. CASE key = "complexity"
  <2>1. v \in 1..5
    BY <1>6, ClientAssumption
  <2> QED
    BY <1>1, <1>6, <2>1, Clamped DEF Prefs!Own, Prefs!loadStoredComplexity
<1> QED
  BY <1>2, <1>3, <1>4, <1>5, <1>6 DEF Prefs!Key

(* Without a link, what is loaded is what is stored.                       *)
LEMMA LoadsItsOwn ==
    ASSUME key \in Prefs!Key, url.asks = None
    PROVE  Prefs!Loaded = Prefs!Own(stored)
<1>1. CASE key = "locale"
  BY <1>1 DEF Prefs!Loaded, Prefs!Own, Prefs!readWebLocaleParam, Prefs!Graded
<1>2. CASE key # "locale"
  BY <1>2 DEF Prefs!Loaded, Prefs!rememberedWebSearch
<1> QED
  BY <1>1, <1>2

(* Init: nothing is loaded, nothing is written.                            *)
LEMMA PrefStarts == ClientInit => PrefInv
<1> SUFFICES ASSUME ClientInit PROVE PrefInv
  OBVIOUS
<1>1. Prefs!Init
  BY DEF ClientInit
<1>2. PrefTypes
  <2>1. writes \in Seq(Choice[key])
    BY <1>1 DEF Prefs!Init
  <2>2. PICK os \in BOOLEAN, web \in BOOLEAN : motion = Prefs!StartOf(os, web)
    BY <1>1 DEF Prefs!Init
  <2>3. motion \in [os : BOOLEAN, seen : BOOLEAN, web : BOOLEAN, news : BOOLEAN,
                    browser : BOOLEAN]
    BY <2>2 DEF Prefs!StartOf, Prefs!initialPrefersReducedMotion
  <2>4. swap \in [committed : {swap.committed}, running : BOOLEAN]
    BY <1>1 DEF Prefs!Init
  <2>5. url \in [asks : {url.asks}, live : BOOLEAN]
    <3>1. PICK asks : url = [asks |-> asks, live |-> TRUE]
      BY <1>1 DEF Prefs!Init
    <3> QED
      BY <3>1
  <2>6. key \in Prefs!Key /\ hydrated = FALSE /\ intro = TRUE /\ lost = FALSE
    BY <1>1 DEF Prefs!Init
  <2> QED
    BY <2>1, <2>3, <2>4, <2>5, <2>6 DEF PrefTypes
<1>3. WritesEnd /\ SwapIsPicked /\ Prefs!PicksStay
  BY <1>1 DEF Prefs!Init, WritesEnd, SwapIsPicked, Prefs!PicksStay
<1>4. MotionIsSeen
  BY <1>1 DEF Prefs!Init, MotionIsSeen, Prefs!StartOf, Prefs!initialPrefersReducedMotion,
              Prefs!Graded
<1> QED
  BY <1>2, <1>3, <1>4 DEF PrefInv

(* A value is settled for and its write begins.                            *)
LEMMA Settles ==
    ASSUME PrefTypes, NEW v \in Choice[key], Prefs!Persist(v), hydrated,
           UNCHANGED <<key, stored, hydrated, lost>>
    PROVE  WritesEnd' /\ writes' \in Seq(Choice[key])'
<1>1. /\ writes' = Append(writes, v) /\ picked' = v
  BY DEF Prefs!Persist
<1>2. writes \in Seq(Choice[key])
  BY DEF PrefTypes
<1>3. writes' \in Seq(Choice[key]) /\ writes' # <<>> /\ writes'[Len(writes')] = v
  BY <1>1, <1>2, AppendProperties
<1> QED
  BY <1>1, <1>3 DEF WritesEnd

(* Loading.                                                                *)
LEMMA PrefHydrates == PrefInv /\ Prefs!Hydrate => PrefInv'
<1> SUFFICES ASSUME PrefInv, Prefs!Hydrate PROVE PrefInv'
  OBVIOUS
<1>1. /\ ~hydrated /\ hydrated' = TRUE /\ pref' = Prefs!Loaded
      /\ swap' = [swap EXCEPT !.committed = Prefs!Loaded]
      /\ prefFrom' = IF url.asks # None THEN "url" ELSE "own"
      /\ UNCHANGED <<key, stored, writes, others, intro, url, motion, picked, lost>>
  BY DEF Prefs!Hydrate
<1>2. PrefTypes
  BY DEF PrefInv
<1>3. /\ swap'.committed = pref' /\ swap'.running = swap.running /\ ~swap.running
      /\ swap' \in [committed : {swap'.committed}, running : BOOLEAN]
  BY <1>1, <1>2 DEF PrefTypes, PrefInv, WritesEnd
<1>4. PrefTypes'
  BY <1>1, <1>2, <1>3 DEF PrefTypes
<1>5. Prefs!Own(stored)' = Prefs!Own(stored) /\ Prefs!Own(stored) = picked
  BY <1>1 DEF PrefInv, WritesEnd, Prefs!Own
<1>6. WritesEnd'
  BY <1>1, <1>3, <1>5 DEF PrefInv, WritesEnd
<1>7. prefFrom' = "own" => pref' = picked
  BY <1>1, <1>2, <1>5, LoadsItsOwn DEF PrefTypes
<1>8. Prefs!PicksStay' /\ SwapIsPicked'
  BY <1>1, <1>3, <1>7 DEF Prefs!PicksStay, SwapIsPicked
<1>9. MotionIsSeen'
  BY <1>1 DEF PrefInv, MotionIsSeen
<1> QED
  BY <1>4, <1>6, <1>8, <1>9 DEF PrefInv

(* Steps that touch neither what is stored nor what is to be written.      *)
LEMMA PrefRests ==
    PrefInv /\ (Prefs!OthersReady \/ Prefs!UrlStripped \/ Prefs!IntroEnds
                \/ Prefs!FallBack \/ UNCHANGED prefVars) => PrefInv'
<1> SUFFICES ASSUME PrefInv,
                    Prefs!OthersReady \/ Prefs!UrlStripped \/ Prefs!IntroEnds
                    \/ Prefs!FallBack \/ UNCHANGED prefVars
             PROVE  PrefInv'
  OBVIOUS
<1>1. /\ UNCHANGED <<key, stored, writes, hydrated, swap, motion, picked, lost>>
      /\ intro' \in BOOLEAN /\ (~hydrated => intro' = intro)
      /\ url' \in [asks : {url.asks}, live : BOOLEAN] /\ url'.asks = url.asks
      /\ \/ pref' = pref /\ prefFrom' = prefFrom
         \/ key = "complexity" /\ prefFrom' = "fallback"
  BY DEF PrefInv, PrefTypes, prefVars, Prefs!OthersReady, Prefs!UrlStripped,
         Prefs!IntroEnds, Prefs!FallBack
<1>2. PrefTypes'
  BY <1>1 DEF PrefInv, PrefTypes
<1>3. Prefs!Own(stored)' = Prefs!Own(stored)
  BY <1>1 DEF Prefs!Own
<1>4. WritesEnd'
  BY <1>1, <1>3 DEF PrefInv, WritesEnd
<1>5. Prefs!PicksStay' /\ SwapIsPicked' /\ MotionIsSeen'
  BY <1>1 DEF PrefInv, Prefs!PicksStay, SwapIsPicked, MotionIsSeen
<1> QED
  BY <1>2, <1>4, <1>5 DEF PrefInv

(* Picks.                                                                  *)
LEMMA PrefPicks ==
    ASSUME PrefInv, NEW v \in Choice[key], Prefs!PickInMenu(v) \/ Prefs!PickComplexity(v)
    PROVE  PrefInv'
<1>1. /\ ~intro /\ key # "laterality" /\ pref' = v /\ Prefs!Persist(v)
      /\ UNCHANGED <<key, stored, hydrated, intro, url, swap, motion, lost>>
  BY DEF Prefs!PickInMenu, Prefs!PickComplexity
<1>2. hydrated /\ PrefTypes
  BY <1>1 DEF PrefInv, WritesEnd
<1>3. WritesEnd' /\ writes' \in Seq(Choice[key])'
  BY <1>1, <1>2, Settles
<1>4. picked' = v /\ prefFrom' = "own"
  BY <1>1 DEF Prefs!Persist
<1>5. PrefTypes'
  BY <1>1, <1>2, <1>3 DEF PrefTypes
<1>6. Prefs!PicksStay' /\ SwapIsPicked' /\ MotionIsSeen'
  BY <1>1, <1>4 DEF PrefInv, Prefs!PicksStay, SwapIsPicked, MotionIsSeen
<1> QED
  BY <1>3, <1>5, <1>6 DEF PrefInv

(* A mix is picked: it is settled for at once, or a swap begins.           *)
LEMMA PrefSwaps ==
    ASSUME PrefInv, NEW v \in Choice[key], NEW empty \in BOOLEAN,
           Prefs!PickLaterality(v, empty)
    PROVE  PrefInv'
<1>1. /\ ~intro /\ key = "laterality" /\ ~swap.running /\ pref' = v
      /\ UNCHANGED <<key, stored, hydrated, others, intro, url, motion, lost>>
  BY DEF Prefs!PickLaterality
<1>2. hydrated /\ PrefTypes
  BY <1>1 DEF PrefInv, WritesEnd
<1>3. CASE empty
  <2>1. Prefs!Persist(v) /\ swap' = [swap EXCEPT !.committed = v]
    BY <1>3 DEF Prefs!PickLaterality
  <2>2. WritesEnd' /\ writes' \in Seq(Choice[key])'
    BY <1>1, <1>2, <2>1, Settles
  <2>3. picked' = v /\ prefFrom' = "own"
    BY <2>1 DEF Prefs!Persist
  <2>4. /\ swap' \in [committed : {swap'.committed}, running : BOOLEAN]
        /\ swap'.committed = v /\ ~swap'.running
    BY <1>1, <1>2, <2>1 DEF PrefTypes
  <2>5. PrefTypes'
    BY <1>1, <1>2, <2>2, <2>4 DEF PrefTypes
  <2>6. Prefs!PicksStay' /\ SwapIsPicked' /\ MotionIsSeen'
    BY <1>1, <2>3, <2>4 DEF PrefInv, Prefs!PicksStay, SwapIsPicked, MotionIsSeen
  <2> QED
    BY <2>2, <2>5, <2>6 DEF PrefInv
<1>4. CASE ~empty
  <2>1. swap' = [swap EXCEPT !.running = TRUE] /\ UNCHANGED <<writes, picked, prefFrom>>
    BY <1>4 DEF Prefs!PickLaterality
  <2>2. /\ swap' \in [committed : {swap'.committed}, running : BOOLEAN]
        /\ swap'.committed = swap.committed /\ swap'.running
    BY <1>1, <1>2, <2>1 DEF PrefTypes
  <2>3. PrefTypes'
    BY <1>1, <1>2, <2>1, <2>2 DEF PrefTypes
  <2>4. Prefs!Own(stored)' = Prefs!Own(stored)
    BY <1>1 DEF Prefs!Own
  <2>5. WritesEnd'
    BY <1>1, <1>2, <2>1, <2>4 DEF PrefInv, WritesEnd
  <2>6. Prefs!PicksStay' /\ SwapIsPicked' /\ MotionIsSeen'
    BY <1>1, <1>2, <2>1, <2>2 DEF PrefInv, Prefs!PicksStay, SwapIsPicked, MotionIsSeen
  <2> QED
    BY <2>3, <2>5, <2>6 DEF PrefInv
<1> QED
  BY <1>3, <1>4

(* The swap has come.                                                      *)
LEMMA PrefSwapped ==
    ASSUME PrefInv, Prefs!SwapSucceeds
    PROVE  PrefInv'
<1>1. /\ swap.running /\ swap' = [committed |-> pref, running |-> FALSE]
      /\ Prefs!Persist(pref)
      /\ UNCHANGED <<key, stored, pref, hydrated, others, intro, url, motion, lost>>
  BY DEF Prefs!SwapSucceeds
<1>2. PrefTypes /\ hydrated /\ key = "laterality" /\ pref \in Choice[key]
  BY <1>1 DEF PrefInv, SwapIsPicked
<1>3. WritesEnd' /\ writes' \in Seq(Choice[key])'
  BY <1>1, <1>2, Settles
<1>4. picked' = pref /\ prefFrom' = "own"
  BY <1>1 DEF Prefs!Persist
<1>5. /\ swap' \in [committed : {swap'.committed}, running : BOOLEAN]
      /\ swap'.committed = pref /\ ~swap'.running
  BY <1>1
<1>6. PrefTypes'
  BY <1>1, <1>2, <1>3, <1>5 DEF PrefTypes
<1>7. Prefs!PicksStay' /\ SwapIsPicked' /\ MotionIsSeen'
  BY <1>1, <1>2, <1>4, <1>5 DEF PrefInv, Prefs!PicksStay, SwapIsPicked, MotionIsSeen
<1> QED
  BY <1>3, <1>6, <1>7 DEF PrefInv

(* The swap has failed: the mix goes back.                                 *)
LEMMA PrefSwapFails ==
    ASSUME PrefInv, Prefs!SwapFails
    PROVE  PrefInv'
<1>1. /\ swap.running /\ swap' = [swap EXCEPT !.running = FALSE]
      /\ pref' = swap.committed
      /\ UNCHANGED <<key, stored, writes, hydrated, others, intro, url, motion,
                     picked, prefFrom, lost>>
  BY DEF Prefs!SwapFails
<1>2. PrefTypes /\ hydrated /\ key = "laterality"
  BY <1>1 DEF PrefInv, SwapIsPicked
<1>3. /\ swap' \in [committed : {swap'.committed}, running : BOOLEAN]
      /\ swap'.committed = swap.committed /\ ~swap'.running
  BY <1>1, <1>2 DEF PrefTypes
<1>4. PrefTypes'
  BY <1>1, <1>2, <1>3 DEF PrefTypes
<1>5. Prefs!Own(stored)' = Prefs!Own(stored)
  BY <1>1 DEF Prefs!Own
<1>6. WritesEnd'
  BY <1>1, <1>2, <1>5 DEF PrefInv, WritesEnd
<1>7. Prefs!PicksStay' /\ SwapIsPicked' /\ MotionIsSeen'
  BY <1>1, <1>2, <1>3 DEF PrefInv, Prefs!PicksStay, SwapIsPicked, MotionIsSeen
<1> QED
  BY <1>4, <1>6, <1>7 DEF PrefInv

(* A write is done or is lost.                                             *)
LEMMA PrefWrites ==
    ASSUME PrefInv, NEW done \in BOOLEAN, Prefs!WriteEnds(done)
    PROVE  PrefInv'
<1>1. /\ writes # <<>> /\ writes' = Tail(writes)
      /\ stored' = (IF done THEN Head(writes) ELSE stored) /\ lost' = ~done
      /\ UNCHANGED <<key, pref, hydrated, others, intro, url, swap, motion, picked,
                     prefFrom>>
  BY DEF Prefs!WriteEnds
<1>2. PrefTypes /\ hydrated /\ writes[Len(writes)] = picked
  BY <1>1 DEF PrefInv, WritesEnd
<1>3. writes \in Seq(Choice[key]) /\ Len(writes) \in Nat \ {0}
  BY <1>1, <1>2, EmptySeq, LenProperties DEF PrefTypes
<1>4. /\ Tail(writes) \in Seq(Choice[key]) /\ Len(Tail(writes)) = Len(writes) - 1
      /\ \A i \in 1..Len(Tail(writes)) : Tail(writes)[i] = writes[i + 1]
  BY <1>1, <1>3, HeadTailProperties
<1>5. PrefTypes'
  BY <1>1, <1>2, <1>4 DEF PrefTypes
<1>6. writes' # <<>> => writes'[Len(writes')] = picked
  <2> SUFFICES ASSUME writes' # <<>> PROVE writes'[Len(writes')] = picked
    OBVIOUS
  <2>1. Len(Tail(writes)) \in Nat \ {0}
    BY <1>1, <1>4, EmptySeq, LenProperties
  <2> DEFINE last == Len(Tail(writes))
  <2>2. last \in 1..Len(Tail(writes))
    BY <2>1
  <2>3. Tail(writes)[last] = writes[last + 1]
    BY <1>4, <2>2
  <2> QED
    BY <1>1, <1>2, <1>3, <1>4, <2>3
<1>7. writes' = <<>> /\ ~lost' => Prefs!Own(stored)' = picked
  <2> SUFFICES ASSUME writes' = <<>>, ~lost' PROVE Prefs!Own(stored)' = picked
    OBVIOUS
  <2>1. Len(Tail(writes)) = 0
    BY <1>1, <1>4, EmptySeq
  <2>5. Len(writes) = 1
    <3> DEFINE n == Len(writes) m == Len(Tail(writes))
    <3>1. n \in Nat \ {0} /\ m = n - 1 /\ m = 0
      BY <1>3, <1>4, <2>1
    <3> HIDE DEF n, m
    <3>2. n = 1
      BY <3>1
    <3> QED
      BY <3>2 DEF n
  <2>6. Head(writes) = writes[1] /\ writes[1] \in Choice[key]
    BY <1>3, <2>5, ElementOfSeq, HeadTailProperties
  <2>2. Head(writes) = picked /\ picked \in Choice[key] /\ stored' = picked
    BY <1>1, <1>2, <2>5, <2>6
  <2>3. Prefs!Own(picked) = picked
    BY <1>2, <2>2, PicksLoad DEF PrefTypes
  <2>4. Prefs!Own(stored)' = Prefs!Own(picked)
    BY <1>1, <2>2 DEF Prefs!Own
  <2> QED
    BY <2>3, <2>4
<1>8. WritesEnd'
  BY <1>1, <1>2, <1>6, <1>7 DEF WritesEnd
<1>9. Prefs!PicksStay' /\ SwapIsPicked' /\ MotionIsSeen'
  BY <1>1 DEF PrefInv, Prefs!PicksStay, SwapIsPicked, MotionIsSeen
<1> QED
  BY <1>5, <1>8, <1>9 DEF PrefInv

(* A new start, from what is stored.                                       *)
LEMMA PrefRestarts ==
    ASSUME PrefInv, Prefs!Restart
    PROVE  PrefInv'
<1>1. /\ writes' = <<>> /\ lost' = FALSE /\ picked' = Prefs!Own(stored)
      /\ url' = [asks |-> None, live |-> TRUE]
      /\ motion' = Prefs!StartOf(motion.os, motion.browser)
      /\ hydrated' = FALSE /\ intro' = TRUE /\ prefFrom' = "own"
      /\ swap' = [committed |-> Prefs!Own(None), running |-> FALSE]
      /\ UNCHANGED <<key, stored>>
  BY DEF Prefs!Restart, Prefs!Started
<1>2. Prefs!Own(stored)' = Prefs!Own(stored)
  BY <1>1 DEF Prefs!Own
<1>3. motion' \in [os : BOOLEAN, seen : BOOLEAN, web : BOOLEAN, news : BOOLEAN,
                   browser : BOOLEAN]
  BY <1>1 DEF PrefInv, PrefTypes, Prefs!StartOf, Prefs!initialPrefersReducedMotion
<1>7. swap' \in [committed : {swap'.committed}, running : BOOLEAN]
  BY <1>1
<1>8. url' \in [asks : {url'.asks}, live : BOOLEAN]
  BY <1>1
<1>9. writes' \in Seq(Choice[key])'
  BY <1>1
<1>4. PrefTypes'
  BY <1>1, <1>3, <1>7, <1>8, <1>9 DEF PrefInv, PrefTypes
<1>5. WritesEnd' /\ Prefs!PicksStay' /\ SwapIsPicked'
  BY <1>1, <1>2 DEF WritesEnd, Prefs!PicksStay, SwapIsPicked
<1>6. MotionIsSeen'
  BY <1>1 DEF PrefInv, PrefTypes, MotionIsSeen, Prefs!StartOf,
              Prefs!initialPrefersReducedMotion
<1> QED
  BY <1>4, <1>5, <1>6 DEF PrefInv

(* The system asks for less motion, and the client is told.                *)
LEMMA PrefOs ==
    ASSUME PrefInv, Prefs!OsChanges \/ Prefs!OsTold
    PROVE  PrefInv'
<1>1. UNCHANGED <<key, stored, writes, pref, hydrated, others, intro, url, swap,
                  picked, prefFrom, lost>>
  BY DEF Prefs!OsChanges, Prefs!OsTold
<1>2. motion \in [os : BOOLEAN, seen : BOOLEAN, web : BOOLEAN, news : BOOLEAN,
                  browser : BOOLEAN]
  BY DEF PrefInv, PrefTypes
<1>3. /\ motion' \in [os : BOOLEAN, seen : BOOLEAN, web : BOOLEAN, news : BOOLEAN,
                      browser : BOOLEAN]
      /\ motion'.seen \/ motion'.news \/ ~motion'.os
  <2>1. CASE Prefs!OsChanges
    BY <1>2, <2>1 DEF Prefs!OsChanges
  <2>2. CASE Prefs!OsTold
    BY <1>2, <2>2 DEF Prefs!OsTold
  <2> QED
    BY <2>1, <2>2
<1>4. PrefTypes'
  BY <1>1, <1>3 DEF PrefInv, PrefTypes
<1>5. Prefs!Own(stored)' = Prefs!Own(stored)
  BY <1>1 DEF Prefs!Own
<1>6. WritesEnd' /\ Prefs!PicksStay' /\ SwapIsPicked' /\ MotionIsSeen'
  BY <1>1, <1>3, <1>5 DEF PrefInv, WritesEnd, Prefs!PicksStay, SwapIsPicked, MotionIsSeen
<1> QED
  BY <1>4, <1>6 DEF PrefInv

(* Every step keeps the invariant of a preference.                         *)
LEMMA PrefStep == PrefInv /\ [ClientNext]_clientVars => PrefInv'
<1> SUFFICES ASSUME PrefInv, Prefs!Next \/ UNCHANGED prefVars PROVE PrefInv'
  BY PrefSteps
<1> QED
  BY PrefHydrates, PrefRests, PrefPicks, PrefSwaps, PrefSwapped, PrefSwapFails,
     PrefWrites, PrefRestarts, PrefOs DEF Prefs!Next

(* Nothing moves that should not: what the reader settled for is on screen *)
(* by then, and what the system says has been seen or is on its way.       *)
LEMMA MotionIsKept == PrefInv => Prefs!MotionIsAskedFor
<1> SUFFICES ASSUME PrefInv, Prefs!Moves
             PROVE  (~motion.news => ~motion.os) /\ picked # "reduced"
  BY DEF Prefs!MotionIsAskedFor
<1>1. key = "motion" /\ (intro => hydrated) /\ ~motion.seen /\ pref # "reduced"
  BY DEF Prefs!Moves, Prefs!resolveReducedMotion
<1>2. hydrated /\ ~swap.running /\ prefFrom = "own"
  BY <1>1 DEF PrefInv, WritesEnd, SwapIsPicked, MotionIsSeen
<1> QED
  BY <1>1, <1>2 DEF PrefInv, Prefs!PicksStay, MotionIsSeen

(* What is stored is what the reader settled for, and is what is on screen, *)
(* whatever there is to choose from (the storage modules, index.tsx).       *)
THEOREM PreferencesCorrect == ClientSpec => []PreferencesAreKept
<1>1. PrefInv => PreferencesAreKept
  BY MotionIsKept
     DEF PrefInv, WritesEnd, PreferencesAreKept, Prefs!PreferencesAreKept,
         Prefs!OnlyPicksAreStored
<1> QED
  BY <1>1, PrefStarts, PrefStep, PTL DEF ClientSpec

-----------------------------------------------------------------------------
(* Coaching tips.                                                          *)

(* The inductive invariant of coaching adds its types.                     *)
CoachInv ==
    /\ Coach!CoachingIsSound
    /\ session \in [resolved : {session.resolved}, offeredTip : {session.offeredTip},
                    tipCardIndex : Int, replayAnchorIndex : Int]
    /\ coachView \in [cardIndex : Nat, flipped : BOOLEAN, deckStatus : BOOLEAN]
    /\ effects \in BOOLEAN /\ idle \in Int

(* One step of coaching is a step of its module.                           *)
LEMMA CoachSteps == [ClientNext]_clientVars => Coach!Next \/ UNCHANGED coachVars
  BY DEF ClientNext, OthersRest, Keeps, clientVars

(* Init: no tip is resolved, none is offered.                              *)
LEMMA CoachStarts == ClientInit => CoachInv
<1> SUFFICES ASSUME ClientInit PROVE CoachInv
  OBVIOUS
<1>1. Coach!Init
  BY DEF ClientInit
<1>2. /\ session = [resolved |-> {}, offeredTip |-> NoTip, tipCardIndex |-> -1,
                    replayAnchorIndex |-> 0]
      /\ coachView = [cardIndex |-> 0, flipped |-> FALSE, deckStatus |-> FALSE]
      /\ effects = TRUE /\ idle = -1
  BY <1>1 DEF Coach!Init, Coach!discoveryCoachingStateAfterReplay, Coach!NoCard
<1> QED
  BY <1>2 DEF CoachInv, Coach!CoachingIsSound

(* What is next depends on what is resolved alone.                         *)
LEMMA NextTipOf ==
    ASSUME NEW s, NEW t, s.resolved = t.resolved
    PROVE  Coach!nextCoachTip(s) = Coach!nextCoachTip(t)
  BY DEF Coach!nextCoachTip

(* A change of the reader's or of the deck's.                              *)
CoachState(s) ==
    /\ s \in [resolved : {s.resolved}, offeredTip : {s.offeredTip},
              tipCardIndex : Int, replayAnchorIndex : Int]
    /\ s.offeredTip # NoTip => s.offeredTip = Coach!nextCoachTip(s)

(* A change starts the effects anew, and leaves what comes next as it is.  *)
LEMMA CoachChanges ==
    ASSUME CoachInv, NEW s, CoachState(s),
           NEW v \in [cardIndex : Nat, flipped : BOOLEAN, deckStatus : BOOLEAN],
           Coach!Changes(s, v)
    PROVE  CoachInv'
<1>1. session' = s /\ coachView' = v /\ effects' = TRUE /\ idle' \in Int
  BY DEF Coach!Changes, CoachInv
<1>2. Coach!nextCoachTip(session)' = Coach!nextCoachTip(s)
  BY <1>1, NextTipOf DEF Coach!nextCoachTip
<1> QED
  BY <1>1, <1>2 DEF CoachInv, Coach!CoachingIsSound, CoachState

(* A tip that is noted leaves the session well typed.                      *)
LEMMA CoachNoted ==
    ASSUME CoachInv, NEW of
    PROVE  CoachState(Coach!Noted(session, of))
  BY DEF CoachInv, CoachState, Coach!Noted

(* The idle timer offers what it was armed for, or finds that it is not    *)
(* due any more; then the effects are still to run.                        *)
LEMMA CoachOffers == CoachInv /\ Coach!Offers => CoachInv'
<1> SUFFICES ASSUME CoachInv, Coach!Offers PROVE CoachInv'
  OBVIOUS
<1> DEFINE next == Coach!nextCoachTip(session)
<1>1. /\ idle # Coach!NoCard /\ idle' = Coach!NoCard
      /\ session' = Coach!offerTip(session, next, idle)
      /\ effects' = (effects \/ session' # session)
      /\ UNCHANGED <<coachView, chip>>
  BY DEF Coach!Offers
<1>2. CASE /\ session.offeredTip = NoTip /\ next # NoTip
           /\ session.tipCardIndex # idle
  <2>1. session' = [session EXCEPT !.offeredTip = next, !.tipCardIndex = idle]
    BY <1>1, <1>2 DEF Coach!offerTip
  <2> HIDE DEF next
  <2>2. /\ session'.offeredTip = next /\ session'.resolved = session.resolved
        /\ session' \in [resolved : {session'.resolved},
                         offeredTip : {session'.offeredTip},
                         tipCardIndex : Int, replayAnchorIndex : Int]
    BY <1>2, <2>1 DEF CoachInv
  <2>3. Coach!nextCoachTip(session)' = Coach!nextCoachTip(session)
    BY <2>2 DEF Coach!nextCoachTip
  <2>4. effects' = TRUE
    BY <1>1, <1>2, <2>2
  <2> QED
    BY <1>1, <2>2, <2>3, <2>4 DEF CoachInv, Coach!CoachingIsSound, next, Coach!NoCard
<1>3. CASE ~(/\ session.offeredTip = NoTip /\ next # NoTip
             /\ session.tipCardIndex # idle)
  <2>1. session' = session /\ effects' = effects
    BY <1>1, <1>3 DEF Coach!offerTip, CoachInv
  <2>2. CASE effects
    <3>1. Coach!nextCoachTip(session)' = Coach!nextCoachTip(session)
      BY <2>1 DEF Coach!nextCoachTip
    <3>2. effects' = TRUE
      BY <2>1, <2>2 DEF CoachInv
    <3> QED
      BY <1>1, <2>1, <3>1, <3>2 DEF CoachInv, Coach!CoachingIsSound, Coach!NoCard
  <2>3. CASE ~effects
    <3>1. idle = coachView.cardIndex /\ Coach!coachContextReady(session, coachView)
      BY <1>1, <2>3 DEF CoachInv, Coach!CoachingIsSound
    <3> QED
      BY <1>3, <3>1 DEF Coach!coachContextReady
  <2> QED
    BY <2>2, <2>3 DEF CoachInv
<1> QED
  BY <1>2, <1>3

(* The effects withdraw an offer of another card, or all is at rest.       *)
LEMMA CoachEffects == CoachInv /\ Coach!Effects => CoachInv'
<1> SUFFICES ASSUME CoachInv, Coach!Effects PROVE CoachInv'
  OBVIOUS
<1>1. /\ effects /\ chip' = Coach!visibleCoach(session, coachView)
      /\ idle' = IF Coach!coachContextReady(session, coachView)
                 THEN coachView.cardIndex ELSE Coach!NoCard
      /\ coachView' = coachView
  BY DEF Coach!Effects
<1>2. idle' \in Int /\ coachView.cardIndex # Coach!NoCard
  BY <1>1 DEF CoachInv, Coach!NoCard
<1>3. CASE session.offeredTip # NoTip /\ session.tipCardIndex # coachView.cardIndex
  <2>1. session' = [session EXCEPT !.offeredTip = NoTip] /\ effects' = effects
    BY <1>3 DEF Coach!Effects
  <2>2. /\ session'.offeredTip = NoTip
        /\ session' \in [resolved : {session'.resolved},
                         offeredTip : {session'.offeredTip},
                         tipCardIndex : Int, replayAnchorIndex : Int]
    BY <2>1 DEF CoachInv
  <2> QED
    BY <1>1, <1>2, <2>1, <2>2 DEF CoachInv, Coach!CoachingIsSound
<1>4. CASE ~(session.offeredTip # NoTip /\ session.tipCardIndex # coachView.cardIndex)
  <2>1. session' = session /\ effects' = FALSE
    BY <1>4 DEF Coach!Effects
  <2>2. /\ Coach!nextCoachTip(session)' = Coach!nextCoachTip(session)
        /\ Coach!visibleCoach(session, coachView)' = Coach!visibleCoach(session, coachView)
        /\ Coach!coachContextReady(session, coachView)'
             = Coach!coachContextReady(session, coachView)
    BY <1>1, <2>1
       DEF Coach!nextCoachTip, Coach!visibleCoach, Coach!coachContextReady
  <2> QED
    BY <1>1, <1>2, <1>4, <2>1, <2>2 DEF CoachInv, Coach!CoachingIsSound
<1> QED
  BY <1>3, <1>4

(* Every step keeps the invariant of coaching.                             *)
LEMMA CoachStep == CoachInv /\ [ClientNext]_clientVars => CoachInv'
<1> SUFFICES ASSUME CoachInv, Coach!Next \/ UNCHANGED coachVars PROVE CoachInv'
  BY CoachSteps
<1> DEFINE Views == [cardIndex : Nat, flipped : BOOLEAN, deckStatus : BOOLEAN]
<1>1. CoachState(session) /\ coachView \in Views
  BY DEF CoachInv, CoachState, Coach!CoachingIsSound
<1>2. CASE Coach!Tap
  <2>1. [coachView EXCEPT !.flipped = ~@] \in Views
    BY <1>1
  <2> QED
    BY <1>2, <2>1, CoachNoted, CoachChanges DEF Coach!Tap
<1>3. ASSUME NEW cardIndex \in 0..LastCard, Coach!SwipeHorizontal(cardIndex)
      PROVE  CoachInv'
  <2>2. cardIndex \in Nat
    BY ClientAssumption
  <2>1. [coachView EXCEPT !.cardIndex = cardIndex, !.flipped = FALSE] \in Views
    BY <1>1, <2>2
  <2> QED
    BY <1>3, <2>1, CoachNoted, CoachChanges DEF Coach!SwipeHorizontal
<1>4. CASE Coach!SwipeVertical
  <2>1. [coachView EXCEPT !.flipped = FALSE] \in Views
    BY <1>1
  <2> QED
    BY <1>4, <2>1, CoachNoted, CoachChanges DEF Coach!SwipeVertical
<1>5. CASE Coach!StatusFace
  <2>1. [coachView EXCEPT !.deckStatus = ~@] \in Views
    BY <1>1
  <2> QED
    BY <1>1, <1>5, <2>1, CoachChanges DEF Coach!StatusFace
<1>6. CASE Coach!DeckStartsOver
  <2>1. [coachView EXCEPT !.cardIndex = 0, !.flipped = FALSE] \in Views
    BY <1>1
  <2> QED
    BY <1>1, <1>6, <2>1, CoachChanges DEF Coach!DeckStartsOver
<1>7. CASE Coach!noteInteraction
  BY <1>1, <1>7, CoachChanges DEF Coach!noteInteraction
<1>8. CASE Coach!Dismissed
  <2>1. CoachState(Coach!dismissTip(session))
    BY <1>1, CoachNoted DEF Coach!dismissTip
  <2> QED
    BY <1>1, <1>8, <2>1, CoachChanges DEF Coach!Dismissed
<1>9. CASE Coach!replayGestureTips
  <2>1. CoachState(Coach!discoveryCoachingStateAfterReplay(coachView.cardIndex))
    BY <1>1 DEF CoachState, Coach!discoveryCoachingStateAfterReplay, Coach!NoCard
  <2> QED
    BY <1>1, <1>9, <2>1, CoachChanges DEF Coach!replayGestureTips
<1>10. CASE UNCHANGED coachVars
  <2>1. /\ Coach!nextCoachTip(session)' = Coach!nextCoachTip(session)
        /\ Coach!visibleCoach(session, coachView)' = Coach!visibleCoach(session, coachView)
        /\ Coach!coachContextReady(session, coachView)'
             = Coach!coachContextReady(session, coachView)
    BY <1>10
       DEF coachVars, Coach!nextCoachTip, Coach!visibleCoach, Coach!coachContextReady
  <2> QED
    BY <1>10, <2>1 DEF coachVars, CoachInv, Coach!CoachingIsSound
<1> QED
  BY <1>2, <1>3, <1>4, <1>5, <1>6, <1>7, <1>8, <1>9, <1>10, CoachOffers, CoachEffects
     DEF Coach!Next

-----------------------------------------------------------------------------
(* Connectivity.                                                           *)

(* The inductive invariant of the offline line: it says, or is about to    *)
(* say, what was last heard; and what is not offline has not been heard.   *)
NetworkTypes ==
    /\ onWeb \in BOOLEAN /\ net \in {TRUE, FALSE, Unknown}
    /\ IF onWeb THEN navigatorOnline \in BOOLEAN ELSE navigatorOnline = Unknown
    /\ told \subseteq {"netinfo", "offline"} /\ ("offline" \in told => onWeb)
    /\ ui \in [offline : BOOLEAN, retrying : BOOLEAN, shouldAnnounce : BOOLEAN]
    /\ debounce \in BOOLEAN /\ connected \in BOOLEAN /\ overridden \in BOOLEAN
    /\ retries \in Nat /\ lineDue \in BOOLEAN /\ quiet \in BOOLEAN
    /\ announced \in [status : {announced.status}, offline : BOOLEAN]

(* What the network is, as the last that is told would have it.            *)
Known == Network!resolveIsConnected(net, navigatorOnline)

Follows ==
    /\ ui.offline \/ debounce =>
         /\ navigatorOnline # TRUE
         /\ told # {} \/ ~Known
    /\ ~ui.offline /\ ~debounce =>
         told # {} \/ overridden \/ navigatorOnline = TRUE \/ Known
    /\ ui.retrying => ui.offline /\ retries > 0

Announces ==
    /\ ~lineDue /\ announced.offline => ui.offline
    /\ speaking \in Message /\ effect = speaking => quiet

NetworkInv == NetworkTypes /\ Follows /\ Announces

(* One step of connectivity is a step of its module.                       *)
LEMMA NetworkSteps ==
    [ClientNext]_clientVars => (Network!Next \/ UNCHANGED networkVars) /\ UNCHANGED onWeb
  BY DEF ClientNext, OthersRest, Keeps, clientVars

(* Init: nothing has been heard of the network.                            *)
LEMMA NetworkStarts == ClientInit => NetworkInv
<1> SUFFICES ASSUME ClientInit PROVE NetworkInv
  OBVIOUS
<1>1. Network!Init
  BY DEF ClientInit
<1>2. NetworkTypes
  BY <1>1 DEF Network!Init, NetworkTypes, Network!Online
<1>3. ui.offline = FALSE /\ ui.retrying = FALSE /\ told # {}
  BY <1>1 DEF Network!Init, Network!Online
<1>4. Follows
  BY <1>1, <1>3 DEF Network!Init, Follows
<1>5. Announces
  BY <1>1, ClientAssumption DEF Network!Init, Announces
<1> QED
  BY <1>2, <1>4, <1>5 DEF NetworkInv

(* The invariant says what is stated of the line.                          *)
LEMMA NetworkSettles ==
    NetworkInv => Network!OfflineLineSettles /\ Network!SpokenStatusIsQuiet
  BY DEF NetworkInv, NetworkTypes, Follows, Announces, Known,
         Network!OfflineLineSettles, Network!SpokenStatusIsQuiet

(* What is shown anew lets the line's effects run.                         *)
LEMMA NetworkShows ==
    ASSUME NetworkInv, NEW s, Network!Shows(s), NEW more \in Nat, retries' = more,
           s \in [offline : BOOLEAN, retrying : BOOLEAN, shouldAnnounce : BOOLEAN],
           UNCHANGED <<message, announced, effect, quiet, speaking>>
    PROVE  Announces' /\ ui' = s /\ lineDue' \in BOOLEAN
  BY DEF NetworkInv, NetworkTypes, Announces, Network!Shows

(* What has been heard is known.                                           *)
LEMMA NetworkKnown ==
    ASSUME NetworkTypes
    PROVE  Known \in BOOLEAN
  BY DEF NetworkTypes, Known, Network!resolveIsConnected

(* What is heard of the network is what it is.                             *)
LEMMA HeardIsKnown ==
    ASSUME NetworkTypes, NEW which \in {"netinfo", "offline"}, which \in told
    PROVE  LET c == IF which = "netinfo"
                    THEN Network!resolveIsConnected(net, navigatorOnline)
                    ELSE Network!resolveIsConnected(net, FALSE)
           IN  c \in BOOLEAN /\ (navigatorOnline # TRUE => c = Known)
                             /\ (c => Known)
<1>1. CASE which = "netinfo"
  BY <1>1 DEF NetworkTypes, Known, Network!resolveIsConnected
<1>2. CASE which = "offline"
  <2>1. onWeb /\ navigatorOnline \in BOOLEAN
    BY <1>2 DEF NetworkTypes
  <2> QED
    BY <1>2, <2>1 DEF NetworkTypes, Known, Network!resolveIsConnected
<1> QED
  BY <1>1, <1>2

(* The client hears of the network.                                        *)
LEMMA NetworkHears ==
    ASSUME NetworkInv, NEW which \in {"netinfo", "offline"}, Network!Heard(which)
    PROVE  NetworkInv'
<1> DEFINE c == IF which = "netinfo"
                THEN Network!resolveIsConnected(net, navigatorOnline)
                ELSE Network!resolveIsConnected(net, FALSE)
<1>1. /\ which \in told /\ told' = told \ {which} /\ overridden' = FALSE
      /\ Network!applyConnected(c)
      /\ UNCHANGED <<onWeb, net, navigatorOnline, retries, message, announced, effect,
                     quiet, speaking>>
  BY DEF Network!Heard, Network!applyConnected, Network!line
<1>2. c \in BOOLEAN /\ (navigatorOnline # TRUE => c = Known) /\ (c => Known)
  BY <1>1, HeardIsKnown DEF NetworkInv
<1>3. NetworkTypes /\ Follows /\ Announces /\ retries' \in Nat
  BY <1>1 DEF NetworkInv, NetworkTypes
<1>4. Known' = Known
  BY <1>1 DEF Known, Network!resolveIsConnected
<1>5. ASSUME UNCHANGED <<connected, debounce, ui, lineDue>>, ~c, navigatorOnline = TRUE
      PROVE  NetworkInv'
  <2>1. NetworkTypes'
    BY <1>1, <1>3, <1>5 DEF NetworkTypes
  <2>2. Follows' /\ Announces'
    BY <1>1, <1>3, <1>5, <1>4 DEF Follows, Announces
  <2> QED
    BY <2>1, <2>2 DEF NetworkInv
<1>6. ASSUME connected' = FALSE, debounce' = TRUE, UNCHANGED <<ui, lineDue>>, ~c,
             navigatorOnline # TRUE
      PROVE  NetworkInv'
  <2>1. NetworkTypes'
    BY <1>1, <1>3, <1>6 DEF NetworkTypes
  <2>2. Follows' /\ Announces'
    BY <1>1, <1>2, <1>3, <1>6, <1>4 DEF Follows, Announces
  <2> QED
    BY <2>1, <2>2 DEF NetworkInv
<1>7. ASSUME Network!Connected, c
      PROVE  NetworkInv'
  <2>1. connected' = TRUE /\ debounce' = FALSE /\ Network!Shows(Network!Online)
    BY <1>7 DEF Network!Connected
  <2>2. /\ Network!Online \in [offline : BOOLEAN, retrying : BOOLEAN,
                               shouldAnnounce : BOOLEAN]
        /\ ~Network!Online.offline /\ ~Network!Online.retrying
    BY DEF Network!Online
  <2>3. Announces' /\ ui' = Network!Online /\ lineDue' \in BOOLEAN
    BY <1>1, <1>3, <2>1, <2>2, NetworkShows
  <2>4. NetworkTypes'
    BY <1>1, <1>3, <2>1, <2>2, <2>3 DEF NetworkTypes
  <2>5. Follows'
    BY <1>1, <1>2, <1>3, <1>4, <1>7, <2>1, <2>2, <2>3 DEF Follows
  <2> QED
    BY <2>3, <2>4, <2>5 DEF NetworkInv
<1>8. ASSUME Network!Shows(Network!setOffline(ui)), UNCHANGED <<connected, debounce>>,
             ~c, navigatorOnline # TRUE
      PROVE  NetworkInv'
  <2> DEFINE s == Network!setOffline(ui)
  <2>2. /\ s \in [offline : BOOLEAN, retrying : BOOLEAN, shouldAnnounce : BOOLEAN]
        /\ s.offline /\ ~s.retrying
    BY <1>3 DEF Network!setOffline, NetworkTypes
  <2> HIDE DEF s
  <2>3. Announces' /\ ui' = s /\ lineDue' \in BOOLEAN
    BY <1>1, <1>3, <1>8, <2>2, NetworkShows DEF s
  <2>4. NetworkTypes'
    BY <1>1, <1>3, <1>8, <2>2, <2>3 DEF NetworkTypes
  <2>5. Follows'
    BY <1>1, <1>2, <1>3, <1>4, <1>8, <2>2, <2>3 DEF Follows
  <2> QED
    BY <2>3, <2>4, <2>5 DEF NetworkInv
<1>9. \/ Network!Connected /\ c
      \/ UNCHANGED <<connected, debounce, ui, lineDue>> /\ ~c /\ navigatorOnline = TRUE
      \/ /\ Network!Shows(Network!setOffline(ui)) /\ UNCHANGED <<connected, debounce>>
         /\ ~c /\ navigatorOnline # TRUE
      \/ /\ connected' = FALSE /\ debounce' = TRUE /\ UNCHANGED <<ui, lineDue>>
         /\ ~c /\ navigatorOnline # TRUE
  <2> HIDE DEF c
  <2> QED
    BY <1>1, <1>2, Zenon DEF Network!applyConnected
<1> QED
  BY <1>5, <1>6, <1>7, <1>8, <1>9

(* The browser says that it is online, or that it is not.                  *)
LEMMA NetworkBrowser ==
    ASSUME NetworkInv, Network!BrowserChanges
    PROVE  NetworkInv'
<1>1. /\ onWeb /\ navigatorOnline' = ~navigatorOnline
      /\ UNCHANGED <<onWeb, net, retries, message, announced, effect, quiet, speaking>>
  BY DEF Network!BrowserChanges, Network!line
<1>2. /\ NetworkTypes /\ Follows /\ Announces /\ retries' \in Nat
      /\ navigatorOnline \in BOOLEAN /\ navigatorOnline' \in BOOLEAN
  BY <1>1 DEF NetworkInv, NetworkTypes
<1>3. CASE navigatorOnline'
  <2>1. /\ connected' = TRUE /\ debounce' = FALSE /\ Network!Shows(Network!Online)
        /\ overridden' = FALSE /\ told' = told
    BY <1>3 DEF Network!BrowserChanges
  <2>2. /\ Network!Online \in [offline : BOOLEAN, retrying : BOOLEAN,
                               shouldAnnounce : BOOLEAN]
        /\ ~Network!Online.offline /\ ~Network!Online.retrying
    BY DEF Network!Online
  <2>3. Announces' /\ ui' = Network!Online /\ lineDue' \in BOOLEAN
    BY <1>1, <1>2, <2>1, <2>2, NetworkShows
  <2>4. NetworkTypes'
    BY <1>1, <1>2, <2>1, <2>2, <2>3 DEF NetworkTypes
  <2>5. Follows'
    BY <1>2, <1>3, <2>1, <2>2, <2>3 DEF Follows
  <2> QED
    BY <2>3, <2>4, <2>5 DEF NetworkInv
<1>4. CASE ~navigatorOnline'
  <2>1. /\ told' = told \cup {"offline"}
        /\ UNCHANGED <<connected, debounce, ui, overridden, lineDue>>
    BY <1>4 DEF Network!BrowserChanges
  <2>2. NetworkTypes'
    BY <1>1, <1>2, <2>1 DEF NetworkTypes
  <2>3. Follows' /\ Announces'
    BY <1>1, <1>2, <1>4, <2>1 DEF Follows, Announces
  <2> QED
    BY <2>2, <2>3 DEF NetworkInv
<1> QED
  BY <1>2, <1>3, <1>4

(* The debounce ends: the line says what was heard.                        *)
LEMMA NetworkDebounce ==
    ASSUME NetworkInv, Network!DebounceFires
    PROVE  NetworkInv'
<1>1. /\ debounce /\ debounce' = FALSE
      /\ UNCHANGED <<onWeb, net, navigatorOnline, told, retries, overridden, message,
                     announced, effect, quiet, speaking>>
  BY DEF Network!DebounceFires, Network!line, Network!network
<1>2. /\ NetworkTypes /\ Follows /\ Announces /\ retries' \in Nat
      /\ navigatorOnline # TRUE
  BY <1>1 DEF NetworkInv, NetworkTypes, Follows
<1>3. Network!Shows(Network!setOffline(ui)) /\ connected' = connected
  BY <1>2 DEF Network!DebounceFires
<1> DEFINE s == Network!setOffline(ui)
<1>4. /\ s \in [offline : BOOLEAN, retrying : BOOLEAN, shouldAnnounce : BOOLEAN]
      /\ s.offline /\ ~s.retrying
  BY <1>2 DEF Network!setOffline, NetworkTypes
<1> HIDE DEF s
<1>5. Announces' /\ ui' = s /\ lineDue' \in BOOLEAN
  BY <1>1, <1>2, <1>3, <1>4, NetworkShows DEF s
<1>6. NetworkTypes'
  BY <1>1, <1>2, <1>3, <1>4, <1>5 DEF NetworkTypes
<1>7. Known' = Known
  BY <1>1 DEF Known, Network!resolveIsConnected
<1>8. Follows'
  BY <1>1, <1>2, <1>4, <1>5, <1>7 DEF Follows
<1> QED
  BY <1>5, <1>6, <1>8 DEF NetworkInv

(* A retry and its answer.                                                 *)
LEMMA NetworkRetries ==
    ASSUME NetworkInv, NEW ok \in BOOLEAN, Network!beginRetry \/ Network!RetryEnds(ok)
    PROVE  NetworkInv'
<1>1. /\ UNCHANGED <<onWeb, net, navigatorOnline, told, connected, debounce, message,
                     announced, effect, quiet, speaking>>
  BY DEF Network!beginRetry, Network!RetryEnds, Network!line, Network!network
<1>2. /\ NetworkTypes /\ Follows /\ Announces
  BY DEF NetworkInv
<1>3. PICK s \in [offline : BOOLEAN, retrying : BOOLEAN, shouldAnnounce : BOOLEAN] :
         /\ Network!Shows(s) /\ retries' \in Nat /\ overridden' \in BOOLEAN
         /\ s.retrying => s.offline /\ retries' > 0
         /\ s.offline => ui.offline
         /\ ~s.offline => ~ui.offline \/ overridden'
         /\ overridden => overridden'
  <2>1. CASE Network!beginRetry
    <3> DEFINE s == Network!retry(ui)
    <3>1. /\ s \in [offline : BOOLEAN, retrying : BOOLEAN, shouldAnnounce : BOOLEAN]
          /\ s.offline = ui.offline /\ s.retrying = ui.offline
      BY <1>2 DEF Network!retry, NetworkTypes
    <3>2. /\ Network!Shows(s) /\ retries' = retries + 1 /\ overridden' = overridden
          /\ ui.offline
      BY <2>1 DEF Network!beginRetry
    <3> HIDE DEF s
    <3>3. /\ retries' \in Nat /\ retries' > 0 /\ overridden' \in BOOLEAN
          /\ overridden => overridden'
      BY <1>2, <3>2 DEF NetworkTypes
    <3> QED
      BY <3>1, <3>2, <3>3
  <2>2. CASE Network!RetryEnds(ok) /\ ok
    <3>1. /\ Network!Online \in [offline : BOOLEAN, retrying : BOOLEAN,
                                 shouldAnnounce : BOOLEAN]
          /\ ~Network!Online.offline /\ ~Network!Online.retrying
      BY DEF Network!Online
    <3>2. /\ Network!Shows(Network!Online) /\ retries > 0 /\ retries' = retries - 1
          /\ overridden' = TRUE
      BY <2>2 DEF Network!RetryEnds
    <3> QED
      BY <1>2, <3>1, <3>2 DEF NetworkTypes
  <2>3. CASE Network!RetryEnds(ok) /\ ~ok
    <3> DEFINE s == Network!retryFailed(ui)
    <3>1. /\ s \in [offline : BOOLEAN, retrying : BOOLEAN, shouldAnnounce : BOOLEAN]
          /\ s.offline = ui.offline /\ ~s.retrying
      BY <1>2 DEF Network!retryFailed, Network!Online, NetworkTypes, Follows
    <3>2. /\ Network!Shows(s) /\ retries > 0 /\ retries' = retries - 1
          /\ overridden' = overridden
      BY <1>2, <2>3 DEF Network!RetryEnds, NetworkTypes
    <3> HIDE DEF s
    <3> QED
      BY <1>2, <3>1, <3>2 DEF NetworkTypes
  <2> QED
    BY <2>1, <2>2, <2>3
<1>5. Announces' /\ ui' = s /\ lineDue' \in BOOLEAN
  BY <1>1, <1>2, <1>3, NetworkShows
<1>6. NetworkTypes'
  BY <1>1, <1>2, <1>3, <1>5 DEF NetworkTypes
<1>7. Known' = Known
  BY <1>1 DEF Known, Network!resolveIsConnected
<1>8. Follows'
  BY <1>1, <1>2, <1>3, <1>5, <1>7 DEF Follows
<1> QED
  BY <1>5, <1>6, <1>8 DEF NetworkInv

(* The line's effects.                                                     *)
LEMMA NetworkLine ==
    ASSUME NetworkInv, Network!LineEffects
    PROVE  NetworkInv'
<1> DEFINE a == Network!Announcement
<1>1. /\ lineDue
      /\ announced' = [status |-> IF ui.offline THEN NoMessage ELSE message,
                       offline |-> ui.offline /\ (announced.offline \/
                                                  ui.shouldAnnounce)]
      /\ effect' = a
      /\ quiet' = (a # NoMessage \/ (effect = NoMessage /\ quiet))
      /\ speaking' = IF a # NoMessage THEN a ELSE speaking
      /\ UNCHANGED <<onWeb, net, navigatorOnline, told, connected, debounce, retries,
                     overridden, message>>
  BY DEF Network!LineEffects, Network!network
<1>2. /\ NetworkTypes /\ Follows /\ Announces
  BY DEF NetworkInv
<1>3. /\ ui' \in [offline : BOOLEAN, retrying : BOOLEAN, shouldAnnounce : BOOLEAN]
      /\ ui'.offline = ui.offline /\ ui'.retrying = ui.retrying /\ lineDue' \in BOOLEAN
  <2>1. CASE a = Network!OfflineLine
    <3>1. ui' = Network!announceConsumed(ui) /\ lineDue' \in BOOLEAN
      BY <1>2, <2>1 DEF Network!LineEffects, Network!Shows, NetworkTypes
    <3> QED
      BY <1>2, <3>1 DEF Network!announceConsumed, NetworkTypes
  <2>2. CASE a # Network!OfflineLine
    BY <1>2, <2>2 DEF Network!LineEffects, NetworkTypes
  <2> QED
    BY <2>1, <2>2
<1> HIDE DEF a
<1>4. NetworkTypes'
  <2>1. quiet' \in BOOLEAN
    BY <1>1, <1>2 DEF NetworkTypes
  <2>2. announced' \in [status : {announced'.status}, offline : BOOLEAN]
    BY <1>1, <1>2 DEF NetworkTypes
  <2> QED
    BY <1>1, <1>2, <1>3, <2>1, <2>2 DEF NetworkTypes
<1>5. Known' = Known
  BY <1>1 DEF Known, Network!resolveIsConnected
<1>6. Follows'
  BY <1>1, <1>2, <1>3, <1>5 DEF Follows
<1>7. Announces'
  <2>1. announced'.offline => ui'.offline
    BY <1>1, <1>3
  <2>2. speaking' \in Message /\ effect' = speaking' => quiet'
    BY <1>1, ClientAssumption
  <2> QED
    BY <2>1, <2>2 DEF Announces
<1> QED
  BY <1>4, <1>6, <1>7 DEF NetworkInv

(* Steps that leave what was heard and what is said alone.                 *)
LEMMA NetworkRests ==
    ASSUME NetworkInv,
           \/ \E state \in {TRUE, FALSE, Unknown} : Network!NetChanges(state)
           \/ \E m \in Message \cup {NoMessage} : Network!MessageChanges(m)
           \/ Network!SpeechEnds
           \/ UNCHANGED <<onWeb, networkVars>>
    PROVE  NetworkInv'
<1>1. /\ NetworkTypes /\ Follows /\ Announces
  BY DEF NetworkInv
<1>2. ASSUME NEW state \in {TRUE, FALSE, Unknown}, Network!NetChanges(state)
      PROVE  NetworkInv'
  <2>1. /\ net' = state /\ told' = told \cup {"netinfo"}
        /\ UNCHANGED <<onWeb, navigatorOnline, connected, debounce, ui, retries,
                       overridden, message, announced, effect, quiet, speaking, lineDue>>
    BY <1>2 DEF Network!NetChanges, Network!hook, Network!line
  <2>2. NetworkTypes'
    BY <1>1, <2>1 DEF NetworkTypes
  <2>3. Follows' /\ Announces'
    BY <1>1, <2>1 DEF Follows, Announces
  <2> QED
    BY <2>2, <2>3 DEF NetworkInv
<1>3. ASSUME NEW m \in Message \cup {NoMessage}, Network!MessageChanges(m)
      PROVE  NetworkInv'
  <2>1. /\ lineDue' = TRUE
        /\ UNCHANGED <<onWeb, net, navigatorOnline, told, connected, debounce, ui,
                       retries, overridden, announced, effect, quiet, speaking>>
    BY <1>3 DEF Network!MessageChanges, Network!network, Network!hook
  <2>2. NetworkTypes' /\ Known' = Known
    BY <1>1, <2>1 DEF NetworkTypes, Known, Network!resolveIsConnected
  <2>3. Follows' /\ Announces'
    BY <1>1, <2>1, <2>2 DEF Follows, Announces
  <2> QED
    BY <2>2, <2>3 DEF NetworkInv
<1>4. CASE Network!SpeechEnds
  <2>1. /\ speaking' = NoMessage /\ quiet' = FALSE
        /\ UNCHANGED <<onWeb, net, navigatorOnline, told, connected, debounce, ui,
                       retries, overridden, announced, effect, lineDue>>
    BY <1>4 DEF Network!SpeechEnds, Network!network, Network!hook
  <2>2. NetworkTypes' /\ Known' = Known
    BY <1>1, <2>1 DEF NetworkTypes, Known, Network!resolveIsConnected
  <2>3. Follows' /\ Announces'
    BY <1>1, <2>1, <2>2, ClientAssumption DEF Follows, Announces
  <2> QED
    BY <2>2, <2>3 DEF NetworkInv
<1>5. CASE UNCHANGED <<onWeb, networkVars>>
  <2>1. NetworkTypes' /\ Known' = Known
    BY <1>1, <1>5 DEF networkVars, NetworkTypes, Known, Network!resolveIsConnected
  <2>2. Follows' /\ Announces'
    BY <1>1, <1>5, <2>1 DEF networkVars, Follows, Announces
  <2> QED
    BY <2>1, <2>2 DEF NetworkInv
<1> QED
  BY <1>2, <1>3, <1>4, <1>5

(* Every step keeps the invariant of connectivity.                         *)
LEMMA NetworkStep == NetworkInv /\ [ClientNext]_clientVars => NetworkInv'
<1> SUFFICES ASSUME NetworkInv,
                    (Network!Next \/ UNCHANGED networkVars) /\ UNCHANGED onWeb
             PROVE  NetworkInv'
  BY NetworkSteps
<1> QED
  BY NetworkHears, NetworkBrowser, NetworkDebounce, NetworkRetries, NetworkLine,
     NetworkRests DEF Network!Next

-----------------------------------------------------------------------------
(* The chrome around the card.                                             *)

(* Of the cue: each has a token of its own, and only one that has gone has *)
(* had its end posted.                                                     *)
ChromeTypes ==
    /\ screen \in [hydrated : BOOLEAN, main : BOOLEAN]
    /\ urlGrade \in [pending : {urlGrade.pending}, announced : BOOLEAN, mark : BOOLEAN]
    /\ cue = None \/ cue \in [grade : {cue.grade}, token : Nat \ {0}]
    /\ cueChip \in [token : Nat, phase : {"off", "hold", "fade", "gone"}]
    /\ posted = None \/ posted \in [token : Nat, elapsed : BOOLEAN]
    /\ said \in Nat

ChipGoes ==
    /\ cueChip.phase = "off" => cueChip.token = 0
    /\ cueChip.phase = "gone" => posted # None
    /\ Chrome!CueWillGo

UrlIsSaid ==
    /\ said = IF urlGrade.announced THEN 1 ELSE 0
    /\ urlGrade.announced => urlGrade.mark
    /\ screen.main => screen.hydrated
    /\ screen.main /\ start.url # None => urlGrade.announced

ChromeInv == ChromeTypes /\ ChipGoes /\ UrlIsSaid

(* One step of the chrome is a step of its module.                         *)
LEMMA ChromeSteps == [ClientNext]_clientVars => Chrome!Next \/ UNCHANGED chromeVars
  BY DEF ClientNext, OthersRest, Keeps, clientVars

(* The slot holds the cue only if there is one.                            *)
LEMMA CueSlot ==
    ASSUME NEW m, NEW s, NEW t, NEW c, NEW k, Chrome!Slot(m, s, t, c, k) = "cue"
    PROVE  c # None
  BY DEF Chrome!Slot

(* Init: nothing is shown, nothing is said.                                *)
LEMMA ChromeStarts == ClientInit => ChromeInv
<1> SUFFICES ASSUME ClientInit PROVE ChromeInv
  OBVIOUS
<1>1. Chrome!Init
  BY DEF ClientInit
<1>2. /\ screen = [hydrated |-> FALSE, main |-> FALSE] /\ cue = None /\ posted = None
      /\ urlGrade = [pending |-> None, announced |-> FALSE, mark |-> FALSE]
      /\ cueChip = [token |-> 0, phase |-> "off"] /\ said = 0
  BY <1>1 DEF Chrome!Init, Chrome!Off
<1>3. Chrome!CueWillGo
  BY <1>2, CueSlot DEF Chrome!CueWillGo, Chrome!InSlot
<1> QED
  BY <1>2, <1>3 DEF ChromeInv, ChromeTypes, ChipGoes, UrlIsSaid

(* A button of the row does what it says: it asks for less only of what a  *)
(* moving card is.                                                         *)
LEMMA RowKeeps == Chrome!RowKeepsItsWord
  BY DEF Chrome!RowKeepsItsWord, Chrome!canRunCardAction, Chrome!RowGate, Chrome!Gate

(* The token of a new cue is a number.                                     *)
LEMMA TokenIs ==
    ASSUME ChromeTypes
    PROVE  Chrome!NextToken \in Nat \ {0}
<1>1. CASE cue = None /\ cueChip = Chrome!Off /\ posted = None
  BY <1>1 DEF Chrome!NextToken
<1>2. CASE ~(cue = None /\ cueChip = Chrome!Off /\ posted = None)
  <2> DEFINE S == {c.token : c \in {cue, posted} \ {None}} \cup {cueChip.token}
             a == cueChip.token
             b == IF cue # None THEN cue.token ELSE a
             d == IF posted # None THEN posted.token ELSE a
  <2>1. a \in Nat /\ b \in Nat /\ d \in Nat
    BY DEF ChromeTypes
  <2>2. S = {a, b, d}
    OBVIOUS
  <2> HIDE DEF a, b, d
  <2>3. \E x \in {a, b, d} : \A y \in {a, b, d} : x >= y
    BY <2>1
  <2>4. Chrome!Max(S) \in {a, b, d}
    BY <2>2, <2>3 DEF Chrome!Max
  <2> HIDE DEF S
  <2>5. Chrome!Max(S) \in Nat
    BY <2>1, <2>4
  <2>6. Chrome!NextToken = 1 + Chrome!Max(S)
    BY <1>2 DEF Chrome!NextToken, S
  <2> QED
    BY <2>5, <2>6
<1> QED
  BY <1>1, <1>2

(* After a render the chip is that of the cue in its slot, and goes.       *)
LEMMA Renders ==
    ASSUME ChromeInv, Chrome!Rendered, posted' = posted,
           cue' = None \/ cue' \in [grade : {cue.grade}', token : Nat \ {0}]
    PROVE  ChipGoes' /\ cueChip' \in [token : Nat, phase : {"off", "hold", "fade", "gone"}]
<1>1. cueChip' = Chrome!CueEffect(Chrome!InSlot', cue')
  BY DEF Chrome!Rendered, Chrome!InSlot
<1>2. ChromeTypes /\ ChipGoes
  BY DEF ChromeInv
<1>3. CASE Chrome!InSlot' # "cue"
  <2>1. cueChip' = [token |-> 0, phase |-> "off"]
    BY <1>1, <1>3 DEF Chrome!CueEffect, Chrome!Off
  <2> QED
    BY <1>3, <2>1 DEF ChipGoes, Chrome!CueWillGo
<1>4. CASE Chrome!InSlot' = "cue"
  <2>1. cue' # None
    BY <1>4, CueSlot DEF Chrome!InSlot
  <2>2. cue'.token \in Nat \ {0}
    BY <2>1
  <2>3. CASE cueChip.token = cue'.token
    <3>1. cueChip' = cueChip
      BY <1>1, <1>4, <2>3 DEF Chrome!CueEffect
    <3>2. cueChip.phase # "off"
      BY <1>2, <2>2, <2>3 DEF ChipGoes
    <3> QED
      BY <1>2, <2>3, <3>1, <3>2 DEF ChipGoes, Chrome!CueWillGo, ChromeTypes
  <2>4. CASE cueChip.token # cue'.token
    <3>1. cueChip' = [token |-> cue'.token, phase |-> "hold"]
      BY <1>1, <1>4, <2>4 DEF Chrome!CueEffect
    <3> QED
      BY <2>2, <3>1 DEF ChipGoes, Chrome!CueWillGo
  <2> QED
    BY <2>3, <2>4
<1> QED
  BY <1>3, <1>4

(* A cue that is announced, or not.                                        *)
CueKept == cue' = None \/ cue' \in [grade : {cue.grade}', token : Nat \ {0}]

(* A grade that is announced has a cue with a positive token.              *)
LEMMA CueAnnounced ==
    ASSUME ChromeTypes, NEW grade, Chrome!announceComplexity(grade)
    PROVE  CueKept
<1>1. cue' = [grade |-> grade, token |-> Chrome!NextToken]
  BY DEF Chrome!announceComplexity
<1>2. Chrome!NextToken \in Nat \ {0}
  BY TokenIs
<1> QED
  BY <1>1, <1>2 DEF CueKept

(* The effect that announces the grade of the URL.                         *)
LEMMA SessionIs ==
    ASSUME ChromeInv, NEW pending, Chrome!SessionEffect(pending), start' = start,
           screen' \in [hydrated : BOOLEAN, main : BOOLEAN],
           screen'.main => screen'.hydrated
    PROVE  UrlIsSaid' /\ CueKept /\ said' \in Nat
           /\ urlGrade' \in [pending : {urlGrade'.pending}, announced : BOOLEAN,
                             mark : BOOLEAN]
<1> DEFINE grade == Chrome!SessionComplexityToAnnounce(screen'.main, pending)
<1>1. ChromeTypes /\ UrlIsSaid
  BY DEF ChromeInv
<1>2. CASE grade = None
  <2>1. /\ urlGrade' = [urlGrade EXCEPT !.pending = pending,
                                        !.mark = @ \/ pending # None]
        /\ UNCHANGED <<cue, said>>
    BY <1>2 DEF Chrome!SessionEffect
  <2>2. screen'.main /\ start.url # None => urlGrade.announced
    BY <1>2 DEF Chrome!SessionComplexityToAnnounce
  <2>3. /\ urlGrade'.announced = urlGrade.announced
        /\ (urlGrade.mark => urlGrade'.mark)
        /\ urlGrade' \in [pending : {urlGrade'.pending}, announced : BOOLEAN,
                          mark : BOOLEAN]
    BY <1>1, <2>1 DEF ChromeTypes
  <2>4. CueKept
    BY <1>1, <2>1 DEF ChromeTypes, CueKept
  <2> HIDE DEF grade
  <2>5. said' = IF urlGrade'.announced THEN 1 ELSE 0
    BY <1>1, <2>1, <2>3 DEF UrlIsSaid
  <2>6. UrlIsSaid'
    BY <1>1, <2>2, <2>3, <2>5 DEF UrlIsSaid
  <2> QED
    BY <1>1, <2>1, <2>3, <2>4, <2>6 DEF ChromeTypes
<1>3. CASE grade # None
  <2>1. /\ urlGrade' = [pending |-> None, announced |-> TRUE, mark |-> TRUE]
        /\ Chrome!announceComplexity(grade) /\ said' = said + 1
    BY <1>3 DEF Chrome!SessionEffect
  <2>2. ~urlGrade.announced
    BY <1>3 DEF Chrome!SessionComplexityToAnnounce
  <2> HIDE DEF grade
  <2>3. CueKept
    BY <1>1, <2>1, CueAnnounced
  <2>4. said' = 1
    BY <1>1, <2>1, <2>2 DEF UrlIsSaid
  <2> QED
    BY <2>1, <2>3, <2>4 DEF UrlIsSaid
<1> QED
  BY <1>2, <1>3

(* The preferences are loaded.                                             *)
LEMMA ChromeHydrates ==
    ASSUME ChromeInv, Chrome!HydrateComplexity
    PROVE  ChromeInv'
<1>1. /\ screen' = [screen EXCEPT !.hydrated = TRUE]
      /\ Chrome!SessionEffect(start.url) /\ Chrome!Rendered
      /\ UNCHANGED <<start, posted>>
  BY DEF Chrome!HydrateComplexity
<1>2. screen' \in [hydrated : BOOLEAN, main : BOOLEAN] /\ (screen'.main => screen'.hydrated)
  BY <1>1 DEF ChromeInv, ChromeTypes
<1> DEFINE pending == start.url
<1>3. Chrome!SessionEffect(pending)
  BY <1>1
<1> HIDE DEF pending
<1>4. /\ UrlIsSaid' /\ CueKept /\ said' \in Nat
      /\ urlGrade' \in [pending : {urlGrade'.pending}, announced : BOOLEAN,
                        mark : BOOLEAN]
  BY <1>1, <1>2, <1>3, SessionIs
<1>5. ChipGoes' /\ cueChip' \in [token : Nat, phase : {"off", "hold", "fade", "gone"}]
  BY <1>1, <1>4, Renders DEF CueKept
<1> QED
  BY <1>1, <1>2, <1>4, <1>5 DEF ChromeInv, ChromeTypes, CueKept

(* The deck comes, and with it what the grade of the URL announces.        *)
LEMMA ChromeDeck ==
    ASSUME ChromeInv, NEW main \in BOOLEAN, Chrome!MainDeck(main)
    PROVE  ChromeInv'
<1>1. /\ screen.hydrated /\ screen' = [screen EXCEPT !.main = main]
      /\ Chrome!SessionEffect(urlGrade.pending) /\ Chrome!Rendered
      /\ UNCHANGED <<start, posted>>
  BY DEF Chrome!MainDeck
<1>2. screen' \in [hydrated : BOOLEAN, main : BOOLEAN] /\ (screen'.main => screen'.hydrated)
  BY <1>1 DEF ChromeInv, ChromeTypes
<1> DEFINE pending == urlGrade.pending
<1>3. Chrome!SessionEffect(pending)
  BY <1>1
<1> HIDE DEF pending
<1>4. /\ UrlIsSaid' /\ CueKept /\ said' \in Nat
      /\ urlGrade' \in [pending : {urlGrade'.pending}, announced : BOOLEAN,
                        mark : BOOLEAN]
  BY <1>1, <1>2, <1>3, SessionIs
<1>5. ChipGoes' /\ cueChip' \in [token : Nat, phase : {"off", "hold", "fade", "gone"}]
  BY <1>1, <1>4, Renders DEF CueKept
<1> QED
  BY <1>1, <1>2, <1>4, <1>5 DEF ChromeInv, ChromeTypes, CueKept

(* The reader's grade, the deck's status, a tip, the end of a fade.        *)
LEMMA ChromeShows ==
    ASSUME ChromeInv,
           \/ \E by \in {-1, 1} : Chrome!SwipeVertical(by)
           \/ \E s \in Chrome!Status : Chrome!StatusChanges(s)
           \/ Chrome!TipChanges
    PROVE  ChromeInv'
<1>1. /\ UNCHANGED <<start, screen, urlGrade, posted, said>> /\ Chrome!Rendered
      /\ cue' = cue \/ \E grade : Chrome!announceComplexity(grade)
  BY DEF Chrome!SwipeVertical, Chrome!StatusChanges, Chrome!TipChanges
<1>2. ChromeTypes /\ UrlIsSaid
  BY DEF ChromeInv
<1>3. CueKept
  BY <1>1, <1>2, CueAnnounced DEF ChromeTypes, CueKept
<1>4. ChipGoes' /\ cueChip' \in [token : Nat, phase : {"off", "hold", "fade", "gone"}]
  BY <1>1, <1>3, Renders DEF CueKept
<1>5. ChromeTypes'
  BY <1>1, <1>2, <1>3, <1>4 DEF ChromeTypes, CueKept
<1>6. UrlIsSaid'
  BY <1>1, <1>2 DEF UrlIsSaid
<1> QED
  BY <1>4, <1>5, <1>6 DEF ChromeInv

(* A status or a tip takes the slot, or gives it back.                     *)
LEMMA ChromeHides ==
    ASSUME ChromeInv, Chrome!HideRuns
    PROVE  ChromeInv'
<1>1. /\ posted' = None /\ cue' = None /\ Chrome!Rendered
      /\ UNCHANGED <<start, screen, urlGrade, said>>
  BY DEF Chrome!HideRuns
<1>2. Chrome!InSlot' # "cue"
  BY <1>1, CueSlot DEF Chrome!InSlot
<1>3. cueChip' = [token |-> 0, phase |-> "off"]
  BY <1>1, <1>2 DEF Chrome!Rendered, Chrome!CueEffect, Chrome!InSlot, Chrome!Off
<1>4. ChipGoes' /\ ChromeTypes'
  BY <1>1, <1>2, <1>3 DEF ChromeInv, ChromeTypes, ChipGoes, Chrome!CueWillGo
<1>5. UrlIsSaid'
  BY <1>1 DEF ChromeInv, UrlIsSaid
<1> QED
  BY <1>4, <1>5 DEF ChromeInv

(* The timer of the cue and its fade.                                      *)
LEMMA ChromeFades ==
    ASSUME ChromeInv, Chrome!HoldEnds \/ Chrome!FadeEnds
    PROVE  ChromeInv'
<1>1. UNCHANGED <<start, screen, urlGrade, status, tip, said>>
  BY DEF Chrome!HoldEnds, Chrome!FadeEnds
<1>2. ChromeTypes /\ ChipGoes /\ UrlIsSaid
  BY DEF ChromeInv
<1>3. UrlIsSaid'
  BY <1>1, <1>2 DEF UrlIsSaid
<1>4. CASE Chrome!HoldEnds /\ start.reduced
  <2>1. cue' = None /\ posted' = posted /\ cueChip' = [token |-> 0, phase |-> "off"]
    BY <1>4 DEF Chrome!HoldEnds, Chrome!Off
  <2>2. Chrome!InSlot' # "cue"
    BY <2>1, CueSlot DEF Chrome!InSlot
  <2>3. ChipGoes' /\ ChromeTypes'
    BY <1>1, <1>2, <2>1, <2>2 DEF ChromeTypes, ChipGoes, Chrome!CueWillGo
  <2> QED
    BY <1>3, <2>3 DEF ChromeInv
<1>5. CASE Chrome!HoldEnds /\ ~start.reduced
  <2>1. /\ cue' = cue /\ posted' = posted /\ cueChip' = [cueChip EXCEPT !.phase = "fade"]
        /\ cueChip.phase = "hold"
    BY <1>5 DEF Chrome!HoldEnds
  <2>2. /\ cueChip'.token = cueChip.token /\ cueChip'.phase = "fade"
        /\ cueChip' \in [token : Nat, phase : {"off", "hold", "fade", "gone"}]
    BY <1>2, <2>1 DEF ChromeTypes
  <2>3. Chrome!InSlot' = Chrome!InSlot
    BY <1>1, <2>1 DEF Chrome!InSlot
  <2>4. ChipGoes'
    BY <1>2, <2>1, <2>2, <2>3 DEF ChipGoes, Chrome!CueWillGo
  <2>5. ChromeTypes'
    BY <1>1, <1>2, <2>1, <2>2 DEF ChromeTypes
  <2> QED
    BY <1>3, <2>4, <2>5 DEF ChromeInv
<1>6. CASE Chrome!FadeEnds
  <2>1. /\ posted' = [token |-> cueChip.token, elapsed |-> TRUE] /\ cue' = cue
        /\ cueChip' = [cueChip EXCEPT !.phase = "gone"]
    BY <1>6 DEF Chrome!FadeEnds
  <2>2. /\ cueChip'.phase = "gone"
        /\ cueChip' \in [token : Nat, phase : {"off", "hold", "fade", "gone"}]
        /\ posted' \in [token : Nat, elapsed : BOOLEAN]
    BY <1>2, <2>1 DEF ChromeTypes
  <2>3. posted' # None
    BY <2>2, ClientAssumption
  <2>4. ChipGoes'
    BY <2>2, <2>3 DEF ChipGoes, Chrome!CueWillGo
  <2>5. ChromeTypes'
    BY <1>1, <1>2, <2>1, <2>2 DEF ChromeTypes
  <2> QED
    BY <1>3, <2>4, <2>5 DEF ChromeInv
<1> QED
  BY <1>4, <1>5, <1>6

(* The row comes or goes, and the cue is mounted anew with it.             *)
LEMMA ChromeRow ==
    ASSUME ChromeInv,
           \/ \E on \in BOOLEAN : Chrome!ScreenReader(on)
           \/ Chrome!KeyDown
           \/ \E where \in {"row", "column"} : Chrome!PointerDown(where)
    PROVE  ChromeInv'
<1>1. PICK n, pressed : Chrome!NavChanges(n, pressed)
  BY DEF Chrome!ScreenReader, Chrome!KeyDown, Chrome!PointerDown
<1>2. /\ UNCHANGED <<start, screen, urlGrade, status, tip, cue, posted, said>>
      /\ \/ cueChip' = cueChip
         \/ Chrome!InSlot = "cue" /\ cueChip' = [token |-> cue.token, phase |-> "hold"]
  BY <1>1 DEF Chrome!NavChanges
<1>3. ChromeTypes /\ ChipGoes /\ UrlIsSaid
  BY DEF ChromeInv
<1>4. UrlIsSaid' /\ Chrome!InSlot' = Chrome!InSlot
  BY <1>2, <1>3 DEF UrlIsSaid, Chrome!InSlot
<1>5. CASE cueChip' = cueChip
  <2>1. ChipGoes' /\ ChromeTypes'
    BY <1>2, <1>3, <1>4, <1>5 DEF ChromeTypes, ChipGoes, Chrome!CueWillGo
  <2> QED
    BY <1>4, <2>1 DEF ChromeInv
<1>6. CASE Chrome!InSlot = "cue" /\ cueChip' = [token |-> cue.token, phase |-> "hold"]
  <2>1. cue # None
    BY <1>6, CueSlot DEF Chrome!InSlot
  <2>2. cue.token \in Nat
    BY <1>3, <2>1 DEF ChromeTypes
  <2>3. ChipGoes' /\ ChromeTypes'
    BY <1>2, <1>3, <1>6, <2>2 DEF ChromeTypes, ChipGoes, Chrome!CueWillGo
  <2> QED
    BY <1>4, <2>3 DEF ChromeInv
<1> QED
  BY <1>2, <1>5, <1>6

(* Steps that leave the cue and the grade of the URL alone.                *)
LEMMA ChromeRests ==
    ASSUME ChromeInv,
           \/ \E grade \in 1..MaxGrade : Chrome!SelectComplexity(grade)
           \/ Chrome!PointerUp \/ UNCHANGED chromeVars
    PROVE  ChromeInv'
<1>1. UNCHANGED <<start, screen, urlGrade, status, tip, cue, cueChip, posted, said>>
  BY DEF Chrome!SelectComplexity, Chrome!PointerUp, chromeVars
<1> QED
  BY <1>1 DEF ChromeInv, ChromeTypes, ChipGoes, UrlIsSaid, Chrome!CueWillGo, Chrome!InSlot

(* Every step keeps the invariant of the chrome.                           *)
LEMMA ChromeStep == ChromeInv /\ [ClientNext]_clientVars => ChromeInv'
<1> SUFFICES ASSUME ChromeInv, Chrome!Next \/ UNCHANGED chromeVars PROVE ChromeInv'
  BY ChromeSteps
<1> QED
  BY ChromeHydrates, ChromeDeck, ChromeShows, ChromeHides, ChromeFades, ChromeRow,
     ChromeRests DEF Chrome!Next

(* The invariant says what is stated of the chrome.                        *)
LEMMA ChromeSettles == ChromeInv => Chrome!ChromeIsSound
  BY RowKeeps
     DEF ChromeInv, ChromeTypes, ChipGoes, UrlIsSaid, Chrome!ChromeIsSound,
         Chrome!SessionIsAnnouncedOnce

-----------------------------------------------------------------------------
(* The grade rails.                                                        *)

(* The inductive invariant of the rails: a preview that is shown, or still *)
(* to be shown, on a rail that no finger is on has its end on the way; and *)
(* but for a swap that has not landed the grade is the committed one.      *)
RailCall == [what : {"preview", "commit", "end"}, rail : Rails!Rail, x : {0} \cup TouchAt,
             gate : BOOLEAN]
RailTypes ==
    /\ calls \in Seq(RailCall)
    /\ {reshuffling, landed, deckDealt} \subseteq BOOLEAN
    /\ railGrades \in [Rails!Rail -> {railGrades[r] : r \in Rails!Rail}]
    /\ preview \in [Rails!Rail -> {preview[r] : r \in Rails!Rail}]
    /\ finger \in [Rails!Rail -> {"off", "down", "moving"}]

EndsLater(s, r, after) ==
    \E k \in 1..Len(s) : k > after /\ s[k].rail = r /\ s[k].what # "preview"
EndIsOnItsWay(s, r) ==
    \A i \in 1..Len(s) : s[i].rail = r => EndsLater(s, r, i) \/ s[i].what # "preview"

PreviewsEnd ==
    \A r \in Rails!Rail : finger[r] = "off" =>
        /\ preview[r] # Rails!NoPreview => EndsLater(calls, r, 0)
        /\ EndIsOnItsWay(calls, r)

GradeSettled ==
    /\ landed => reshuffling
    /\ ~reshuffling \/ landed => railGrades["laterality"] = settled

RailsInv == RailTypes /\ PreviewsEnd /\ GradeSettled

(* One step of the rails is a step of its module.                          *)
LEMMA RailSteps == [ClientNext]_clientVars => Rails!Next \/ UNCHANGED railVars
  BY DEF ClientNext, OthersRest, Keeps, clientVars

(* Init: no finger, no call, no preview.                                   *)
LEMMA RailsStart == ClientInit => RailsInv
<1> SUFFICES ASSUME ClientInit PROVE RailsInv
  OBVIOUS
<1>1. Rails!Init
  BY DEF ClientInit
<1>2. RailTypes
  <2>1. calls \in Seq(RailCall)
    BY <1>1, EmptySeq DEF Rails!Init
  <2>2. /\ reshuffling = FALSE /\ landed = FALSE /\ deckDealt = FALSE
        /\ railGrades = [r \in Rails!Rail |-> 3]
        /\ preview = [r \in Rails!Rail |-> Rails!NoPreview]
        /\ finger = [r \in Rails!Rail |-> "off"]
    BY <1>1 DEF Rails!Init
  <2> QED
    BY <2>1, <2>2 DEF RailTypes
<1>3. PreviewsEnd
  BY <1>1 DEF Rails!Init, PreviewsEnd, EndIsOnItsWay, Rails!Rail
<1>4. GradeSettled
  BY <1>1 DEF Rails!Init, Rails!Rail, GradeSettled
<1> QED
  BY <1>2, <1>3, <1>4 DEF RailsInv

(* Calls are posted at the end: what was on its way still is.              *)
LEMMA PostKeeps ==
    ASSUME calls \in Seq(RailCall), NEW new \in Seq(RailCall), Rails!Post(new)
    PROVE  /\ calls' \in Seq(RailCall) /\ Len(calls') = Len(calls) + Len(new)
           /\ \A k \in 1..Len(calls) : calls'[k] = calls[k]
           /\ \A k \in 1..Len(new) : calls'[Len(calls) + k] = new[k]
           /\ \A k \in 1..Len(calls') : k > Len(calls) =>
                 \E j \in 1..Len(new) : calls'[k] = new[j]
<1>1. calls' = calls \o new
  BY DEF Rails!Post
<1>2. /\ Len(calls \o new) = Len(calls) + Len(new)
      /\ \A k \in 1..Len(calls) + Len(new) :
            (calls \o new)[k] = IF k <= Len(calls) THEN calls[k] ELSE new[k - Len(calls)]
  BY ConcatProperties
<1>3. calls \o new \in Seq(RailCall) /\ Len(calls) \in Nat /\ Len(new) \in Nat
  BY ConcatProperties
<1>4. \A k \in 1..Len(calls) + Len(new) : k > Len(calls) => k - Len(calls) \in 1..Len(new)
  BY <1>3
<1>5. \A k \in 1..Len(new) : Len(calls) + k \in 1..Len(calls) + Len(new)
                             /\ ~(Len(calls) + k <= Len(calls))
                             /\ (Len(calls) + k) - Len(calls) = k
  BY <1>3
<1> QED
  BY <1>1, <1>2, <1>3, <1>4, <1>5

(* A finger on a rail posts calls of that rail, and once it is off they    *)
(* are the end of any preview.                                             *)
LEMMA FingerPosts ==
    ASSUME RailsInv, NEW r \in Rails!Rail, NEW new \in Seq(RailCall), Rails!Post(new),
           NEW where \in {"off", "down", "moving"},
           finger' = [finger EXCEPT ![r] = where],
           UNCHANGED <<preview, Rails!swapVars>>,
           \A k \in 1..Len(new) : new[k].rail = r,
           where = "off" => Len(new) > 0 /\ \A k \in 1..Len(new) : new[k].what # "preview"
    PROVE  RailsInv'
<1>1. RailTypes /\ PreviewsEnd /\ GradeSettled
  BY DEF RailsInv
<1>2. /\ calls' \in Seq(RailCall) /\ Len(calls') = Len(calls) + Len(new)
      /\ \A k \in 1..Len(calls) : calls'[k] = calls[k]
      /\ \A k \in 1..Len(new) : calls'[Len(calls) + k] = new[k]
      /\ \A k \in 1..Len(calls') : k > Len(calls) =>
            \E j \in 1..Len(new) : calls'[k] = new[j]
  BY <1>1, PostKeeps DEF RailTypes
<1>3. Len(calls) \in Nat /\ Len(new) \in Nat
  BY <1>1 DEF RailTypes
<1>4. RailTypes' /\ GradeSettled'
  BY <1>1, <1>2 DEF RailTypes, GradeSettled, Rails!swapVars
<1>5. ASSUME NEW q \in Rails!Rail, finger'[q] = "off"
      PROVE  /\ preview'[q] # Rails!NoPreview => EndsLater(calls', q, 0)
             /\ EndIsOnItsWay(calls', q)
  <2>1. CASE q = r
    <3>1. where = "off"
      BY <1>1, <1>5, <2>1 DEF RailTypes
    <3>2. Len(calls') \in 1..Len(calls') /\ calls'[Len(calls')] = new[Len(new)]
          /\ Len(new) \in 1..Len(new) /\ Len(calls') > Len(calls)
      BY <1>2, <1>3, <3>1
    <3>3. calls'[Len(calls')].rail = q /\ calls'[Len(calls')].what # "preview"
      BY <2>1, <3>1, <3>2
    <3>4. EndsLater(calls', q, 0)
      BY <3>2, <3>3 DEF EndsLater
    <3>5. ASSUME NEW i \in 1..Len(calls')
          PROVE  EndsLater(calls', q, i) \/ calls'[i].what # "preview"
      <4>1. CASE i = Len(calls')
        BY <3>3, <4>1
      <4>2. CASE i # Len(calls')
        <5>1. Len(calls') > i
          BY <3>2, <4>2
        <5> QED
          BY <3>2, <3>3, <5>1 DEF EndsLater
      <4> QED
        BY <4>1, <4>2
    <3> QED
      BY <3>4, <3>5 DEF EndIsOnItsWay
  <2>2. CASE q # r
    <3>1. finger[q] = "off" /\ preview'[q] = preview[q]
      BY <1>1, <1>5, <2>2 DEF RailTypes
    <3>2. ASSUME NEW i \in Nat, EndsLater(calls, q, i) PROVE EndsLater(calls', q, i)
      <4>1. PICK k \in 1..Len(calls) : k > i /\ calls[k].rail = q /\ calls[k].what # "preview"
        BY <3>2 DEF EndsLater
      <4>2. k \in 1..Len(calls') /\ calls'[k] = calls[k]
        BY <1>2, <1>3
      <4> QED
        BY <4>1, <4>2 DEF EndsLater
    <3>3. preview[q] # Rails!NoPreview => EndsLater(calls, q, 0)
      BY <1>1, <3>1 DEF PreviewsEnd
    <3>4. EndIsOnItsWay(calls, q)
      BY <1>1, <3>1 DEF PreviewsEnd
    <3>5. ASSUME NEW i \in 1..Len(calls'), calls'[i].rail = q
          PROVE  EndsLater(calls', q, i) \/ calls'[i].what # "preview"
      <4>1. i \in 1..Len(calls) /\ i \in Nat
        BY <1>2, <1>3, <2>2, <3>5
      <4>2. calls'[i] = calls[i]
        BY <1>2, <4>1
      <4>3. EndsLater(calls, q, i) \/ calls[i].what # "preview"
        BY <3>4, <3>5, <4>1, <4>2 DEF EndIsOnItsWay
      <4> QED
        BY <3>2, <4>1, <4>2, <4>3
    <3> QED
      BY <3>1, <3>2, <3>3, <3>5 DEF EndIsOnItsWay
  <2> QED
    BY <2>1, <2>2
<1>6. PreviewsEnd'
  BY <1>5 DEF PreviewsEnd
<1> QED
  BY <1>1, <1>4, <1>6 DEF RailsInv

(* Touches, moves, lifts and cancellations.                                *)
LEMMA RailFingers ==
    ASSUME RailsInv, NEW r \in Rails!Rail,
           Rails!TouchDown(r) \/ Rails!Move(r) \/ Rails!Lift(r) \/ Rails!Cancel(r)
    PROVE  RailsInv'
<1>1. UNCHANGED <<preview, Rails!swapVars>>
  BY DEF Rails!TouchDown, Rails!Move, Rails!Lift, Rails!Cancel
<1>2. reshuffling \in BOOLEAN
  BY DEF RailsInv, RailTypes
<1> DEFINE rec(what, at) == [what |-> what, rail |-> r, x |-> at, gate |-> reshuffling]
<1>3. ASSUME NEW what \in {"preview", "commit", "end"}, NEW at \in {0} \cup TouchAt
      PROVE  rec(what, at) \in RailCall
  BY <1>2, <1>3 DEF RailCall
<1>4. ASSUME NEW at \in TouchAt, Rails!Post(Rails!Call("preview", r, at)),
             NEW where \in {"down", "moving"}, finger' = [finger EXCEPT ![r] = where]
      PROVE  RailsInv'
  <2> DEFINE new == <<rec("preview", at)>>
  <2>1. rec("preview", at) \in RailCall
    BY <1>3
  <2>2. new \in Seq(RailCall) /\ Rails!Post(new) /\ \A k \in 1..Len(new) : new[k].rail = r
    BY <1>4, <2>1 DEF Rails!Call
  <2> HIDE DEF new, rec
  <2> QED
    BY <1>1, <1>4, <2>2, FingerPosts
<1>5. ASSUME Rails!Post(Rails!Call("end", r, 0)), finger' = [finger EXCEPT ![r] = "off"]
      PROVE  RailsInv'
  <2> DEFINE new == <<rec("end", 0)>>
  <2>1. rec("end", 0) \in RailCall
    BY <1>3
  <2>2. new \in Seq(RailCall) /\ Rails!Post(new) /\ Len(new) > 0
        /\ \A k \in 1..Len(new) : new[k].rail = r /\ new[k].what # "preview"
    BY <1>5, <2>1 DEF Rails!Call
  <2> HIDE DEF new, rec
  <2> QED
    BY <1>1, <1>5, <2>2, FingerPosts
<1>6. ASSUME NEW one \in RailCall, NEW two \in RailCall,
             one.rail = r, one.what # "preview", two.rail = r, two.what # "preview",
             Rails!Post(<<one>> \o <<two>>), finger' = [finger EXCEPT ![r] = "off"]
      PROVE  RailsInv'
  <2> DEFINE s1 == <<one>>
             s2 == <<two>>
             new == s1 \o s2
  <2>1. /\ s1 \in Seq(RailCall) /\ Len(s1) = 1 /\ s1[1] = one
        /\ s2 \in Seq(RailCall) /\ Len(s2) = 1 /\ s2[1] = two
    OBVIOUS
  <2>2. Rails!Post(new)
    BY <1>6
  <2> HIDE DEF s1, s2
  <2>6. /\ s1 \o s2 \in Seq(RailCall) /\ Len(s1 \o s2) = Len(s1) + Len(s2)
        /\ \A k \in 1..Len(s1) + Len(s2) :
              (s1 \o s2)[k] = IF k <= Len(s1) THEN s1[k] ELSE s2[k - Len(s1)]
    BY <2>1, ConcatProperties
  <2>3. /\ new \in Seq(RailCall) /\ Len(new) = 2
        /\ \A k \in 1..2 : new[k] = IF k <= 1 THEN s1[k] ELSE s2[k - 1]
    BY <2>1, <2>6
  <2> HIDE DEF new
  <2>4. new[1] = one /\ new[2] = two
    BY <2>1, <2>3
  <2>5. \A k \in 1..Len(new) : new[k].rail = r /\ new[k].what # "preview"
    BY <1>6, <2>3, <2>4
  <2>7. Len(new) > 0 /\ "off" \in {"off", "down", "moving"}
    BY <2>3
  <2> QED
    BY <1>1, <1>6, <2>7, <2>2, <2>3, <2>5, FingerPosts
<1>7. CASE Rails!TouchDown(r)
  BY <1>4, <1>7 DEF Rails!TouchDown
<1>8. CASE Rails!Move(r)
  BY <1>4, <1>8 DEF Rails!Move
<1>9. CASE Rails!Cancel(r)
  BY <1>5, <1>9 DEF Rails!Cancel
<1>10. CASE Rails!Lift(r)
  <2>1. PICK at \in TouchAt :
          Rails!Post(IF finger[r] = "moving" THEN Rails!Call("commit", r, at)
                       \o Rails!Call("end", r, 0)
                     ELSE Rails!Call("end", r, 0) \o Rails!Call("commit", r, at))
    BY <1>10 DEF Rails!Lift
  <2>2. finger' = [finger EXCEPT ![r] = "off"]
    BY <1>10 DEF Rails!Lift
  <2> DEFINE ends == rec("end", 0)
             commits == rec("commit", at)
  <2>3. /\ ends \in RailCall /\ commits \in RailCall
        /\ ends.rail = r /\ ends.what # "preview" /\ commits.rail = r /\ commits.what # "preview"
    BY <1>3
  <2>4. Rails!Call("commit", r, at) = <<commits>> /\ Rails!Call("end", r, 0) = <<ends>>
    BY DEF Rails!Call
  <2> HIDE DEF ends, commits
  <2>5. Rails!Post(<<commits>> \o <<ends>>) \/ Rails!Post(<<ends>> \o <<commits>>)
    BY <2>1, <2>4
  <2> QED
    BY <1>6, <2>2, <2>3, <2>5
<1> QED
  BY <1>7, <1>8, <1>9, <1>10

(* What is selected: a grade of laterality only when no swap runs, and it  *)
(* starts one or, before the first cards, is committed.                    *)
RailSwap ==
    /\ railGrades' \in [Rails!Rail -> {railGrades'[r] : r \in Rails!Rail}]
    /\ reshuffling' \in BOOLEAN /\ UNCHANGED <<landed, deckDealt>>
    /\ \/ /\ UNCHANGED <<reshuffling, settled>>
          /\ railGrades'["laterality"] = railGrades["laterality"]
       \/ ~reshuffling /\ (~reshuffling' => railGrades'["laterality"] = settled')

(* A grade is selected on one of the rails.                                *)
LEMMA SelectedIs ==
    ASSUME RailTypes, NEW r \in Rails!Rail, NEW g, NEW disabled \in BOOLEAN,
           Rails!Selected(r, g, disabled)
    PROVE  RailSwap
<1>1. /\ railGrades \in [Rails!Rail -> {railGrades[q] : q \in Rails!Rail}]
      /\ reshuffling \in BOOLEAN /\ deckDealt \in BOOLEAN
  BY DEF RailTypes
<1>2. CASE UNCHANGED Rails!swapVars
  BY <1>1, <1>2 DEF Rails!swapVars, RailSwap
<1>3. ASSUME Rails!Pick(g), ~reshuffling PROVE RailSwap
  BY <1>1, <1>3 DEF Rails!Pick, RailSwap, Rails!Rail
<1>4. ASSUME Rails!PickComplexity(g) PROVE RailSwap
  BY <1>1, <1>4 DEF Rails!PickComplexity, RailSwap, Rails!Rail
<1> QED
  BY <1>2, <1>3, <1>4 DEF Rails!Selected, Rails!Rail

(* So the grade stays settled.                                             *)
LEMMA SwapSettles ==
    ASSUME RailTypes, GradeSettled, RailSwap PROVE GradeSettled'
BY DEF RailTypes, GradeSettled, RailSwap

(* The JavaScript thread runs a call.                                      *)
LEMMA RailCallRuns ==
    ASSUME RailsInv, Rails!RunCall
    PROVE  RailsInv' /\ RailSwap
<1> DEFINE c == Head(calls)
           at == Rails!stepFromX(c.x, width[c.rail])
<1>1. RailTypes /\ PreviewsEnd /\ GradeSettled
  BY DEF RailsInv
<1>2. /\ calls # <<>> /\ calls' = Tail(calls) /\ UNCHANGED finger
      /\ preview' = [preview EXCEPT ![c.rail] =
            IF c.what = "preview" THEN (IF c.gate THEN preview[c.rail] ELSE at)
            ELSE Rails!NoPreview]
      /\ IF c.what = "commit" /\ ~c.gate THEN Rails!Selected(c.rail, at, c.gate)
         ELSE UNCHANGED Rails!swapVars
  BY DEF Rails!RunCall
<1>3. c \in RailCall /\ c = calls[1]
  BY <1>1, <1>2 DEF RailTypes
<1>4. c.rail \in Rails!Rail /\ c.gate \in BOOLEAN
  BY <1>3 DEF RailCall
<1> HIDE DEF c, at
<1>5. RailSwap
  <2>1. CASE c.what = "commit" /\ ~c.gate
    BY <1>1, <1>2, <1>4, <2>1, SelectedIs
  <2>2. CASE ~(c.what = "commit" /\ ~c.gate)
    BY <1>1, <1>2, <2>2 DEF RailTypes, RailSwap, Rails!swapVars
  <2> QED
    BY <2>1, <2>2
<1>6. /\ calls' \in Seq(RailCall) /\ Len(calls) \in Nat /\ Len(calls) > 0
      /\ Len(calls') = Len(calls) - 1
      /\ \A k \in 1..Len(calls') : calls'[k] = calls[k + 1]
  BY <1>1, <1>2 DEF RailTypes
<1>7. ASSUME NEW r \in Rails!Rail, NEW i \in Nat, i > 0, EndsLater(calls, r, i)
      PROVE  EndsLater(calls', r, i - 1)
  <2>1. PICK k \in 1..Len(calls) : k > i /\ calls[k].rail = r /\ calls[k].what # "preview"
    BY <1>7 DEF EndsLater
  <2>2. k - 1 \in 1..Len(calls') /\ calls'[k - 1] = calls[k] /\ k - 1 > i - 1
    BY <1>6, <1>7, <2>1
  <2> QED
    BY <2>1, <2>2 DEF EndsLater
<1>8. ASSUME NEW r \in Rails!Rail, finger'[r] = "off"
      PROVE  /\ preview'[r] # Rails!NoPreview => EndsLater(calls', r, 0)
             /\ EndIsOnItsWay(calls', r)
  <2>1. /\ preview[r] # Rails!NoPreview => EndsLater(calls, r, 0)
        /\ EndIsOnItsWay(calls, r)
    BY <1>1, <1>2, <1>8 DEF PreviewsEnd
  <2>2. ASSUME NEW i \in 1..Len(calls'), calls'[i].rail = r
        PROVE  EndsLater(calls', r, i) \/ calls'[i].what # "preview"
    <3>1. i + 1 \in 1..Len(calls) /\ calls'[i] = calls[i + 1] /\ i + 1 \in Nat /\ i + 1 > 0
          /\ (i + 1) - 1 = i
      BY <1>6
    <3>2. EndsLater(calls, r, i + 1) \/ calls[i + 1].what # "preview"
      BY <2>1, <2>2, <3>1 DEF EndIsOnItsWay
    <3> QED
      BY <1>7, <3>1, <3>2
  <2>3. ASSUME preview'[r] # Rails!NoPreview PROVE EndsLater(calls', r, 0)
    <3>1. CASE c.rail = r
      <4>1. c.what = "preview"
        BY <1>1, <1>2, <1>4, <2>3, <3>1 DEF RailTypes
      <4>2. EndsLater(calls, r, 1)
        BY <1>3, <1>6, <2>1, <3>1, <4>1 DEF EndIsOnItsWay
      <4> QED
        BY <1>7, <4>2
    <3>2. CASE c.rail # r
      <4>1. preview[r] # Rails!NoPreview
        BY <1>1, <1>2, <1>4, <2>3, <3>2 DEF RailTypes
      <4>2. PICK k \in 1..Len(calls) : k > 0 /\ calls[k].rail = r /\ calls[k].what # "preview"
        BY <2>1, <4>1 DEF EndsLater
      <4>3. k # 1
        BY <1>3, <3>2, <4>2
      <4>4. k > 1
        BY <4>2, <4>3
      <4>5. EndsLater(calls, r, 1)
        BY <4>2, <4>4 DEF EndsLater
      <4> QED
        BY <1>7, <4>5
    <3> QED
      BY <3>1, <3>2
  <2> QED
    BY <2>2, <2>3 DEF EndIsOnItsWay
<1>9. PreviewsEnd'
  BY <1>8 DEF PreviewsEnd
<1>10. RailTypes'
  <2>1. preview' \in [Rails!Rail -> {preview'[r] : r \in Rails!Rail}]
    BY <1>1, <1>2, <1>4 DEF RailTypes
  <2> QED
    BY <1>1, <1>2, <1>5, <1>6, <2>1 DEF RailTypes, RailSwap
<1> QED
  BY <1>1, <1>5, <1>9, <1>10, SwapSettles DEF RailsInv

(* Keys and the layout touch no preview.                                   *)
LEMMA RailKeys ==
    ASSUME RailsInv, NEW r \in Rails!Rail, Rails!Step(r) \/ Rails!Layout(r) \/ UNCHANGED railVars
    PROVE  RailsInv' /\ RailSwap
<1>1. RailTypes /\ PreviewsEnd /\ GradeSettled
  BY DEF RailsInv
<1>2. UNCHANGED <<preview, finger, calls>>
  BY DEF Rails!Step, Rails!Layout, railVars
<1>3. RailSwap
  <2>1. CASE Rails!Step(r)
    <3>1. reshuffling \in BOOLEAN
      BY <1>1 DEF RailTypes
    <3>2. PICK g : Rails!Selected(r, g, reshuffling)
      BY <2>1 DEF Rails!Step
    <3> QED
      BY <1>1, <3>1, <3>2, SelectedIs
  <2>2. CASE Rails!Layout(r) \/ UNCHANGED railVars
    BY <1>1, <2>2 DEF Rails!Layout, RailSwap, RailTypes, railVars, Rails!swapVars
  <2> QED
    BY <2>1, <2>2
<1>4. PreviewsEnd'
  BY <1>1, <1>2 DEF PreviewsEnd
<1>5. RailTypes'
  BY <1>1, <1>2, <1>3 DEF RailTypes, RailSwap
<1> QED
  BY <1>1, <1>3, <1>4, <1>5, SwapSettles DEF RailsInv

(* What a step may do to the grade of laterality.                          *)
GradeKept ==
    /\ reshuffling =>
         \/ railGrades'["laterality"] = railGrades["laterality"]
         \/ ~landed /\ landed' /\ railGrades'["laterality"] = settled
    /\ ~reshuffling' \/ landed' => railGrades'["laterality"] = settled'

(* The swap lands, or fails and gives the grade back; later it ends. And   *)
(* the first cards come.                                                   *)
LEMMA RailSwapRuns ==
    ASSUME RailsInv, Rails!SwapLands \/ Rails!SwapEnds \/ Rails!FirstCards
    PROVE  RailsInv' /\ GradeKept
<1>1. RailTypes /\ PreviewsEnd /\ GradeSettled
  BY DEF RailsInv
<1>2. UNCHANGED <<preview, finger, calls>>
  BY DEF Rails!SwapLands, Rails!SwapEnds, Rails!FirstCards
<1>3. PreviewsEnd'
  BY <1>1, <1>2 DEF PreviewsEnd
<1>4. CASE Rails!SwapLands
  <2>1. /\ reshuffling /\ ~landed /\ landed' = TRUE /\ UNCHANGED <<reshuffling, deckDealt>>
        /\ \/ settled' = railGrades["laterality"] /\ UNCHANGED railGrades
           \/ railGrades' = [railGrades EXCEPT !["laterality"] = settled] /\ UNCHANGED settled
    BY <1>4 DEF Rails!SwapLands
  <2>2. RailTypes'
    BY <1>1, <1>2, <2>1 DEF RailTypes, Rails!Rail
  <2>3. railGrades'["laterality"] = settled'
    BY <1>1, <2>1 DEF RailTypes, Rails!Rail
  <2>4. railGrades'["laterality"] = railGrades["laterality"] \/ railGrades'["laterality"] = settled
    BY <2>1, <2>3
  <2> QED
    BY <1>3, <2>1, <2>2, <2>3, <2>4 DEF RailsInv, GradeSettled, GradeKept
<1>5. CASE Rails!SwapEnds \/ Rails!FirstCards
  <2>1. /\ UNCHANGED <<railGrades, settled>>
        /\ \/ landed /\ reshuffling' = FALSE /\ landed' = FALSE /\ UNCHANGED deckDealt
           \/ deckDealt' = TRUE /\ UNCHANGED <<reshuffling, landed>>
    BY <1>5 DEF Rails!SwapEnds, Rails!FirstCards
  <2>2. RailTypes'
    BY <1>1, <1>2, <2>1 DEF RailTypes
  <2> QED
    BY <1>1, <1>3, <2>1, <2>2 DEF RailsInv, RailTypes, GradeSettled, GradeKept
<1> QED
  BY <1>4, <1>5

(* Every step keeps the invariant of the rails, and leaves the grade that  *)
(* a running swap was started for until it fails.                          *)
LEMMA RailsStep == RailsInv /\ [ClientNext]_clientVars => RailsInv' /\ GradeKept
<1> SUFFICES ASSUME RailsInv, Rails!Next \/ UNCHANGED railVars
             PROVE  RailsInv' /\ GradeKept
  BY RailSteps
<1>1. ASSUME NEW r \in Rails!Rail,
             Rails!TouchDown(r) \/ Rails!Move(r) \/ Rails!Lift(r) \/ Rails!Cancel(r)
      PROVE  RailsInv' /\ RailSwap
  <2>1. UNCHANGED Rails!swapVars
    BY <1>1 DEF Rails!TouchDown, Rails!Move, Rails!Lift, Rails!Cancel
  <2> QED
    BY <1>1, <2>1, RailFingers DEF RailsInv, RailTypes, RailSwap, Rails!swapVars
<1>2. ASSUME RailsInv', RailSwap PROVE GradeKept
  BY <1>2 DEF RailsInv, GradeSettled, RailSwap, GradeKept
<1>3. "laterality" \in Rails!Rail
  BY DEF Rails!Rail
<1> QED
  BY <1>1, <1>2, <1>3, RailCallRuns, RailKeys, RailSwapRuns DEF Rails!Next

(* A rail shows the grade it holds once no finger is on it and every       *)
(* callback has run; and a running swap keeps the grade that it was        *)
(* started for until it fails and gives the committed one back, from when  *)
(* on until the next swap the two are the same: for every number of        *)
(* callbacks that wait and wherever the fingers are (LateralityControl.tsx,*)
(* ComplexityControl.tsx, onSelectLaterality).                             *)
THEOREM RailsCorrect == ClientSpec => RailsAreSound
<1> DEFINE NoneStays == calls' = <<>> =>
              \A r \in Rails!Rail : finger'[r] = "off" => preview'[r] = Rails!NoPreview
<1>1. RailsInv' => NoneStays
  BY DEF RailsInv, PreviewsEnd, EndsLater
<1>2. RailsInv /\ [ClientNext]_clientVars =>
        RailsInv' /\ [NoneStays]_(Rails!railVars) /\ [GradeKept]_(Rails!railVars)
  BY <1>1, RailsStep
<1> QED
  BY <1>2, RailsStart, RailsStep, PTL
     DEF ClientSpec, RailsAreSound, Rails!RailsAreSound, Rails!NoPreviewStays,
         Rails!SwapKeepsItsGrade, GradeKept

-----------------------------------------------------------------------------
(* A card that is turned over.                                             *)

(* The inductive invariant of a card that is turned over: the turn goes to *)
(* the face of the state; the face posted last is the one beyond its       *)
(* middle; what the refs hold is what was rendered, once their effects     *)
(* have run; the clock is that of the face, also while the app is away;    *)
(* and a touch of a link is either old or within the window that ignores   *)
(* it.                                                                     *)
FlipTypes ==
    /\ flipDeck \in [top : Cards, status : BOOLEAN] /\ flipped \in BOOLEAN
    /\ turn \in [at : 0..Turn, to : {0, Turn}]
    /\ presented \in Flip!Face /\ news \in Seq(Flip!Face)
    /\ refs \in [flipped : BOOLEAN, deck : [top : Cards, status : BOOLEAN]]
    /\ due \in {"none", "flip", "deck"} /\ away \in BOOLEAN /\ held \in BOOLEAN
    /\ dwell \in [card : Cards \cup {None}, face : Flip!Face, stay : Nat \cup {None}]
    /\ linkQuiet \in Nat /\ seen \in Nat /\ flipOdd \in BOOLEAN
    /\ linkTouch = None \/ linkTouch \in [age : Nat, tap : BOOLEAN, press : BOOLEAN]

LastFace == IF news = <<>> THEN presented ELSE news[Len(news)]
FacesFollow ==
    /\ turn.to = IF flipped THEN Turn ELSE 0
    /\ ~flipDeck.status => LastFace = Flip!cardFlipA11yFace(turn.at)

RefsFollow ==
    /\ due = "none" => refs.flipped = flipped
    /\ due # "deck" => refs.deck = flipDeck
    /\ due # "none" => seen = 0

ClockFollows ==
    due # "deck" /\ ~flipOdd =>
        /\ dwell.card = IF flipDeck.status THEN None ELSE flipDeck.top
        /\ ~flipDeck.status => dwell.face = Flip!FaceOf(flipped)
        /\ away => dwell.stay = None
        /\ ~away /\ ~flipDeck.status => dwell.stay = seen

LinkIsIgnored == linkTouch # None => linkTouch.age + linkQuiet >= Suppress

FlipInv == FlipTypes /\ FacesFollow /\ RefsFollow /\ ClockFollows /\ LinkIsIgnored

(* One step of the turn is a step of its module.                           *)
LEMMA FlipSteps == [ClientNext]_clientVars => Flip!Next \/ UNCHANGED flipVars
  BY DEF ClientNext, OthersRest, Keeps, clientVars

(* What is assumed of the turn's constants.                                *)
LEMMA FlipConstants ==
    /\ Turn \in Nat /\ Turn > 0 /\ Suppress \in Nat /\ MaxStay \in Nat
    /\ None \notin Cards /\ None \notin Nat
  BY ClientAssumption

(* The face before the middle and beyond it.                               *)
LEMMA FaceAt ==
    /\ Flip!cardFlipA11yFace(0) = "front" /\ Flip!cardFlipA11yFace(Turn) = "back"
    /\ \A at : Flip!cardFlipA11yFace(at) \in {"front", "back"}
  BY FlipConstants DEF Flip!cardFlipA11yFace, Flip!FaceOf

(* Init: the first card shows its front.                                   *)
LEMMA FlipStarts == ClientInit => FlipInv
<1> SUFFICES ASSUME ClientInit PROVE FlipInv
  OBVIOUS
<1>1. /\ \E top \in Cards : flipDeck = [top |-> top, status |-> FALSE]
      /\ flipped = FALSE /\ turn = [at |-> 0, to |-> 0]
      /\ presented = "front" /\ news = <<>>
      /\ refs = [flipped |-> FALSE, deck |-> flipDeck] /\ due = "none"
      /\ dwell = [card |-> flipDeck.top, face |-> "front", stay |-> 0]
      /\ away = FALSE /\ held = FALSE /\ linkQuiet = 0 /\ linkTouch = None
      /\ seen = 0 /\ flipOdd = FALSE
  BY DEF ClientInit, Flip!Init
<1>2. news \in Seq(Flip!Face)
  BY <1>1, EmptySeq
<1>3. flipDeck \in [top : Cards, status : BOOLEAN] /\ ~flipDeck.status
  BY <1>1
<1>4. FlipTypes
  <2>1. turn \in [at : 0..Turn, to : {0, Turn}]
    BY <1>1, FlipConstants
  <2>2. refs \in [flipped : BOOLEAN, deck : [top : Cards, status : BOOLEAN]]
    BY <1>1, <1>3
  <2>3. dwell \in [card : Cards \cup {None}, face : Flip!Face, stay : Nat \cup {None}]
    BY <1>1, <1>3 DEF Flip!Face
  <2> QED
    BY <1>1, <1>2, <1>3, <2>1, <2>2, <2>3 DEF FlipTypes, Flip!Face
<1>5. FacesFollow
  BY <1>1, FaceAt DEF FacesFollow, LastFace
<1>6. RefsFollow /\ LinkIsIgnored
  BY <1>1 DEF RefsFollow, LinkIsIgnored
<1>7. ClockFollows
  BY <1>1, <1>3 DEF ClockFollows, Flip!FaceOf
<1> QED
  BY <1>4, <1>5, <1>6, <1>7 DEF FlipInv

(* A sequence grows at its end, and gives its last element away last.      *)
LEMMA LastOfAppend ==
    ASSUME NEW S, NEW s \in Seq(S), NEW e \in S
    PROVE  /\ Append(s, e) \in Seq(S) /\ Append(s, e) # <<>>
           /\ Append(s, e)[Len(Append(s, e))] = e
  BY AppendProperties

(* The last element of a longer sequence is that of its tail.              *)
LEMMA LastOfTail ==
    ASSUME NEW S, NEW s \in Seq(S), s # <<>>
    PROVE  /\ Tail(s) \in Seq(S) /\ Head(s) \in S
           /\ Tail(s) = <<>> => Head(s) = s[Len(s)]
           /\ Tail(s) # <<>> => Tail(s)[Len(Tail(s))] = s[Len(s)]
<1>1. /\ Tail(s) \in Seq(S) /\ Head(s) \in S /\ Len(Tail(s)) = Len(s) - 1
      /\ \A i \in 1..Len(Tail(s)) : Tail(s)[i] = s[i + 1]
  BY HeadTailProperties
<1>2. Len(s) \in Nat /\ Len(Tail(s)) \in Nat /\ Head(s) = s[1]
  BY <1>1
<1>3. ASSUME Tail(s) = <<>> PROVE Head(s) = s[Len(s)]
  <2>1. Len(Tail(s)) = 0
    BY <1>3, EmptySeq
  <2>2. Len(s) = 1
    <3> DEFINE n == Len(s)
               t == Len(Tail(s))
    <3>1. n \in Nat /\ t = n - 1 /\ t = 0
      BY <1>1, <1>2, <2>1
    <3> HIDE DEF n, t
    <3>2. n = 1
      BY <3>1
    <3> QED
      BY <3>2 DEF n
  <2> QED
    BY <1>2, <2>2
<1>4. ASSUME Tail(s) # <<>> PROVE Tail(s)[Len(Tail(s))] = s[Len(s)]
  <2>1. Len(Tail(s)) # 0
    BY <1>1, <1>4, EmptySeq
  <2>2. Len(Tail(s)) \in 1..Len(Tail(s)) /\ Len(Tail(s)) + 1 = Len(s)
    BY <1>1, <1>2, <2>1
  <2> QED
    BY <1>1, <2>2
<1> QED
  BY <1>1, <1>3, <1>4

(* Another index or status.                                                *)
LEMMA FlipDeals ==
    ASSUME FlipInv, NEW top \in Cards, NEW new \in BOOLEAN, Flip!Deal(top, new)
    PROVE  FlipInv' /\ flipDeck' # flipDeck
<1> DEFINE d == [top |-> top, status |-> new]
<1>1. FlipTypes /\ FacesFollow /\ RefsFollow /\ ClockFollows /\ LinkIsIgnored
  BY DEF FlipInv
<1>2. /\ due = "none" /\ d # flipDeck /\ flipDeck' = d /\ held' = FALSE /\ seen' = 0
      /\ flipped' = FALSE /\ turn' = [at |-> 0, to |-> 0]
      /\ presented' = IF flipDeck.status /\ ~new THEN Flip!FaceOf(flipped) ELSE presented
      /\ news' = IF new THEN <<>>
                 ELSE IF flipDeck.status \/ Flip!cardFlipA11yFace(turn.at) = "back"
                 THEN Append(news, "front") ELSE news
      /\ UNCHANGED <<away, linkQuiet, linkTouch>>
  BY DEF Flip!Deal, Flip!Reset, Flip!PresentedAfter
<1>3. \/ /\ flipped /\ refs' = [flipped |-> FALSE, deck |-> d]
         /\ dwell' = [card |-> IF new THEN None ELSE top, face |-> "front", stay |-> 0]
         /\ flipOdd' = away /\ due' = due
      \/ ~flipped /\ due' = "deck" /\ UNCHANGED <<refs, dwell, flipOdd>>
  BY DEF Flip!Deal, Flip!ViewEffect, Flip!flushDwell
<1>4. d \in [top : Cards, status : BOOLEAN] /\ d.status = new /\ d.top = top
  OBVIOUS
<1> HIDE DEF d
<1>5. news' \in Seq(Flip!Face) /\ presented' \in Flip!Face
  <2>1. Append(news, "front") \in Seq(Flip!Face)
    BY <1>1, LastOfAppend DEF FlipTypes, Flip!Face
  <2>2. <<>> \in Seq(Flip!Face)
    BY EmptySeq
  <2> QED
    BY <1>1, <1>2, <2>1, <2>2 DEF FlipTypes, Flip!FaceOf, Flip!Face
<1>6. FlipTypes'
  <2>1. turn' \in [at : 0..Turn, to : {0, Turn}]
    BY <1>2, FlipConstants
  <2>2. refs' \in [flipped : BOOLEAN, deck : [top : Cards, status : BOOLEAN]]
    <3>1. [flipped |-> FALSE, deck |-> d]
            \in [flipped : BOOLEAN, deck : [top : Cards, status : BOOLEAN]]
      BY <1>4
    <3> QED
      BY <1>1, <1>3, <3>1 DEF FlipTypes
  <2>3. dwell' \in [card : Cards \cup {None}, face : Flip!Face, stay : Nat \cup {None}]
    BY <1>1, <1>3 DEF FlipTypes, Flip!Face
  <2>4. due' \in {"none", "flip", "deck"} /\ flipOdd' \in BOOLEAN
    BY <1>1, <1>3 DEF FlipTypes
  <2> QED
    BY <1>1, <1>2, <1>4, <1>5, <2>1, <2>2, <2>3, <2>4 DEF FlipTypes
<1>7. FacesFollow'
  <2>1. ASSUME ~new PROVE LastFace' = "front"
    <3>1. CASE flipDeck.status \/ Flip!cardFlipA11yFace(turn.at) = "back"
      <4>1. news' = Append(news, "front")
        BY <1>2, <2>1, <3>1
      <4>2. "front" \in Flip!Face /\ news \in Seq(Flip!Face)
        BY <1>1 DEF FlipTypes, Flip!Face
      <4> QED
        BY <4>1, <4>2, LastOfAppend DEF LastFace
    <3>2. CASE ~(flipDeck.status \/ Flip!cardFlipA11yFace(turn.at) = "back")
      <4>1. news' = news /\ presented' = presented
        BY <1>2, <2>1, <3>2
      <4>2. LastFace = "front"
        BY <1>1, <3>2, FaceAt DEF FacesFollow
      <4> QED
        BY <4>1, <4>2 DEF LastFace
    <3> QED
      BY <3>1, <3>2
  <2> QED
    BY <1>2, <1>4, <2>1, FaceAt DEF FacesFollow
<1>8. RefsFollow'
  <2>1. CASE refs' = [flipped |-> FALSE, deck |-> d] /\ due' = due
    <3>1. refs'.flipped = FALSE /\ refs'.deck = d
      BY <2>1
    <3> QED
      BY <1>2, <3>1 DEF RefsFollow
  <2>2. CASE due' = "deck"
    BY <1>2, <2>2 DEF RefsFollow
  <2> QED
    BY <1>3, <2>1, <2>2
<1>9. ClockFollows'
  BY <1>2, <1>3, <1>4 DEF ClockFollows, Flip!FaceOf
<1>10. LinkIsIgnored'
  BY <1>1, <1>2 DEF LinkIsIgnored
<1> QED
  BY <1>2, <1>6, <1>7, <1>8, <1>9, <1>10 DEF FlipInv

(* A card is swapped in its place.                                         *)
LEMMA FlipReloads ==
    ASSUME FlipInv, NEW top \in Cards, Flip!Reload(top)
    PROVE  FlipInv' /\ flipped' = flipped
<1>1. FlipTypes /\ FacesFollow /\ RefsFollow /\ ClockFollows /\ LinkIsIgnored
  BY DEF FlipInv
<1>2. /\ due = "none" /\ ~flipDeck.status /\ flipDeck' = [flipDeck EXCEPT !.top = top]
      /\ due' = "deck" /\ seen' = 0
      /\ UNCHANGED <<flipped, turn, presented, news, refs, dwell, away, held, linkQuiet,
                     linkTouch, flipOdd>>
  BY DEF Flip!Reload
<1>3. flipDeck' \in [top : Cards, status : BOOLEAN] /\ ~flipDeck'.status
  BY <1>1, <1>2 DEF FlipTypes
<1>4. FlipTypes'
  BY <1>1, <1>2, <1>3 DEF FlipTypes
<1>5. FacesFollow' /\ RefsFollow' /\ ClockFollows' /\ LinkIsIgnored'
  BY <1>1, <1>2, <1>3 DEF FacesFollow, LastFace, RefsFollow, ClockFollows, LinkIsIgnored
<1> QED
  BY <1>2, <1>4, <1>5 DEF FlipInv

(* The effects run.                                                        *)
LEMMA FlipEffects ==
    ASSUME FlipInv, Flip!Effects
    PROVE  FlipInv' /\ flipped' = flipped
<1>1. FlipTypes /\ FacesFollow /\ RefsFollow /\ ClockFollows /\ LinkIsIgnored
  BY DEF FlipInv
<1>2. /\ due # "none" /\ due' = "none"
      /\ UNCHANGED <<flipDeck, flipped, turn, presented, news, away, held, linkQuiet,
                     linkTouch, seen>>
      /\ seen = 0
  BY <1>1 DEF Flip!Effects, RefsFollow
<1>3. \/ /\ due = "deck" /\ refs' = [flipped |-> flipped, deck |-> flipDeck]
         /\ dwell' = [card |-> IF flipDeck.status THEN None ELSE flipDeck.top,
                      face |-> "front", stay |-> 0]
         /\ flipOdd' = (flipped \/ away)
      \/ /\ due # "deck" /\ refs' = [refs EXCEPT !.flipped = flipped]
         /\ UNCHANGED <<dwell, flipOdd>>
  BY DEF Flip!Effects, Flip!ViewEffect, Flip!flushDwell
<1>4. refs' = [flipped |-> flipped, deck |-> flipDeck]
  BY <1>1, <1>3 DEF FlipTypes, RefsFollow
<1>5. FlipTypes'
  BY <1>1, <1>2, <1>3, <1>4 DEF FlipTypes, Flip!Face
<1>6. FacesFollow' /\ LinkIsIgnored'
  BY <1>1, <1>2 DEF FacesFollow, LastFace, LinkIsIgnored
<1>7. RefsFollow'
  BY <1>2, <1>4 DEF RefsFollow
<1>8. ClockFollows'
  BY <1>1, <1>2, <1>3 DEF ClockFollows, Flip!FaceOf, FlipTypes
<1> QED
  BY <1>2, <1>5, <1>6, <1>7, <1>8 DEF FlipInv

(* A tap or an action turns the card.                                      *)
LEMMA FlipToggles ==
    ASSUME FlipInv, Flip!toggleFlip,
           linkTouch' = None \/ linkTouch' \in [age : Nat, tap : BOOLEAN, press : BOOLEAN],
           linkTouch' # None => linkTouch # None /\ linkTouch'.age = linkTouch.age,
           UNCHANGED <<flipDeck, presented, news, refs, away, held, linkQuiet>>
    PROVE  FlipInv'
<1> DEFINE next == ~refs.flipped
<1>1. FlipTypes /\ FacesFollow /\ RefsFollow /\ ClockFollows /\ LinkIsIgnored
  BY DEF FlipInv
<1>2. /\ linkQuiet = 0
      /\ dwell' = IF refs.deck.status THEN dwell
                  ELSE [card |-> refs.deck.top, face |-> Flip!FaceOf(next), stay |-> 0]
      /\ turn' = [turn EXCEPT !.to = IF next THEN Turn ELSE 0] /\ flipped' = next
      /\ seen' = (IF next = flipped THEN seen ELSE 0)
      /\ due' = (IF due = "none" THEN "flip" ELSE due)
      /\ flipOdd' = (flipOdd \/ due = "deck" \/ away)
  BY DEF Flip!toggleFlip, Flip!flushDwell
<1>3. next \in BOOLEAN
  BY <1>1 DEF FlipTypes
<1> HIDE DEF next
<1>4. dwell' \in [card : Cards \cup {None}, face : Flip!Face, stay : Nat \cup {None}]
  BY <1>1, <1>2 DEF FlipTypes, Flip!Face, Flip!FaceOf
<1>5. turn' \in [at : 0..Turn, to : {0, Turn}] /\ turn'.at = turn.at
      /\ turn'.to = IF flipped' THEN Turn ELSE 0
  BY <1>1, <1>2 DEF FlipTypes
<1>6. FlipTypes'
  BY <1>1, <1>2, <1>3, <1>4, <1>5 DEF FlipTypes
<1>7. FacesFollow'
  BY <1>1, <1>5 DEF FacesFollow, LastFace
<1>8. seen' = 0 /\ due' # "none"
  <2>1. due = "none" => next # flipped
    BY <1>1 DEF next, RefsFollow, FlipTypes
  <2> QED
    BY <1>1, <1>2, <2>1 DEF RefsFollow
<1>9. RefsFollow'
  BY <1>1, <1>2, <1>8 DEF RefsFollow
<1>10. ClockFollows'
  <2> SUFFICES ASSUME due' # "deck", ~flipOdd'
               PROVE  /\ dwell'.card = IF flipDeck.status THEN None ELSE flipDeck.top
                      /\ ~flipDeck.status => dwell'.face = Flip!FaceOf(flipped')
                      /\ away => dwell'.stay = None
                      /\ ~away /\ ~flipDeck.status => dwell'.stay = seen'
    BY DEF ClockFollows
  <2>1. due # "deck" /\ ~flipOdd /\ ~away /\ refs.deck = flipDeck
    BY <1>1, <1>2 DEF RefsFollow
  <2>2. CASE flipDeck.status
    BY <1>1, <1>2, <2>1, <2>2 DEF ClockFollows
  <2>3. CASE ~flipDeck.status
    BY <1>2, <1>8, <2>1, <2>3
  <2> QED
    BY <2>2, <2>3
<1>11. LinkIsIgnored'
  BY <1>1 DEF LinkIsIgnored
<1> QED
  BY <1>6, <1>7, <1>9, <1>10, <1>11 DEF FlipInv

(* Taps, keys and the tap on a link that is heard.                         *)
LEMMA FlipTaps ==
    ASSUME FlipInv, Flip!Tap \/ Flip!FlipAction \/ Flip!TapHeard
    PROVE  /\ FlipInv'
           /\ linkTouch # None /\ linkTouch.age < Suppress => flipped' = flipped
<1>1. FlipTypes /\ LinkIsIgnored
  BY DEF FlipInv
<1>2. CASE Flip!Tap \/ Flip!FlipAction
  BY <1>1, <1>2, FlipToggles DEF Flip!Tap, Flip!FlipAction
<1>3. CASE Flip!TapHeard
  <2>1. /\ linkTouch # None /\ linkTouch' = Flip!TouchAfter([linkTouch EXCEPT !.tap = FALSE])
        /\ UNCHANGED <<flipDeck, presented, news, refs, away, held, linkQuiet>>
        /\ IF held \/ linkQuiet > 0 THEN UNCHANGED <<flipped, turn, due, dwell, seen, flipOdd>>
           ELSE Flip!toggleFlip
    BY <1>3 DEF Flip!TapHeard
  <2>2. [linkTouch EXCEPT !.tap = FALSE] \in [age : Nat, tap : BOOLEAN, press : BOOLEAN]
        /\ [linkTouch EXCEPT !.tap = FALSE].age = linkTouch.age
    BY <1>1, <2>1 DEF FlipTypes
  <2>3. /\ linkTouch' = None \/ linkTouch' \in [age : Nat, tap : BOOLEAN, press : BOOLEAN]
        /\ linkTouch' # None => linkTouch'.age = linkTouch.age
    BY <2>1, <2>2 DEF Flip!TouchAfter
  <2>4. CASE held \/ linkQuiet > 0
    BY <2>1, <2>3, <2>4
       DEF FlipInv, FlipTypes, FacesFollow, LastFace, RefsFollow, ClockFollows, LinkIsIgnored
  <2>5. CASE ~(held \/ linkQuiet > 0)
    <3>1. FlipInv'
      BY <2>1, <2>3, <2>5, FlipToggles
    <3>2. linkQuiet = 0
      BY <1>1, <2>5 DEF FlipTypes
    <3>3. ~(linkTouch.age < Suppress)
      BY <1>1, <2>1, <3>2, FlipConstants DEF LinkIsIgnored, FlipTypes
    <3> QED
      BY <3>1, <3>3
  <2> QED
    BY <2>4, <2>5
<1> QED
  BY <1>2, <1>3

(* A finger on a link.                                                     *)
LEMMA FlipLinks ==
    ASSUME FlipInv, Flip!TouchLink \/ Flip!Lift \/ Flip!LinkOpens \/ Flip!Moves
                    \/ UNCHANGED flipVars
    PROVE  FlipInv' /\ flipped' = flipped
<1>1. FlipTypes /\ FacesFollow /\ RefsFollow /\ ClockFollows /\ LinkIsIgnored
  BY DEF FlipInv
<1>2. UNCHANGED <<flipDeck, flipped, turn, presented, news, refs, due, dwell, away, seen,
                  flipOdd>>
  BY DEF Flip!TouchLink, Flip!Lift, Flip!LinkOpens, Flip!Moves, flipVars
<1>3. FacesFollow' /\ RefsFollow' /\ ClockFollows'
  BY <1>1, <1>2 DEF FacesFollow, LastFace, RefsFollow, ClockFollows
<1> DEFINE Touches == [age : Nat, tap : BOOLEAN, press : BOOLEAN]
<1>4. held' \in BOOLEAN
  BY <1>1 DEF FlipTypes, Flip!TouchLink, Flip!Lift, Flip!LinkOpens, Flip!Moves, flipVars
<1>5. /\ linkTouch' = None \/ linkTouch' \in Touches
      /\ linkQuiet' \in Nat /\ LinkIsIgnored'
  <2>1. CASE Flip!TouchLink
    BY <2>1, FlipConstants DEF Flip!TouchLink, LinkIsIgnored
  <2>2. CASE Flip!Lift
    <3> DEFINE t == [linkTouch EXCEPT !.press = ~flipDeck.status,
                       !.tap = ~flipDeck.status /\ linkTouch.age <= TapMax]
    <3>1. linkTouch # None /\ linkTouch' = Flip!TouchAfter(t) /\ linkQuiet' = linkQuiet
      BY <2>2 DEF Flip!Lift
    <3>2. linkTouch \in Touches
      BY <1>1, <3>1 DEF FlipTypes
    <3>3. t \in Touches /\ t.age = linkTouch.age
      BY <3>2
    <3> HIDE DEF t
    <3>4. linkTouch' = None \/ linkTouch' = t
      BY <3>1 DEF Flip!TouchAfter
    <3> QED
      BY <1>1, <3>1, <3>3, <3>4 DEF LinkIsIgnored, FlipTypes
  <2>3. CASE Flip!LinkOpens
    <3> DEFINE t == [linkTouch EXCEPT !.press = FALSE]
    <3>1. linkTouch # None /\ linkTouch' = Flip!TouchAfter(t) /\ linkQuiet' = Suppress
      BY <2>3 DEF Flip!LinkOpens
    <3>2. linkTouch \in Touches
      BY <1>1, <3>1 DEF FlipTypes
    <3>3. t \in Touches
      BY <3>2
    <3>4. t.age \in Nat
      BY <3>3
    <3> HIDE DEF t
    <3>5. linkTouch' = None \/ linkTouch' = t
      BY <3>1 DEF Flip!TouchAfter
    <3>6. Suppress \in Nat
      BY FlipConstants
    <3> QED
      BY <3>1, <3>3, <3>4, <3>5, <3>6 DEF LinkIsIgnored
  <2>4. CASE Flip!Moves \/ UNCHANGED flipVars
    BY <1>1, <2>4 DEF Flip!Moves, flipVars, LinkIsIgnored, FlipTypes
  <2> QED
    BY <2>1, <2>2, <2>3, <2>4
<1>6. FlipTypes'
  BY <1>1, <1>2, <1>4, <1>5 DEF FlipTypes
<1> QED
  BY <1>2, <1>3, <1>5, <1>6 DEF FlipInv

(* A frame of the turn.                                                    *)
LEMMA FlipTicks ==
    ASSUME FlipInv, Flip!Tick
    PROVE  FlipInv' /\ flipped' = flipped
<1> DEFINE at == IF turn.at < turn.to THEN turn.at + 1
                 ELSE IF turn.at > turn.to THEN turn.at - 1 ELSE turn.at
<1>1. FlipTypes /\ FacesFollow /\ RefsFollow /\ ClockFollows /\ LinkIsIgnored
  BY DEF FlipInv
<1>2. /\ due = "none" /\ news = <<>> /\ turn' = [turn EXCEPT !.at = at]
      /\ news' = IF flipDeck.status \/ Flip!cardFlipA11yFace(at) = Flip!cardFlipA11yFace(turn.at)
                 THEN <<>> ELSE <<Flip!cardFlipA11yFace(at)>>
      /\ linkQuiet' = (IF linkQuiet > 0 THEN linkQuiet - 1 ELSE 0)
      /\ linkTouch' = (IF linkTouch = None THEN None ELSE [linkTouch EXCEPT !.age = @ + 1])
      /\ dwell' = (IF dwell.stay = None THEN dwell
                   ELSE [dwell EXCEPT !.stay = Flip!Capped(@)])
      /\ seen' = (IF away THEN seen ELSE Flip!Capped(seen))
      /\ UNCHANGED <<flipDeck, flipped, presented, refs, due, away, held, flipOdd>>
  BY DEF Flip!Tick
<1>3. at \in 0..Turn
  BY <1>1, FlipConstants DEF FlipTypes
<1> HIDE DEF at
<1>4. turn' \in [at : 0..Turn, to : {0, Turn}] /\ turn'.at = at /\ turn'.to = turn.to
  BY <1>1, <1>2, <1>3 DEF FlipTypes
<1>5. Flip!cardFlipA11yFace(at) \in Flip!Face
  BY FaceAt DEF Flip!Face
<1>6. news' \in Seq(Flip!Face) /\ (~flipDeck.status => LastFace' = Flip!cardFlipA11yFace(at))
  <2>1. CASE flipDeck.status \/ Flip!cardFlipA11yFace(at) = Flip!cardFlipA11yFace(turn.at)
    <3>1. news' = <<>> /\ LastFace' = presented /\ LastFace = presented
      BY <1>2, <2>1 DEF LastFace
    <3> QED
      BY <1>1, <2>1, <3>1, EmptySeq DEF FacesFollow
  <2>2. CASE ~(flipDeck.status \/ Flip!cardFlipA11yFace(at) = Flip!cardFlipA11yFace(turn.at))
    <3> DEFINE f == Flip!cardFlipA11yFace(at)
    <3>1. news' = <<f>> /\ f \in Flip!Face
      BY <1>2, <1>5, <2>2
    <3> HIDE DEF f
    <3>2. <<f>> \in Seq(Flip!Face) /\ <<f>> # <<>> /\ <<f>>[Len(<<f>>)] = f
      BY <3>1
    <3>3. LastFace' = f
      BY <3>1, <3>2 DEF LastFace
    <3> QED
      BY <3>1, <3>2, <3>3 DEF f
  <2> QED
    BY <2>1, <2>2
<1>7. /\ linkQuiet' \in Nat
      /\ linkTouch' = None \/ linkTouch' \in [age : Nat, tap : BOOLEAN, press : BOOLEAN]
      /\ LinkIsIgnored'
  <2>1. linkQuiet' \in Nat /\ linkQuiet' >= linkQuiet - 1
    BY <1>1, <1>2 DEF FlipTypes
  <2>2. CASE linkTouch = None
    BY <1>2, <2>1, <2>2 DEF LinkIsIgnored
  <2>3. CASE linkTouch # None
    <3>1. /\ linkTouch' \in [age : Nat, tap : BOOLEAN, press : BOOLEAN]
          /\ linkTouch'.age = linkTouch.age + 1 /\ linkTouch.age \in Nat
      BY <1>1, <1>2, <2>3 DEF FlipTypes
    <3>2. linkTouch.age + linkQuiet >= Suppress /\ linkQuiet \in Nat
      BY <1>1, <2>3 DEF LinkIsIgnored, FlipTypes
    <3> QED
      BY <2>1, <3>1, <3>2, FlipConstants DEF LinkIsIgnored
  <2> QED
    BY <2>2, <2>3
<1>8. \A n \in Nat : Flip!Capped(n) \in Nat
  BY FlipConstants DEF Flip!Capped
<1>9. /\ seen' \in Nat
      /\ dwell' \in [card : Cards \cup {None}, face : Flip!Face, stay : Nat \cup {None}]
      /\ dwell'.card = dwell.card /\ dwell'.face = dwell.face
      /\ dwell'.stay = IF dwell.stay = None THEN None ELSE Flip!Capped(dwell.stay)
  BY <1>1, <1>2, <1>8, FlipConstants DEF FlipTypes
<1>10. FlipTypes'
  BY <1>1, <1>2, <1>4, <1>6, <1>7, <1>9 DEF FlipTypes
<1>11. FacesFollow'
  BY <1>1, <1>2, <1>4, <1>6 DEF FacesFollow
<1>12. RefsFollow'
  BY <1>1, <1>2 DEF RefsFollow
<1>13. ClockFollows'
  <2>1. seen \in Nat /\ None \notin Nat
    BY <1>1, FlipConstants DEF FlipTypes
  <2> QED
    BY <1>1, <1>2, <1>9, <2>1 DEF ClockFollows
<1> QED
  BY <1>2, <1>7, <1>10, <1>11, <1>12, <1>13 DEF FlipInv

(* JavaScript takes a posted face over.                                    *)
LEMMA FlipPresents ==
    ASSUME FlipInv, Flip!setPresentedFace
    PROVE  FlipInv' /\ flipped' = flipped
<1>1. FlipTypes /\ FacesFollow /\ RefsFollow /\ ClockFollows /\ LinkIsIgnored
  BY DEF FlipInv
<1>2. /\ news # <<>> /\ presented' = Head(news) /\ news' = Tail(news)
      /\ UNCHANGED <<flipDeck, flipped, turn, refs, due, dwell, away, held, linkQuiet,
                     linkTouch, seen, flipOdd>>
  BY DEF Flip!setPresentedFace
<1>3. /\ news' \in Seq(Flip!Face) /\ presented' \in Flip!Face
      /\ news' = <<>> => presented' = news[Len(news)]
      /\ news' # <<>> => news'[Len(news')] = news[Len(news)]
  BY <1>1, <1>2, LastOfTail DEF FlipTypes
<1>4. LastFace' = LastFace
  BY <1>2, <1>3 DEF LastFace
<1>5. FlipTypes'
  BY <1>1, <1>2, <1>3 DEF FlipTypes
<1>6. FacesFollow' /\ RefsFollow' /\ ClockFollows' /\ LinkIsIgnored'
  BY <1>1, <1>2, <1>4 DEF FacesFollow, RefsFollow, ClockFollows, LinkIsIgnored
<1> QED
  BY <1>2, <1>5, <1>6 DEF FlipInv

(* The app is left, or is back.                                            *)
LEMMA FlipAway ==
    ASSUME FlipInv, NEW active \in BOOLEAN, Flip!onAppState(active)
    PROVE  FlipInv' /\ flipped' = flipped
<1>1. FlipTypes /\ FacesFollow /\ RefsFollow /\ ClockFollows /\ LinkIsIgnored
  BY DEF FlipInv
<1>2. /\ away \/ ~active
      /\ away' = ~active /\ seen' = 0
      /\ dwell' = [dwell EXCEPT !.stay = IF ~active THEN None
                                         ELSE IF dwell.card # None THEN 0 ELSE @]
      /\ UNCHANGED <<flipDeck, flipped, turn, presented, news, refs, due, held, linkQuiet,
                     linkTouch, flipOdd>>
  BY DEF Flip!onAppState
<1>3. /\ dwell' \in [card : Cards \cup {None}, face : Flip!Face, stay : Nat \cup {None}]
      /\ dwell'.card = dwell.card /\ dwell'.face = dwell.face
      /\ ~active => dwell'.stay = None
      /\ active /\ dwell.card # None => dwell'.stay = 0
  BY <1>1, <1>2 DEF FlipTypes
<1>4. FlipTypes'
  BY <1>1, <1>2, <1>3 DEF FlipTypes
<1>5. FacesFollow' /\ RefsFollow' /\ LinkIsIgnored'
  BY <1>1, <1>2 DEF FacesFollow, LastFace, RefsFollow, LinkIsIgnored
<1>6. ClockFollows'
  <2>1. flipDeck.top # None
    BY <1>1, FlipConstants DEF FlipTypes
  <2> QED
    BY <1>1, <1>2, <1>3, <2>1 DEF ClockFollows
<1> QED
  BY <1>2, <1>4, <1>5, <1>6 DEF FlipInv

(* Every step keeps the invariant of the turn, and a link within its       *)
(* window keeps the face.                                                  *)
LEMMA FlipStep ==
    FlipInv /\ [ClientNext]_clientVars =>
        /\ FlipInv'
        /\ linkTouch # None /\ linkTouch.age < Suppress =>
             flipped' = flipped \/ flipDeck' # flipDeck
<1> SUFFICES ASSUME FlipInv, Flip!Next \/ UNCHANGED flipVars
             PROVE  /\ FlipInv'
                    /\ linkTouch # None /\ linkTouch.age < Suppress =>
                         flipped' = flipped \/ flipDeck' # flipDeck
  BY FlipSteps
<1> QED
  BY FlipDeals, FlipReloads, FlipEffects, FlipTaps, FlipLinks, FlipTicks, FlipPresents,
     FlipAway DEF Flip!Next

(* The invariant says what is stated of a turned card at rest, and of the  *)
(* time that is told.                                                      *)
LEMMA FlipFaces == FlipInv => Flip!OneFaceAnswers /\ Flip!TimeIsThatOfTheFace
<1> SUFFICES ASSUME FlipInv PROVE Flip!OneFaceAnswers /\ Flip!TimeIsThatOfTheFace
  OBVIOUS
<1>1. FlipTypes /\ FacesFollow /\ ClockFollows
  BY DEF FlipInv
<1>2. ASSUME ~flipDeck.status, turn.at = turn.to, news = <<>>
      PROVE  Flip!Opaque(turn.at) = {presented} /\ presented = Flip!FaceOf(flipped)
  <2>1. presented = Flip!cardFlipA11yFace(turn.to)
    BY <1>1, <1>2 DEF FacesFollow, LastFace
  <2>2. Turn # 0
    BY FlipConstants
  <2> QED
    BY <1>1, <1>2, <2>1, <2>2, FaceAt DEF FacesFollow, Flip!Opaque, Flip!FaceOf, FlipTypes
<1>3. Flip!OneFaceAnswers
  BY <1>2 DEF Flip!OneFaceAnswers
<1>4. ASSUME due = "none", ~flipOdd PROVE Flip!Timed
  <2>1. ~away /\ ~flipDeck.status =>
          dwell = [card |-> flipDeck.top, face |-> Flip!FaceOf(flipped), stay |-> seen]
    BY <1>1, <1>4 DEF ClockFollows, FlipTypes
  <2> QED
    BY <1>1, <1>4, <2>1 DEF ClockFollows, Flip!Timed
<1>5. Flip!TimeIsThatOfTheFace
  BY <1>4 DEF Flip!TimeIsThatOfTheFace
<1> QED
  BY <1>3, <1>5

(* The face that takes presses is the one that is seen, its time is told   *)
(* as its own, and a link does not turn the card over within its window,   *)
(* for every length of a turn, of a tap and of the window (cardFlip.ts,    *)
(* flipSuppress.ts, ConceptCardStack).                                     *)
THEOREM FlipCorrect == ClientSpec => FlipIsSound
<1>1. FlipInv => Flip!OneFaceAnswers /\ Flip!TimeIsThatOfTheFace
  BY FlipFaces
<1>2. FlipInv /\ [ClientNext]_clientVars =>
        FlipInv' /\ [linkTouch # None /\ linkTouch.age < Suppress =>
                       flipped' = flipped \/ flipDeck' # flipDeck]_(Flip!vars)
  BY FlipStep
<1> QED
  BY <1>1, <1>2, FlipStarts, PTL
     DEF ClientSpec, FlipIsSound, Flip!FlipIsSound, Flip!LinkKeepsFace

-----------------------------------------------------------------------------
(* The stack.                                                              *)

(* The inductive invariant of the stack.  Its types:                       *)
Forward == {"left", "up", "down"}
IsCard(c) ==
    c \in [x : -1..1, y : -1..1, animating : BOOLEAN, exiting : BOOLEAN, peer : -1..1,
           faded : BOOLEAN, turned : BOOLEAN]
IsDeck(d) ==
    /\ d \in [count : 1..MaxCards, index : Nat, pending : BOOLEAN, failed : BOOLEAN,
              offline : BOOLEAN, swapping : BOOLEAN, complexity : 1..MaxComplexity]
    /\ d.index < d.count
StackTypes ==
    /\ IsDeck(stackDeck) /\ IsCard(card)
    /\ stackView \in [count : 1..MaxCards, index : Nat, status : BOOLEAN, locked : BOOLEAN]
    /\ stackView.index < stackView.count
    /\ commit \in Stack!Direction \cup {None} /\ pan \in {None, "x", "y"}
    /\ nav \in {None, "forward", "backward", "backwardGesture"}
    /\ locks \in [behind : 0..MaxCards \cup {None}, overlay : 0..MaxCards \cup {None}]
    /\ spring \in BOOLEAN /\ moving \in BOOLEAN /\ reduceMotion \in BOOLEAN
    /\ crossed \in BOOLEAN /\ stayed \in BOOLEAN

(* Another card or face is to be rendered.                                 *)
Moved == Stack!ViewOf(stackDeck).index # stackView.index
         \/ Stack!ViewOf(stackDeck).status # stackView.status

(* How far the deck may be from what was rendered: who waits for more is   *)
(* on the last card; an index that is not rendered is that of a motion     *)
(* that has ended, of cards that were waited for, or of a reshuffle.       *)
DeckFollows ==
    /\ stackDeck.pending => Stack!IsLast(stackDeck)
    /\ stackView.index < stackDeck.count
    /\ stackDeck.index # stackView.index =>
         card.animating \/ stackView.status \/ (stackView.locked /\ pan = None)

(* A motion is made from the card that is shown.                           *)
MotionFollows ==
    /\ commit # None => card.animating
    /\ commit \in Forward => ~stackView.status
    /\ commit # None /\ ~stackView.status => stackDeck.index = stackView.index

(* Whatever keeps the stack from its rest ends with a finger, a spring, a  *)
(* motion or the next render.                                              *)
RestsLater ==
    /\ card.animating => commit # None \/ stayed \/ Moved
    /\ card.x # 0 \/ card.y # 0 => card.animating \/ pan # None \/ spring
    /\ ~card.animating => ~card.exiting /\ card.peer = 0 /\ ~card.faded
    /\ locks.behind # None => card.animating \/ pan # None
    /\ locks.overlay # None => card.animating
    /\ moving => card.animating \/ pan # None \/ spring

(* What is pinned is what the motion, or the drag so far, comes to.        *)
PinsFollow ==
    /\ locks.overlay # None => locks.overlay = stackView.index - 1
    /\ ~card.animating /\ locks.behind # None =>
         card.x > 0 /\ ~spring /\ locks.behind = stackView.index - 1
    /\ commit \in Forward /\ ~crossed =>
         /\ locks.behind \in {None, stackView.index + 1}
         /\ card.x <= 0 /\ card.peer <= 0
    /\ commit = "right" /\ ~stackView.status /\ ~crossed =>
         card.peer >= 0 /\ card.x >= 0 /\ (card.x = 0 => card.y = 0)

StackInv == StackTypes /\ DeckFollows /\ MotionFollows /\ RestsLater /\ PinsFollow

(* One step of the stack is a step of its module.                          *)
LEMMA StackSteps == [ClientNext]_clientVars => Stack!Next \/ UNCHANGED stackVars
  BY DEF ClientNext, OthersRest, Keeps, clientVars

(* None is no direction, no axis and no index.                             *)
LEMMA StackConstants ==
    /\ None \notin Forward /\ None # "right" /\ None \notin Stack!Direction
    /\ None # "x" /\ None # "y" /\ None \notin Int
    /\ MaxCards \in Nat /\ MaxComplexity \in Nat
  BY ClientAssumption DEF Forward, Stack!Direction

(* An index before another one is an index.                                *)
LEMMA IndexBefore ==
    ASSUME NEW n \in Nat, n <= MaxCards, n > 0
    PROVE  n - 1 \in 0..MaxCards
  BY StackConstants

(* A card is put elsewhere.                                                *)
Put(c, x0, y0) == [c EXCEPT !.x = x0, !.y = y0]

(* A card that is put elsewhere is as it was but for its place.            *)
LEMMA CardPut ==
    ASSUME NEW c, IsCard(c), NEW x0 \in -1..1, NEW y0 \in -1..1
    PROVE  /\ IsCard(Put(c, x0, y0)) /\ Put(c, x0, y0).x = x0 /\ Put(c, x0, y0).y = y0
           /\ Put(c, x0, y0).animating = c.animating /\ Put(c, x0, y0).exiting = c.exiting
           /\ Put(c, x0, y0).peer = c.peer /\ Put(c, x0, y0).faded = c.faded
  BY DEF IsCard, Put

(* A card is sent home.                                                    *)
SentHome(c) == [c EXCEPT !.exiting = FALSE, !.peer = 0]

(* A card that springs back is as it was but for its exit.                 *)
LEMMA CardSentHome ==
    ASSUME NEW c, IsCard(c)
    PROVE  /\ IsCard(SentHome(c)) /\ ~SentHome(c).exiting /\ SentHome(c).peer = 0
           /\ SentHome(c).animating = c.animating /\ SentHome(c).faded = c.faded
<1>1. IsCard(SentHome(c))
  <2> DEFINE kept == FALSE
             centre == 0
  <2>1. SentHome(c) = [c EXCEPT !.exiting = kept, !.peer = centre]
    BY DEF SentHome
  <2>2. kept \in BOOLEAN /\ centre \in -1..1
    OBVIOUS
  <2> HIDE DEF kept, centre
  <2> QED
    BY <2>1, <2>2 DEF IsCard
<1>2. SentHome(c).exiting = FALSE /\ SentHome(c).peer = 0
  BY DEF IsCard, SentHome
<1>3. SentHome(c).animating = c.animating /\ SentHome(c).faded = c.faded
  BY DEF IsCard, SentHome
<1> QED
  BY <1>1, <1>2, <1>3

(* A deck of its fields.                                                   *)
DeckOf(n, i, p, f, o, s, c) ==
    [count |-> n, index |-> i, pending |-> p, failed |-> f, offline |-> o,
     swapping |-> s, complexity |-> c]

(* The fields of a deck.                                                   *)
LEMMA DeckFields ==
    ASSUME NEW d, IsDeck(d)
    PROVE  /\ d.count \in 1..MaxCards /\ d.index \in Nat /\ d.index < d.count
           /\ d.pending \in BOOLEAN /\ d.failed \in BOOLEAN /\ d.offline \in BOOLEAN
           /\ d.swapping \in BOOLEAN /\ d.complexity \in 1..MaxComplexity
  BY DEF IsDeck

(* What has the fields of a deck is one.                                   *)
LEMMA DeckIs ==
    ASSUME NEW n \in 1..MaxCards, NEW i \in Nat, i < n, NEW p \in BOOLEAN, NEW f \in BOOLEAN,
           NEW o \in BOOLEAN, NEW s \in BOOLEAN, NEW c \in 1..MaxComplexity
    PROVE  /\ IsDeck(DeckOf(n, i, p, f, o, s, c))
           /\ DeckOf(n, i, p, f, o, s, c).count = n /\ DeckOf(n, i, p, f, o, s, c).index = i
           /\ DeckOf(n, i, p, f, o, s, c).pending = p
  BY DEF IsDeck, DeckOf

(* More or fewer cards, and nobody waits.                                  *)
Recounted(d, n, i, s) == DeckOf(n, i, FALSE, d.failed, d.offline, s, d.complexity)

(* A deck that is counted anew is as it was but for its counts.            *)
LEMMA DeckRecounted ==
    ASSUME NEW d, IsDeck(d), NEW n \in 1..MaxCards, NEW i \in Nat, i < n, NEW s \in BOOLEAN
    PROVE  /\ IsDeck(Recounted(d, n, i, s)) /\ Recounted(d, n, i, s).count = n
           /\ Recounted(d, n, i, s).index = i /\ ~Recounted(d, n, i, s).pending
<1> DEFINE p == FALSE
<1>1. p \in BOOLEAN /\ ~p
  OBVIOUS
<1> HIDE DEF p
<1>2. Recounted(d, n, i, s) = DeckOf(n, i, p, d.failed, d.offline, s, d.complexity)
  BY DEF Recounted, p
<1>3. /\ n \in 1..MaxCards /\ d.failed \in BOOLEAN /\ d.offline \in BOOLEAN
      /\ d.complexity \in 1..MaxComplexity
  BY DeckFields
<1> DEFINE r == DeckOf(n, i, p, d.failed, d.offline, s, d.complexity)
<1>4. r \in [count : 1..MaxCards, index : Nat, pending : BOOLEAN, failed : BOOLEAN,
              offline : BOOLEAN, swapping : BOOLEAN, complexity : 1..MaxComplexity]
  BY <1>1, <1>3, Zenon DEF DeckOf
<1>5. r.count = n /\ r.index = i /\ r.pending = p
  BY Zenon DEF DeckOf
<1> HIDE DEF r
<1>6. IsDeck(r)
  BY <1>4, <1>5 DEF IsDeck
<1> QED
  BY <1>1, <1>2, <1>5, <1>6 DEF r

(* What is rendered of a deck.                                             *)
LEMMA ViewIs ==
    ASSUME NEW d, IsDeck(d)
    PROVE  /\ Stack!ViewOf(d) \in [count : 1..MaxCards, index : Nat, status : BOOLEAN,
                                   locked : BOOLEAN]
           /\ Stack!ViewOf(d).index = d.index /\ Stack!ViewOf(d).count = d.count
           /\ Stack!ViewOf(d).locked = d.swapping
           /\ Stack!ViewOf(d).status = (Stack!IsLast(d) /\ d.pending /\ ~d.failed)
  BY DEF IsDeck, Stack!ViewOf, Stack!showDeckStatus, Stack!IsLast

(* Init: one card at rest.                                                 *)
LEMMA StackStarts == ClientInit => StackInv
<1> SUFFICES ASSUME ClientInit PROVE StackInv
  OBVIOUS
<1>1. Stack!Init
  BY DEF ClientInit
<1>2. PICK n \in 1..MaxCards, c \in 1..MaxComplexity :
        stackDeck = [count |-> n, index |-> 0, pending |-> FALSE, failed |-> FALSE,
                     offline |-> FALSE, swapping |-> FALSE, complexity |-> c]
  BY <1>1 DEF Stack!Init
<1>3. /\ stackView = Stack!ViewOf(stackDeck)
      /\ card = [x |-> 0, y |-> 0, animating |-> FALSE, exiting |-> FALSE,
                 peer |-> 0, faded |-> FALSE, turned |-> FALSE]
      /\ commit = None /\ pan = None /\ spring = FALSE
      /\ locks = [behind |-> None, overlay |-> None] /\ moving = FALSE
      /\ reduceMotion \in BOOLEAN /\ nav = None /\ crossed = FALSE /\ stayed = FALSE
  BY <1>1 DEF Stack!Init, Stack!AtRest, Stack!NoLocks
<1>4. IsDeck(stackDeck) /\ ~stackDeck.pending
  BY <1>2 DEF IsDeck
<1>5. /\ stackView \in [count : 1..MaxCards, index : Nat, status : BOOLEAN, locked : BOOLEAN]
      /\ stackView.index = stackDeck.index /\ stackView.count = stackDeck.count
  BY <1>3, <1>4, ViewIs
<1>6. IsCard(card)
  BY <1>3 DEF IsCard
<1>7. StackTypes
  BY <1>3, <1>4, <1>5, <1>6 DEF StackTypes, IsDeck
<1>8. DeckFollows /\ MotionFollows
  BY <1>3, <1>4, <1>5, StackConstants DEF DeckFollows, MotionFollows, IsDeck
<1>9. RestsLater
  BY <1>3 DEF RestsLater
<1>10. PinsFollow
  BY <1>3, StackConstants DEF PinsFollow
<1> QED
  BY <1>7, <1>8, <1>9, <1>10 DEF StackInv

-----------------------------------------------------------------------------
(* Fingers *)

(* A finger comes down.                                                    *)
LEMMA StackPanStarts ==
    ASSUME StackInv, NEW axis \in {"x", "y"}, Stack!PanStarts(axis)
    PROVE  StackInv'
<1>1. StackTypes /\ DeckFollows /\ MotionFollows /\ RestsLater /\ PinsFollow
  BY DEF StackInv
<1>2. /\ pan = None /\ ~stackView.locked /\ pan' = axis /\ moving' = TRUE
      /\ axis = "y" => ~card.animating
      /\ card' = IF axis = "y" THEN [card EXCEPT !.x = 0] ELSE card
      /\ UNCHANGED <<stackDeck, stackView, commit, spring, locks, shownBehind,
                     reduceMotion, enter, nav, crossed, stayed>>
  BY DEF Stack!PanStarts
<1>3. /\ IsCard(card') /\ card'.animating = card.animating /\ card'.exiting = card.exiting
      /\ card'.peer = card.peer /\ card'.faded = card.faded
      /\ card'.y = card.y /\ (card'.x = card.x \/ (card'.x = 0 /\ ~card.animating))
  BY <1>1, <1>2 DEF StackTypes, IsCard
<1>4. pan' # None
  BY <1>2, StackConstants
<1>5. StackTypes'
  BY <1>1, <1>2, <1>3 DEF StackTypes
<1>6. DeckFollows' /\ MotionFollows'
  BY <1>1, <1>2, <1>3 DEF DeckFollows, MotionFollows
<1>7. RestsLater'
  BY <1>1, <1>2, <1>3, <1>4 DEF RestsLater, Moved
<1>8. PinsFollow'
  <2>1. CASE card' = card
    BY <1>1, <1>2, <2>1 DEF PinsFollow
  <2>2. CASE ~card.animating
    <3>1. commit = None /\ locks.behind = None /\ locks.overlay = None
      BY <1>1, <1>2, <2>2 DEF MotionFollows, RestsLater
    <3> QED
      BY <1>2, <3>1, StackConstants DEF PinsFollow
  <2> QED
    BY <1>2, <2>1, <2>2
<1> QED
  BY <1>5, <1>6, <1>7, <1>8 DEF StackInv

(* The pins that a drag or a motion sets.                                  *)
LEMMA PinsAre ==
    ASSUME StackTypes
    PROVE  /\ \A l : Stack!PinNext(l) = IF stackView.index + 1 < stackView.count
                                        THEN [l EXCEPT !.behind = stackView.index + 1] ELSE l
           /\ \A l : Stack!PinPrevious(l) = IF stackView.index > 0
                                            THEN [l EXCEPT !.behind = stackView.index - 1] ELSE l
           /\ \A l : Stack!CoverPrevious(l) = IF stackView.index > 0
                                              THEN [l EXCEPT !.overlay = stackView.index - 1]
                                              ELSE l
           /\ stackView.index \in Nat /\ stackView.index <= MaxCards
           /\ stackView.index + 1 < stackView.count => stackView.index + 1 <= MaxCards
  BY StackConstants DEF Stack!PinNext, Stack!PinPrevious, Stack!CoverPrevious, StackTypes

(* A drag.                                                                 *)
LEMMA StackDrags ==
    ASSUME StackInv, pan # None, ~card.animating, NEW x \in -1..1, NEW y \in -1..1,
           spring' = FALSE, IsCard(card'), card'.x = x, card'.y = y,
           card'.animating = card.animating, card'.exiting = card.exiting,
           card'.peer = card.peer, card'.faded = card.faded,
           locks' \in [behind : 0..MaxCards \cup {None}, overlay : 0..MaxCards \cup {None}],
           locks'.overlay = locks.overlay,
           locks'.behind = None \/ (x > 0 /\ locks'.behind = stackView.index - 1),
           UNCHANGED <<stackDeck, stackView, commit, pan, shownBehind, moving, reduceMotion,
                       enter, nav, crossed, stayed>>
    PROVE  StackInv'
<1>1. StackTypes /\ DeckFollows /\ MotionFollows /\ RestsLater /\ PinsFollow
  BY DEF StackInv
<1>3. commit = None /\ locks.overlay = None
  BY <1>1 DEF MotionFollows, RestsLater
<1>4. StackTypes'
  BY <1>1 DEF StackTypes
<1>5. DeckFollows' /\ MotionFollows'
  BY <1>1 DEF DeckFollows, MotionFollows
<1>6. RestsLater'
  BY <1>1, <1>3 DEF RestsLater, Moved
<1>7. PinsFollow'
  BY <1>3, StackConstants DEF PinsFollow
<1> QED
  BY <1>4, <1>5, <1>6, <1>7 DEF StackInv

(* A finger moves along its axis.                                          *)
LEMMA StackPanMoves ==
    ASSUME StackInv,
           \/ \E x \in -1..1, y \in 0..1 : Stack!PanXMoves(x, y)
           \/ \E y \in 0..1 : Stack!PanYMoves(y)
    PROVE  StackInv'
<1>1. StackTypes /\ RestsLater /\ PinsFollow
  BY DEF StackInv
<1>2. ASSUME NEW x \in -1..1, NEW y \in 0..1, Stack!PanXMoves(x, y) PROVE StackInv'
  <2>1. /\ pan = "x" /\ ~card.animating /\ card' = [card EXCEPT !.x = x, !.y = y]
        /\ spring' = FALSE
        /\ locks' = IF x > 0 /\ Stack!canSwipeRight THEN Stack!PinPrevious(locks)
                    ELSE [locks EXCEPT !.behind = None]
        /\ UNCHANGED <<stackDeck, stackView, commit, pan, shownBehind, moving, reduceMotion,
                       enter, nav, crossed, stayed>>
    BY <1>2 DEF Stack!PanXMoves
  <2>2. locks \in [behind : 0..MaxCards \cup {None}, overlay : 0..MaxCards \cup {None}]
        /\ stackView.index \in Nat
    BY <1>1 DEF StackTypes
  <2>3. /\ locks' \in [behind : 0..MaxCards \cup {None}, overlay : 0..MaxCards \cup {None}]
        /\ locks'.overlay = locks.overlay
        /\ locks'.behind = None \/ (x > 0 /\ locks'.behind = stackView.index - 1)
    <3>1. CASE ~(x > 0 /\ Stack!canSwipeRight)
      BY <2>1, <2>2, <3>1
    <3>2. CASE x > 0 /\ stackView.index > 0 /\ Stack!canSwipeRight
      <4>1. locks' = [locks EXCEPT !.behind = stackView.index - 1]
        BY <1>1, <2>1, <3>2, PinsAre
      <4>2. stackView.index - 1 \in 0..MaxCards
        BY <1>1, <2>2, <3>2, PinsAre, IndexBefore
      <4> QED
        BY <2>2, <3>2, <4>1, <4>2
    <3>3. CASE x > 0 /\ ~(stackView.index > 0) /\ Stack!canSwipeRight
      <4>1. locks' = locks
        BY <1>1, <2>1, <3>3, PinsAre
      <4>2. locks.behind = None \/ locks.behind = stackView.index - 1
        BY <1>1, <2>1 DEF PinsFollow
      <4> QED
        BY <2>2, <3>3, <4>1, <4>2
    <3> QED
      BY <3>1, <3>2, <3>3
  <2>4. y \in -1..1 /\ IsCard(card)
    BY <1>1 DEF StackTypes
  <2>5. /\ IsCard(card') /\ card'.x = x /\ card'.y = y
        /\ card'.animating = card.animating /\ card'.exiting = card.exiting
        /\ card'.peer = card.peer /\ card'.faded = card.faded
    <3>1. card' = Put(card, x, y) /\ y \in -1..1
      BY <2>1, <2>4 DEF Put
    <3> QED
      BY <2>4, <3>1, CardPut
  <2> QED
    BY <2>1, <2>3, <2>4, <2>5, StackConstants, StackDrags
<1>3. ASSUME NEW y \in 0..1, Stack!PanYMoves(y) PROVE StackInv'
  <2>1. /\ pan = "y" /\ ~card.animating /\ card' = [card EXCEPT !.y = y]
        /\ spring' = FALSE
        /\ UNCHANGED <<stackDeck, stackView, commit, pan, locks, shownBehind, moving,
                       reduceMotion, enter, nav, crossed, stayed>>
    BY <1>3 DEF Stack!PanYMoves
  <2>2. y \in -1..1 /\ IsCard(card) /\ card.x \in -1..1
    BY <1>1 DEF StackTypes, IsCard
  <2>3. /\ IsCard(card') /\ card'.x = card.x /\ card'.y = y
        /\ card'.animating = card.animating /\ card'.exiting = card.exiting
        /\ card'.peer = card.peer /\ card'.faded = card.faded
    BY <2>1, <2>2 DEF IsCard
  <2>4. /\ locks' \in [behind : 0..MaxCards \cup {None}, overlay : 0..MaxCards \cup {None}]
        /\ locks'.overlay = locks.overlay
        /\ locks'.behind = None \/ (card.x > 0 /\ locks'.behind = stackView.index - 1)
    BY <1>1, <2>1 DEF StackTypes, PinsFollow
  <2> QED
    BY <2>1, <2>2, <2>3, <2>4, StackConstants, StackDrags
<1> QED
  BY <1>2, <1>3

(* A motion begins, from a finger or an action.                            *)
LEMMA StackBegins ==
    ASSUME StackInv, NEW dir \in Stack!Direction, Stack!BeginCommit(dir), ~card.animating,
           dir # "right" => ~stackView.status,
           pan' \in {None, pan}, moving' \in BOOLEAN,
           stackDeck.index # stackView.index => stackView.status,
           \/ dir # "right" /\ locks' = Stack!PinNext(locks)
           \/ /\ dir = "right"
              /\ locks' \in {locks, Stack!CoverPrevious(locks),
                             Stack!PinPrevious(Stack!CoverPrevious(locks))},
           UNCHANGED <<stackDeck, stackView, shownBehind, reduceMotion, enter, nav, stayed>>
    PROVE  StackInv'
<1> DEFINE Pinned == [behind : 0..MaxCards \cup {None}, overlay : 0..MaxCards \cup {None}]
<1>1. StackTypes /\ DeckFollows /\ MotionFollows /\ RestsLater /\ PinsFollow
  BY DEF StackInv
<1>2. /\ card' = Stack!Leaving(card, dir) /\ commit' = dir
      /\ crossed' = (~Stack!Along(dir) /\ (card.x # 0 \/ card.y # 0))
      /\ spring' = (spring /\ (reduceMotion \/ dir \in {"left", "right"}))
  BY DEF Stack!BeginCommit
<1>3. commit = None /\ card.peer = 0 /\ locks.overlay = None
  BY <1>1 DEF MotionFollows, RestsLater
<1>4. IsCard(card) /\ reduceMotion \in BOOLEAN /\ stackView.status \in BOOLEAN
  BY <1>1 DEF StackTypes
<1>5. /\ IsCard(card') /\ card'.animating
      /\ dir # "right" => card'.peer \in {0, -1} /\ card'.x \in {card.x, -1}
                          /\ (dir # "left" => card'.x = card.x)
      /\ dir = "right" => card'.peer \in {0, 1}
                          /\ (card'.x = 1 \/ (card'.x = card.x /\ card'.y = card.y))
  <2>1. CASE reduceMotion
    <3> DEFINE p == CASE dir = "right" /\ stackView.status -> 0
                      [] dir = "right" /\ ~stackView.status -> 1
                      [] OTHER -> -1
               f == dir # "right" \/ card.x > 0 \/ stackView.status
    <3>1. card' = [card EXCEPT !.animating = TRUE, !.exiting = TRUE, !.peer = p, !.faded = f]
      BY <1>2, <2>1 DEF Stack!Leaving
    <3>2. /\ p \in -1..1 /\ (dir # "right" => p = -1) /\ (dir = "right" => p \in {0, 1})
          /\ f \in BOOLEAN
      BY <1>4 DEF IsCard
    <3> HIDE DEF p, f
    <3> QED
      BY <1>4, <3>1, <3>2 DEF IsCard
  <2>2. CASE ~reduceMotion
    <3> DEFINE x0 == CASE dir = "left" -> -1 [] dir = "right" -> 1 [] OTHER -> card.x
               y0 == IF dir \in {"up", "down"} THEN 1 ELSE card.y
    <3>1. card' = [card EXCEPT !.animating = TRUE, !.exiting = TRUE, !.x = x0, !.y = y0]
      BY <1>2, <2>2 DEF Stack!Leaving
    <3>2. /\ x0 \in -1..1 /\ y0 \in -1..1 /\ (dir = "left" => x0 = -1)
          /\ (dir = "right" => x0 = 1) /\ (dir \notin {"left", "right"} => x0 = card.x)
      BY <1>4 DEF IsCard
    <3> HIDE DEF x0, y0
    <3> QED
      BY <1>3, <1>4, <3>1, <3>2 DEF IsCard
  <2> QED
    BY <1>4, <2>1, <2>2
<1>6. locks \in Pinned /\ stackView.index \in Nat
  BY <1>1 DEF StackTypes
<1>7. /\ locks' \in Pinned
      /\ locks'.overlay # None => locks'.overlay = stackView.index - 1
      /\ dir # "right" => locks'.behind \in {locks.behind, stackView.index + 1}
  <2>1. CASE dir # "right"
    <3>1. locks' = locks \/ (locks' = [locks EXCEPT !.behind = stackView.index + 1]
                             /\ stackView.index + 1 <= MaxCards)
      BY <1>1, <2>1, PinsAre
    <3>2. stackView.index + 1 <= MaxCards => stackView.index + 1 \in 0..MaxCards
      BY <1>6, StackConstants
    <3> QED
      BY <1>3, <1>6, <3>1, <3>2
  <2>2. CASE dir = "right"
    <3> DEFINE before == stackView.index - 1
               covered == Stack!CoverPrevious(locks)
    <3>1. stackView.index > 0 => before \in 0..MaxCards
      BY <1>1, <1>6, PinsAre, IndexBefore
    <3>2. covered = IF stackView.index > 0 THEN [locks EXCEPT !.overlay = before] ELSE locks
      BY <1>1, PinsAre
    <3>3. Stack!PinPrevious(covered) =
            IF stackView.index > 0 THEN [covered EXCEPT !.behind = before] ELSE covered
      BY <1>1, PinsAre
    <3>4. locks' \in {locks, covered, Stack!PinPrevious(covered)}
      BY <2>2
    <3> HIDE DEF covered, before
    <3>5. covered \in Pinned /\ (covered.overlay = None \/ covered.overlay = before)
      BY <1>3, <1>6, <3>1, <3>2
    <3>6. locks' \in Pinned /\ (locks'.overlay = None \/ locks'.overlay = before)
      BY <1>3, <1>6, <3>1, <3>3, <3>4, <3>5
    <3> QED
      BY <2>2, <3>6 DEF before
  <2> QED
    BY <2>1, <2>2
<1>8. crossed' \in BOOLEAN /\ spring' \in BOOLEAN
  BY <1>1, <1>2 DEF StackTypes, Stack!Along
<1>9. commit' # None /\ (commit' \in Forward <=> dir # "right")
  BY <1>2, StackConstants DEF Forward, Stack!Direction
<1>10. StackTypes'
  <2>1. pan' \in {None, "x", "y"} /\ commit' \in Stack!Direction \cup {None}
    BY <1>1, <1>2 DEF StackTypes
  <2> QED
    BY <1>1, <1>5, <1>7, <1>8, <2>1 DEF StackTypes
<1>11. DeckFollows' /\ MotionFollows'
  BY <1>1, <1>5, <1>9 DEF DeckFollows, MotionFollows
<1>12. RestsLater'
  BY <1>5, <1>9 DEF RestsLater
<1>13. PinsFollow'
  <2>1. ASSUME dir # "right", ~crossed'
        PROVE  locks'.behind \in {None, stackView.index + 1} /\ card'.x <= 0 /\ card'.peer <= 0
    <3>1. card.x <= 0 /\ (dir # "left" => card.x = 0)
      <4>1. Stack!Along(dir) \/ card.x = 0
        BY <1>2, <2>1
      <4> QED
        BY <1>4, <2>1, <4>1 DEF Stack!Along, IsCard, Stack!Direction
    <3>2. locks.behind = None
      BY <1>1, <1>4, <3>1 DEF PinsFollow, IsCard
    <3> QED
      BY <1>4, <1>5, <1>7, <2>1, <3>1, <3>2 DEF IsCard
  <2>2. ASSUME dir = "right", ~crossed'
        PROVE  card'.peer >= 0 /\ card'.x >= 0 /\ (card'.x = 0 => card'.y = 0)
    <3>1. card.x > 0 \/ (card.x = 0 /\ card.y = 0)
      <4>1. Stack!Along(dir) \/ (card.x = 0 /\ card.y = 0)
        BY <1>2, <2>2
      <4> QED
        BY <2>2, <4>1 DEF Stack!Along
    <3>2. card'.peer \in {0, 1} /\ (card'.x = 1 \/ (card'.x = card.x /\ card'.y = card.y))
      BY <1>5, <2>2
    <3> QED
      BY <1>4, <3>1, <3>2 DEF IsCard
  <2>3. commit' = "right" => dir = "right"
    BY <1>2
  <2>4. stackView' = stackView /\ (commit' \in Forward => dir # "right")
    BY <1>9
  <2> QED
    BY <1>5, <1>7, <2>1, <2>2, <2>3, <2>4 DEF PinsFollow
<1> QED
  BY <1>10, <1>11, <1>12, <1>13 DEF StackInv

(* A finger is lifted.                                                     *)
LEMMA StackPanEnds ==
    ASSUME StackInv, NEW dir \in Stack!Direction \cup {None}, Stack!PanEnds(dir)
    PROVE  StackInv'
<1>1. StackTypes /\ DeckFollows /\ MotionFollows /\ RestsLater /\ PinsFollow
  BY DEF StackInv
<1>2. /\ pan # None /\ pan' = None
      /\ UNCHANGED <<stackDeck, stackView, shownBehind, moving, reduceMotion, enter, nav,
                     stayed>>
  BY DEF Stack!PanEnds
<1>3. moving' \in BOOLEAN /\ (~card.animating =>
        (stackDeck.index # stackView.index => stackView.status))
  BY <1>1, <1>2 DEF StackTypes, DeckFollows
<1>4. \/ card.animating /\ UNCHANGED <<card, commit, spring, locks, crossed>>
      \/ /\ ~card.animating /\ dir = "left" /\ ~stackView.status
         /\ Stack!BeginCommit("left") /\ locks' = Stack!PinNext(locks)
      \/ /\ ~card.animating /\ dir = "right" /\ Stack!BeginCommit("right")
         /\ locks' \in {locks, Stack!PinPrevious(Stack!CoverPrevious(locks))}
      \/ /\ ~card.animating /\ dir \in {"up", "down"} /\ ~stackView.status
         /\ Stack!BeginCommit(dir) /\ locks' = Stack!PinNext(locks)
      \/ ~card.animating /\ Stack!springHome
  BY DEF Stack!PanEnds
<1>5. CASE card.animating /\ UNCHANGED <<card, commit, spring, locks, crossed>>
  <2>1. StackTypes'
    BY <1>1, <1>2, <1>5 DEF StackTypes
  <2>2. DeckFollows' /\ MotionFollows' /\ PinsFollow'
    BY <1>1, <1>2, <1>5 DEF DeckFollows, MotionFollows, PinsFollow
  <2>3. RestsLater'
    BY <1>1, <1>2, <1>5 DEF RestsLater, Moved
  <2> QED
    BY <2>1, <2>2, <2>3 DEF StackInv
<1>6. CASE /\ ~card.animating /\ dir = "left" /\ ~stackView.status
           /\ Stack!BeginCommit("left") /\ locks' = Stack!PinNext(locks)
  <2>1. "left" \in Stack!Direction /\ "left" # "right"
    BY DEF Stack!Direction
  <2> QED
    BY <1>2, <1>3, <1>6, <2>1, StackBegins
<1>7. CASE /\ ~card.animating /\ dir = "right" /\ Stack!BeginCommit("right")
           /\ locks' \in {locks, Stack!PinPrevious(Stack!CoverPrevious(locks))}
  <2>1. "right" \in Stack!Direction
    BY DEF Stack!Direction
  <2> QED
    BY <1>2, <1>3, <1>7, <2>1, StackBegins
<1>8. CASE /\ ~card.animating /\ dir \in {"up", "down"} /\ ~stackView.status
           /\ Stack!BeginCommit(dir) /\ locks' = Stack!PinNext(locks)
  <2>1. dir \in Stack!Direction /\ dir # "right"
    BY <1>8 DEF Stack!Direction
  <2> QED
    BY <1>2, <1>3, <1>8, <2>1, StackBegins
<1>9. CASE ~card.animating /\ Stack!springHome
  <2>1. /\ card' = [card EXCEPT !.exiting = FALSE, !.peer = 0] /\ spring' = TRUE
        /\ locks' = [locks EXCEPT !.behind = None] /\ UNCHANGED <<commit, crossed>>
    BY <1>9 DEF Stack!springHome
  <2>2. /\ IsCard(card') /\ ~card'.animating /\ ~card'.exiting /\ card'.peer = 0
        /\ card'.faded = card.faded
    <3>1. IsCard(card)
      BY <1>1 DEF StackTypes
    <3>2. card' = SentHome(card)
      BY <2>1 DEF SentHome
    <3> QED
      BY <1>9, <3>1, <3>2, CardSentHome
  <2>3. /\ commit = None /\ locks.overlay = None
        /\ locks' \in [behind : 0..MaxCards \cup {None}, overlay : 0..MaxCards \cup {None}]
        /\ locks'.behind = None /\ locks'.overlay = None
    BY <1>1, <1>9, <2>1 DEF StackTypes, MotionFollows, RestsLater
  <2>4. StackTypes'
    BY <1>1, <1>2, <2>1, <2>2, <2>3 DEF StackTypes
  <2>5. DeckFollows' /\ MotionFollows' /\ PinsFollow'
    BY <1>1, <1>2, <1>9, <2>1, <2>2, <2>3, StackConstants
       DEF DeckFollows, MotionFollows, PinsFollow
  <2>6. RestsLater'
    BY <1>1, <1>9, <2>1, <2>2, <2>3 DEF RestsLater
  <2> QED
    BY <2>4, <2>5, <2>6 DEF StackInv
<1> QED
  BY <1>4, <1>5, <1>6, <1>7, <1>8, <1>9

(* Keys, screen readers and the row of buttons.                            *)
LEMMA StackActs ==
    ASSUME StackInv, NEW dir \in Stack!Direction, Stack!RunAction(dir)
    PROVE  StackInv'
<1>1. StackTypes /\ DeckFollows
  BY DEF StackInv
<1>2. /\ ~card.animating /\ ~stackView.locked /\ (dir # "right" => ~stackView.status)
      /\ moving' = TRUE /\ Stack!BeginCommit(dir)
      /\ locks' = IF dir = "right" THEN Stack!CoverPrevious(locks) ELSE Stack!PinNext(locks)
      /\ UNCHANGED <<stackDeck, stackView, pan, shownBehind, reduceMotion, enter, nav, stayed>>
  BY DEF Stack!RunAction, Stack!CanRun
<1>3. stackDeck.index # stackView.index => stackView.status
  BY <1>1, <1>2 DEF DeckFollows
<1> QED
  BY <1>2, <1>3, StackBegins

(* The card is turned, or has sprung home.                                 *)
LEMMA StackSprings ==
    ASSUME StackInv, Stack!Flip \/ Stack!SpringEnds \/ UNCHANGED stackVars
    PROVE  StackInv'
<1>1. StackTypes /\ DeckFollows /\ MotionFollows /\ RestsLater /\ PinsFollow
  BY DEF StackInv
<1>2. UNCHANGED <<stackDeck, stackView, commit, pan, locks, shownBehind, reduceMotion, enter,
                  nav, crossed, stayed>>
  BY DEF Stack!Flip, Stack!SpringEnds, stackVars
<1>3. CASE Stack!Flip \/ UNCHANGED stackVars
  <2>1. /\ UNCHANGED <<spring, moving>> /\ IsCard(card')
        /\ card'.x = card.x /\ card'.y = card.y /\ card'.animating = card.animating
        /\ card'.exiting = card.exiting /\ card'.peer = card.peer /\ card'.faded = card.faded
    BY <1>1, <1>3 DEF Stack!Flip, stackVars, StackTypes, IsCard
  <2>2. StackTypes'
    BY <1>1, <1>2, <2>1 DEF StackTypes
  <2>3. DeckFollows' /\ MotionFollows' /\ PinsFollow'
    BY <1>1, <1>2, <2>1 DEF DeckFollows, MotionFollows, PinsFollow
  <2>4. RestsLater'
    BY <1>1, <1>2, <2>1 DEF RestsLater, Moved
  <2> QED
    BY <2>2, <2>3, <2>4 DEF StackInv
<1>4. CASE Stack!SpringEnds
  <2>1. /\ spring /\ spring' = FALSE /\ moving' = FALSE /\ IsCard(card')
        /\ card'.x = 0 /\ card'.y = 0 /\ card'.animating = card.animating
        /\ card'.exiting = card.exiting /\ card'.peer = card.peer /\ card'.faded = card.faded
    <3>1. IsCard(card)
      BY <1>1 DEF StackTypes
    <3>2. spring /\ spring' = FALSE /\ moving' = FALSE /\ card' = Put(card, 0, 0)
      BY <1>4 DEF Stack!SpringEnds, Put
    <3>3. 0 \in -1..1
      OBVIOUS
    <3> QED
      BY <3>1, <3>2, <3>3, CardPut
  <2>2. StackTypes'
    BY <1>1, <1>2, <2>1 DEF StackTypes
  <2>3. DeckFollows' /\ MotionFollows'
    BY <1>1, <1>2, <2>1 DEF DeckFollows, MotionFollows
  <2>4. PinsFollow'
    BY <1>1, <1>2, <2>1 DEF PinsFollow
  <2>5. RestsLater'
    BY <1>1, <1>2, <2>1 DEF RestsLater, Moved
  <2> QED
    BY <2>2, <2>3, <2>4, <2>5 DEF StackInv
<1> QED
  BY <1>3, <1>4

-----------------------------------------------------------------------------
(* The deck *)

(* What the home screen does with a motion that has ended.                 *)
LEMMA CommittedIs ==
    ASSUME NEW d, IsDeck(d), d.pending => Stack!IsLast(d), NEW dir \in Stack!Direction
    PROVE  /\ IsDeck(Stack!Committed(d, dir)) /\ Stack!Committed(d, dir).count = d.count
           /\ Stack!Committed(d, dir).pending => Stack!IsLast(Stack!Committed(d, dir))
           /\ dir # "right" => Stack!Committed(d, dir).index \in {d.index, d.index + 1}
           /\ dir = "right" => Stack!Committed(d, dir).index \in {d.index, d.index - 1}
<1> DEFINE e == Stack!Committed(d, dir)
<1>1. /\ d.count \in 1..MaxCards /\ d.index \in Nat /\ d.index < d.count
      /\ d.pending \in BOOLEAN /\ d.failed \in BOOLEAN /\ d.offline \in BOOLEAN
      /\ d.swapping \in BOOLEAN /\ d.complexity \in 1..MaxComplexity
  BY DeckFields
<1>2. \E i \in Nat, p \in BOOLEAN, f \in BOOLEAN, c \in 1..MaxComplexity :
        /\ i < d.count /\ (p => i = d.count - 1)
        /\ dir # "right" => i \in {d.index, d.index + 1}
        /\ dir = "right" => i \in {d.index, d.index - 1}
        /\ e = [d EXCEPT !.index = i, !.pending = p, !.failed = f, !.complexity = c]
  <2>1. d.pending => d.index = d.count - 1
    BY DEF Stack!IsLast
  <2>2. CASE dir = "left"
    <3> DEFINE calmed == [d EXCEPT !.failed = FALSE]
    <3>1. e = CASE ~Stack!IsLast(d) -> [calmed EXCEPT !.index = @ + 1, !.pending = FALSE]
               [] Stack!IsLast(d) /\ d.offline -> calmed
               [] OTHER -> [calmed EXCEPT !.pending = TRUE]
      BY <2>2 DEF Stack!Committed, Stack!OnSwipeLeft
    <3> HIDE DEF e
    <3>2. CASE ~Stack!IsLast(d)
      <4>1. d.index + 1 \in Nat /\ d.index + 1 < d.count
        BY <1>1, <3>2 DEF Stack!IsLast
      <4>2. calmed.index = d.index /\ e = [calmed EXCEPT !.index = @ + 1, !.pending = FALSE]
        BY <3>1, <3>2 DEF IsDeck
      <4>3. e = [d EXCEPT !.index = d.index + 1, !.pending = FALSE, !.failed = FALSE,
                          !.complexity = d.complexity]
        BY <4>2 DEF IsDeck
      <4> QED
        BY <1>1, <2>2, <4>1, <4>3
    <3>3. CASE Stack!IsLast(d) /\ d.offline
      <4>1. e = [d EXCEPT !.index = d.index, !.pending = d.pending, !.failed = FALSE,
                          !.complexity = d.complexity]
        BY <3>1, <3>3 DEF IsDeck
      <4> QED
        BY <1>1, <2>1, <2>2, <4>1
    <3>4. CASE Stack!IsLast(d) /\ ~d.offline
      <4>1. e = [calmed EXCEPT !.pending = TRUE]
        BY <3>1, <3>4
      <4>2. e = [d EXCEPT !.index = d.index, !.pending = TRUE, !.failed = FALSE,
                          !.complexity = d.complexity]
        BY <4>1 DEF IsDeck
      <4>3. d.index = d.count - 1
        BY <3>4 DEF Stack!IsLast
      <4> QED
        BY <1>1, <2>2, <4>2, <4>3
    <3> QED
      BY <3>2, <3>3, <3>4
  <2>3. CASE dir = "right"
    <3>1. e = IF d.pending \/ d.index = 0 THEN [d EXCEPT !.pending = FALSE]
              ELSE [d EXCEPT !.index = @ - 1]
      BY <2>3 DEF Stack!Committed, Stack!OnSwipeRight
    <3> HIDE DEF e
    <3>2. CASE d.pending \/ d.index = 0
      <4>1. e = [d EXCEPT !.index = d.index, !.pending = FALSE, !.failed = d.failed,
                          !.complexity = d.complexity]
        BY <3>1, <3>2 DEF IsDeck
      <4> QED
        BY <1>1, <2>3, <4>1
    <3>3. CASE ~d.pending /\ d.index # 0
      <4>1. e = [d EXCEPT !.index = d.index - 1, !.pending = d.pending, !.failed = d.failed,
                          !.complexity = d.complexity]
        BY <3>1, <3>3 DEF IsDeck
      <4>2. d.index - 1 \in Nat /\ d.index - 1 < d.count
        BY <1>1, <3>3
      <4> QED
        BY <1>1, <2>3, <3>3, <4>1, <4>2
    <3> QED
      BY <3>2, <3>3
  <2>4. CASE dir \in {"up", "down"}
    <3> DEFINE next == Stack!clampComplexity(d.complexity + (IF dir = "up" THEN 1 ELSE -1))
               ahead == IF Stack!IsLast(d) THEN d.index ELSE d.index + 1
    <3>1. next \in 1..MaxComplexity
      BY <1>1, ClientAssumption DEF Stack!clampComplexity
    <3>2. ahead \in Nat /\ ahead < d.count /\ ahead \in {d.index, d.index + 1}
      BY <1>1 DEF Stack!IsLast
    <3>3. e = d \/ e = [d EXCEPT !.complexity = next, !.failed = FALSE, !.pending = FALSE,
                                !.index = IF Stack!IsLast(d) THEN @ ELSE @ + 1]
      BY <2>4 DEF Stack!Committed, Stack!OnSwipeForwardVertical
    <3>4. \/ e = [d EXCEPT !.index = d.index, !.pending = d.pending, !.failed = d.failed,
                           !.complexity = d.complexity]
          \/ e = [d EXCEPT !.index = ahead, !.pending = FALSE, !.failed = FALSE,
                           !.complexity = next]
      <4> HIDE DEF e, next
      <4> QED
        BY <3>3 DEF IsDeck
    <3> HIDE DEF e, next, ahead
    <3> QED
      BY <1>1, <2>1, <2>4, <3>1, <3>2, <3>4
  <2> QED
    BY <2>2, <2>3, <2>4 DEF Stack!Direction
<1> HIDE DEF e
<1>3. PICK i \in Nat, p \in BOOLEAN, f \in BOOLEAN, c \in 1..MaxComplexity :
        /\ i < d.count /\ (p => i = d.count - 1)
        /\ dir # "right" => i \in {d.index, d.index + 1}
        /\ dir = "right" => i \in {d.index, d.index - 1}
        /\ e = [d EXCEPT !.index = i, !.pending = p, !.failed = f, !.complexity = c]
  BY <1>2
<1>4. e = DeckOf(d.count, i, p, f, d.offline, d.swapping, c)
  BY <1>3 DEF IsDeck, DeckOf
<1>5. IsDeck(e) /\ e.count = d.count /\ e.index = i /\ e.pending = p
  BY <1>1, <1>3, <1>4, DeckIs
<1>6. e.pending => Stack!IsLast(e)
  BY <1>3, <1>5 DEF Stack!IsLast
<1> QED
  BY <1>3, <1>5, <1>6 DEF e

(* A motion ends.                                                          *)
LEMMA StackMotionEnds ==
    ASSUME StackInv, Stack!MotionEnds
    PROVE  StackInv'
<1>1. StackTypes /\ DeckFollows /\ MotionFollows /\ RestsLater /\ PinsFollow
  BY DEF StackInv
<1>2. /\ commit # None /\ commit' = None /\ stackDeck' = Stack!Committed(stackDeck, commit)
      /\ nav' \in {"forward", "backward", "backwardGesture"}
      /\ stayed' = (Stack!ViewOf(stackDeck').index = stackView.index
                    /\ Stack!ViewOf(stackDeck').status = stackView.status)
      /\ UNCHANGED <<stackView, card, pan, spring, locks, shownBehind, moving, reduceMotion,
                     enter, crossed>>
  BY DEF Stack!MotionEnds
<1>3. commit \in Stack!Direction /\ card.animating
  BY <1>1, <1>2 DEF StackTypes, MotionFollows
<1>4. /\ IsDeck(stackDeck') /\ stackDeck'.count = stackDeck.count
      /\ stackDeck'.pending => Stack!IsLast(stackDeck')
  BY <1>1, <1>2, <1>3, CommittedIs DEF StackTypes, DeckFollows
<1>5. StackTypes'
  <2>1. stayed' \in BOOLEAN
    BY <1>2
  <2> QED
    BY <1>1, <1>2, <1>4, <2>1 DEF StackTypes
<1>6. DeckFollows' /\ MotionFollows'
  BY <1>1, <1>2, <1>3, <1>4, StackConstants DEF DeckFollows, MotionFollows
<1>7. RestsLater'
  BY <1>1, <1>2, <1>3 DEF RestsLater, Moved
<1>8. PinsFollow'
  BY <1>1, <1>2, <1>3, StackConstants DEF PinsFollow
<1> QED
  BY <1>5, <1>6, <1>7, <1>8 DEF StackInv

(* A render.                                                               *)
LEMMA StackRenders ==
    ASSUME StackInv, Stack!Render
    PROVE  StackInv'
<1>1. StackTypes /\ DeckFollows /\ MotionFollows /\ RestsLater /\ PinsFollow
  BY DEF StackInv
<1>2. /\ stackView' = Stack!ViewOf(stackDeck)
      /\ UNCHANGED <<stackDeck, pan, reduceMotion, crossed, stayed>>
  BY DEF Stack!Render
<1>3. IsDeck(stackDeck)
  BY <1>1 DEF StackTypes
<1>4. /\ stackView' \in [count : 1..MaxCards, index : Nat, status : BOOLEAN, locked : BOOLEAN]
      /\ stackView'.index = stackDeck.index /\ stackView'.count = stackDeck.count
      /\ stackView'.index < stackView'.count
  BY <1>2, <1>3, ViewIs DEF IsDeck
<1>5. CASE stackView'.index # stackView.index \/ stackView'.status # stackView.status
  <2>1. /\ card' = [x |-> 0, y |-> 0, animating |-> FALSE, exiting |-> FALSE,
                    peer |-> 0, faded |-> FALSE, turned |-> FALSE]
        /\ commit' = None /\ spring' = FALSE /\ locks' = [behind |-> None, overlay |-> None]
        /\ moving' = FALSE /\ nav' = None
    BY <1>5 DEF Stack!Render, Stack!PutBack, Stack!AtRest, Stack!NoLocks
  <2>2. IsCard(card')
    BY <2>1 DEF IsCard
  <2>3. StackTypes'
    BY <1>1, <1>2, <1>3, <1>4, <2>1, <2>2 DEF StackTypes
  <2>4. DeckFollows'
    BY <1>1, <1>2, <1>3, <1>4 DEF DeckFollows, IsDeck
  <2>5. MotionFollows' /\ PinsFollow'
    BY <2>1, StackConstants DEF MotionFollows, PinsFollow
  <2>6. RestsLater'
    BY <2>1 DEF RestsLater
  <2> QED
    BY <2>3, <2>4, <2>5, <2>6 DEF StackInv
<1>6. CASE stackView'.index = stackView.index /\ stackView'.status = stackView.status
  <2>1. UNCHANGED <<card, commit, spring, locks, moving, enter, nav>>
    BY <1>6 DEF Stack!Render
  <2>2. StackTypes'
    BY <1>1, <1>2, <1>3, <1>4, <2>1 DEF StackTypes
  <2>3. DeckFollows'
    BY <1>1, <1>2, <1>3, <1>4 DEF DeckFollows, IsDeck
  <2>4. MotionFollows' /\ PinsFollow'
    BY <1>1, <1>2, <1>6, <2>1 DEF MotionFollows, PinsFollow
  <2>5. ~Moved
    BY <1>2, <1>6 DEF Moved
  <2>6. RestsLater'
    BY <1>1, <1>2, <2>1, <2>5 DEF RestsLater
  <2> QED
    BY <2>2, <2>3, <2>4, <2>6 DEF StackInv
<1> QED
  BY <1>5, <1>6

(* What the deck does by itself, on what was rendered of it.               *)
LEMMA StackDeckMoves ==
    ASSUME StackInv, Stack!DeckMoves
    PROVE  StackInv'
<1>1. StackTypes /\ DeckFollows /\ MotionFollows /\ RestsLater /\ PinsFollow
  BY DEF StackInv
<1>2. /\ stackView = Stack!ViewOf(stackDeck)
      /\ UNCHANGED <<stackView, card, commit, pan, spring, locks, shownBehind, moving,
                     reduceMotion, enter, nav, crossed, stayed>>
  BY DEF Stack!DeckMoves, Stack!Rendered
<1>3. IsDeck(stackDeck) /\ (stackDeck.pending => Stack!IsLast(stackDeck))
  BY <1>1 DEF StackTypes, DeckFollows
<1>4. /\ stackView.index = stackDeck.index /\ stackView.locked = stackDeck.swapping
      /\ stackView.status = (Stack!IsLast(stackDeck) /\ stackDeck.pending /\ ~stackDeck.failed)
  BY <1>2, <1>3, ViewIs
<1> DEFINE Fine(d) == /\ IsDeck(d) /\ (d.pending => Stack!IsLast(d))
                      /\ stackDeck.index < d.count
                      /\ d.index # stackDeck.index =>
                           stackView.status
                           \/ (stackView.locked /\ pan = None /\ commit = None)
<1>5. Fine(stackDeck')
  <2>1. ASSUME NEW n \in 1..MaxCards, Stack!Appended(n) PROVE Fine(stackDeck')
    <3>1. /\ ~stackDeck.failed /\ n > stackDeck.count
          /\ stackDeck' = [stackDeck EXCEPT !.count = n, !.pending = FALSE,
                !.index = IF stackDeck.pending THEN stackDeck.count ELSE stackDeck.index]
      BY <1>3, <2>1 DEF Stack!Appended, IsDeck
    <3>2. /\ IsDeck(stackDeck') /\ ~stackDeck'.pending /\ stackDeck'.count = n
          /\ ~stackDeck.pending => stackDeck'.index = stackDeck.index
      <4>1. stackDeck.count \in Nat /\ stackDeck.count < n /\ stackDeck.index \in Nat
            /\ stackDeck.index < n
        BY <1>3, <3>1 DEF IsDeck
      <4> DEFINE i == IF stackDeck.pending THEN stackDeck.count ELSE stackDeck.index
      <4>2. i \in Nat /\ i < n /\ (~stackDeck.pending => i = stackDeck.index)
        BY <4>1
      <4>3. stackDeck' = [stackDeck EXCEPT !.count = n, !.pending = FALSE, !.index = i]
        BY <3>1
      <4> HIDE DEF i
      <4> DEFINE on == stackDeck.swapping
      <4>4. stackDeck' = Recounted(stackDeck, n, i, stackDeck.swapping)
        BY <1>3, <4>3 DEF IsDeck, DeckOf, Recounted
      <4>5. on \in BOOLEAN
        BY <1>3 DEF IsDeck
      <4>6. stackDeck' = Recounted(stackDeck, n, i, on)
        BY <4>4
      <4> HIDE DEF on
      <4> QED
        BY <1>3, <4>2, <4>5, <4>6, DeckRecounted
    <3>3. stackDeck.pending => stackView.status
      BY <1>3, <1>4, <3>1
    <3>4. stackDeck.index < n
      BY <1>3, <3>1 DEF IsDeck
    <3> QED
      BY <3>2, <3>3, <3>4
  <2>2. ASSUME NEW n \in 1..MaxCards, Stack!AheadExchanged(n) PROVE Fine(stackDeck')
    <3>1. n >= stackDeck.index + 2 /\ stackDeck' = [stackDeck EXCEPT !.count = n, !.pending = FALSE]
      BY <1>3, <2>2 DEF Stack!AheadExchanged, IsDeck
    <3>2. stackDeck.index \in Nat /\ stackDeck.index < n
      BY <1>3, <3>1 DEF IsDeck
    <3>3. stackDeck' = Recounted(stackDeck, n, stackDeck.index, stackDeck.swapping)
      BY <1>3, <3>1 DEF IsDeck, DeckOf, Recounted
    <3>4. /\ IsDeck(stackDeck') /\ ~stackDeck'.pending /\ stackDeck'.count = n
          /\ stackDeck'.index = stackDeck.index
      <4> DEFINE on == stackDeck.swapping
      <4>1. on \in BOOLEAN
        BY <1>3 DEF IsDeck
      <4>2. stackDeck' = Recounted(stackDeck, n, stackDeck.index, on)
        BY <3>3
      <4> HIDE DEF on
      <4> QED
        BY <1>3, <3>2, <4>1, <4>2, DeckRecounted
    <3> QED
      BY <3>2, <3>4
  <2>3. ASSUME NEW n \in 1..MaxCards, NEW dealt0 \in BOOLEAN, Stack!ReshuffleEnds(dealt0, n)
        PROVE  Fine(stackDeck')
    <3>1. /\ stackDeck.swapping /\ commit = None /\ pan = None
          /\ n > stackDeck.index /\ (dealt0 => n > stackDeck.index + 1)
          /\ stackDeck' = [stackDeck EXCEPT !.swapping = FALSE, !.pending = FALSE,
                !.index = IF dealt0 THEN stackDeck.index + 1 ELSE stackDeck.index, !.count = n]
      BY <1>3, <2>3 DEF Stack!ReshuffleEnds, IsDeck
    <3> DEFINE i == IF dealt0 THEN stackDeck.index + 1 ELSE stackDeck.index
    <3>2. i \in Nat /\ i < n /\ stackDeck.index < n
      BY <1>3, <3>1 DEF IsDeck
    <3>3. stackDeck' = [stackDeck EXCEPT !.swapping = FALSE, !.pending = FALSE, !.index = i,
                                         !.count = n]
      BY <3>1
    <3> DEFINE on == FALSE
    <3>6. on \in BOOLEAN
      OBVIOUS
    <3> HIDE DEF i
    <3>5. stackDeck' = Recounted(stackDeck, n, i, on)
      BY <1>3, <3>3 DEF IsDeck, DeckOf, Recounted
    <3> HIDE DEF on
    <3>4. IsDeck(stackDeck') /\ ~stackDeck'.pending /\ stackDeck'.count = n
      BY <1>3, <3>2, <3>5, <3>6, DeckRecounted
    <3> QED
      BY <1>4, <3>1, <3>2, <3>4
  <2>4. ASSUME Stack!LoadFails \/ Stack!NoNextIdea \/ Stack!StatusPressed
               \/ Stack!ConnectionChanges \/ Stack!ReshuffleBegins
        PROVE  Fine(stackDeck')
    <3>1. /\ IsDeck(stackDeck') /\ stackDeck'.count = stackDeck.count
          /\ stackDeck'.index = stackDeck.index
          /\ stackDeck'.pending => stackDeck.pending
      BY <1>3, <2>4 DEF IsDeck, Stack!LoadFails, Stack!NoNextIdea, Stack!StatusPressed,
         Stack!ConnectionChanges, Stack!ReshuffleBegins
    <3> QED
      BY <1>3, <3>1 DEF IsDeck, Stack!IsLast
  <2> QED
    BY <2>1, <2>2, <2>3, <2>4 DEF Stack!DeckMoves
<1>6. StackTypes'
  BY <1>1, <1>2, <1>5 DEF StackTypes
<1>7. DeckFollows'
  BY <1>2, <1>4, <1>5 DEF DeckFollows
<1>8. MotionFollows'
  BY <1>1, <1>2, <1>4, <1>5 DEF MotionFollows
<1>9. ~Moved
  BY <1>2 DEF Moved
<1>10. RestsLater'
  BY <1>1, <1>2, <1>9 DEF RestsLater
<1>11. PinsFollow'
  BY <1>1, <1>2 DEF PinsFollow
<1> QED
  BY <1>6, <1>7, <1>8, <1>10, <1>11 DEF StackInv

(* Every step keeps the invariant of the stack.                            *)
LEMMA StackStep == StackInv /\ [ClientNext]_clientVars => StackInv'
<1> SUFFICES ASSUME StackInv, Stack!Next \/ UNCHANGED stackVars PROVE StackInv'
  BY StackSteps
<1> QED
  BY StackPanStarts, StackPanMoves, StackPanEnds, StackActs, StackSprings, StackMotionEnds,
     StackRenders, StackDeckMoves DEF Stack!Next, Stack!Fingers

-----------------------------------------------------------------------------
(* What is stated of the stack follows.                                    *)

(* The card at rest on either face.                                        *)
LEMMA RestsTurned ==
    ASSUME NEW b \in BOOLEAN
    PROVE  [Stack!AtRest EXCEPT !.turned = b] =
            [x |-> 0, y |-> 0, animating |-> FALSE, exiting |-> FALSE, peer |-> 0,
             faded |-> FALSE, turned |-> b]
<1>1. IsCard(Stack!AtRest)
  BY DEF IsCard, Stack!AtRest
<1>2. [Stack!AtRest EXCEPT !.turned = b] =
        [x |-> Stack!AtRest.x, y |-> Stack!AtRest.y, animating |-> Stack!AtRest.animating,
         exiting |-> Stack!AtRest.exiting, peer |-> Stack!AtRest.peer,
         faded |-> Stack!AtRest.faded, turned |-> b]
  BY <1>1 DEF IsCard
<1>3. Stack!AtRest.x = 0 /\ Stack!AtRest.y = 0 /\ Stack!AtRest.peer = 0
  BY DEF Stack!AtRest
<1>4. Stack!AtRest.animating = FALSE /\ Stack!AtRest.exiting = FALSE /\ Stack!AtRest.faded = FALSE
  BY DEF Stack!AtRest
<1> QED
  BY <1>2, <1>3, <1>4

(* It comes to rest.                                                       *)
LEMMA StackRests == StackInv => Stack!TypeOK /\ Stack!ComesToRest
<1> SUFFICES ASSUME StackInv PROVE Stack!TypeOK /\ Stack!ComesToRest
  OBVIOUS
<1>1. StackTypes /\ DeckFollows /\ MotionFollows /\ RestsLater /\ PinsFollow
  BY DEF StackInv
<1>2. Stack!TypeOK
  <2>1. /\ stackDeck.count \in 1..MaxCards /\ stackDeck.index \in 0..(stackDeck.count - 1)
        /\ stackDeck.complexity \in 1..MaxComplexity
        /\ stackView.index \in 0..(stackView.count - 1)
    BY <1>1, StackConstants DEF StackTypes, IsDeck
  <2>2. {card.x, card.y, card.peer} \subseteq -1..1
    BY <1>1 DEF StackTypes, IsCard
  <2>3. locks.overlay # None => locks.overlay < stackDeck.count
    BY <1>1, StackConstants DEF StackTypes, IsDeck, DeckFollows, PinsFollow
  <2> QED
    BY <1>1, <2>1, <2>2, <2>3 DEF StackTypes, Stack!TypeOK
<1>3. ASSUME Stack!Quiet, ~stayed PROVE Stack!Rests
  <2>1. stackView = Stack!ViewOf(stackDeck) /\ commit = None /\ pan = None /\ ~spring
    BY <1>3 DEF Stack!Quiet, Stack!Rendered
  <2>2. ~card.animating
    BY <1>1, <1>3, <2>1 DEF RestsLater, Moved
  <2>3. /\ card.x = 0 /\ card.y = 0 /\ ~card.exiting /\ card.peer = 0 /\ ~card.faded
        /\ locks.behind = None /\ locks.overlay = None /\ ~moving
    BY <1>1, <2>1, <2>2 DEF RestsLater
  <2>4. card = [Stack!AtRest EXCEPT !.turned = card.turned]
    <3>1. card = [x |-> card.x, y |-> card.y, animating |-> card.animating,
                  exiting |-> card.exiting, peer |-> card.peer, faded |-> card.faded,
                  turned |-> card.turned]
          /\ card.animating \in BOOLEAN /\ card.exiting \in BOOLEAN /\ card.faded \in BOOLEAN
      BY <1>1 DEF StackTypes, IsCard
    <3>2. card = [x |-> 0, y |-> 0, animating |-> FALSE, exiting |-> FALSE, peer |-> 0,
                  faded |-> FALSE, turned |-> card.turned]
      <4>1. card.animating = FALSE /\ card.exiting = FALSE /\ card.faded = FALSE
        BY <2>2, <2>3, <3>1
      <4> QED
        BY <2>3, <3>1, <4>1
    <3>3. card.turned \in BOOLEAN
      BY <1>1 DEF StackTypes, IsCard
    <3> QED
      BY <3>2, <3>3, RestsTurned
  <2>5. locks = Stack!NoLocks
    BY <1>1, <2>3 DEF Stack!NoLocks, StackTypes
  <2> QED
    BY <2>3, <2>4, <2>5 DEF Stack!Rests
<1> QED
  BY <1>2, <1>3 DEF Stack!ComesToRest

(* Only the end of a motion changes the deck and has no motion after it.   *)
LEMMA OnlyMotionsCommit ==
    ASSUME StackInv, [ClientNext]_clientVars, commit # None, stackDeck' # stackDeck,
           commit' = None
    PROVE  Stack!MotionEnds
<1>1. Stack!Next \/ UNCHANGED stackVars
  BY StackSteps
<1>2. ~Stack!Fingers
  BY DEF Stack!Fingers, Stack!PanStarts, Stack!PanXMoves, Stack!PanYMoves, Stack!PanEnds
<1>3. /\ \A dir \in Stack!Direction : ~Stack!RunAction(dir)
      /\ ~Stack!Flip /\ ~Stack!SpringEnds /\ ~Stack!Render
  BY DEF Stack!RunAction, Stack!Flip, Stack!SpringEnds, Stack!Render
<1>4. ~Stack!DeckMoves /\ ~UNCHANGED stackVars
  BY DEF Stack!DeckMoves, stackVars
<1> QED
  BY <1>1, <1>2, <1>3, <1>4 DEF Stack!Next

(* A commit forward is made from the card the motion began on.             *)
LEMMA CommitsThere ==
    ASSUME StackInv, commit # None, commit # "right"
    PROVE  stackDeck.index = stackView.index
<1>1. commit \in Forward
  BY DEF StackInv, StackTypes, Stack!Direction, Forward
<1> QED
  BY <1>1 DEF StackInv, MotionFollows

(* The card that a motion uncovers is the one it ends on.                  *)
LEMMA UncoversIt ==
    ASSUME StackInv, Stack!MotionEnds, stackDeck'.index # stackView.index, ~crossed
    PROVE  {Stack!Underlay, Stack!Overlay} \subseteq {None, stackDeck'.index}
<1>1. StackTypes /\ DeckFollows /\ MotionFollows /\ RestsLater /\ PinsFollow
  BY DEF StackInv
<1>2. /\ commit # None /\ shownBehind = locks.behind
      /\ stackDeck' = Stack!Committed(stackDeck, commit)
  BY DEF Stack!MotionEnds
<1>3. commit \in Stack!Direction
  BY <1>1, <1>2 DEF StackTypes
<1>4. /\ commit # "right" => stackDeck'.index \in {stackDeck.index, stackDeck.index + 1}
      /\ commit = "right" => stackDeck'.index \in {stackDeck.index, stackDeck.index - 1}
  BY <1>1, <1>2, <1>3, CommittedIs DEF StackTypes, DeckFollows
<1>5. IsCard(card) /\ stackView.index \in Nat
  BY <1>1 DEF StackTypes
<1>6. CASE stackView.status
  BY <1>6 DEF Stack!Underlay, Stack!Overlay
<1>7. CASE ~stackView.status /\ commit # "right"
  <2>1. commit \in Forward
    BY <1>3, <1>7 DEF Stack!Direction, Forward
  <2>2. /\ stackDeck'.index = stackView.index + 1
        /\ locks.behind \in {None, stackView.index + 1}
        /\ card.x <= 0 /\ card.peer <= 0
    BY <1>1, <1>2, <1>4, <1>7, <2>1 DEF MotionFollows, PinsFollow
  <2>3. Stack!BehindIndex = stackView.index + 1
    BY <1>2, <2>2, StackConstants DEF Stack!BehindIndex
  <2>4. Stack!Underlay \in {None, stackView.index + 1}
    BY <2>3 DEF Stack!Underlay
  <2>5. Stack!Overlay = None
    BY <1>5, <2>2 DEF Stack!Overlay, IsCard
  <2> QED
    BY <2>2, <2>4, <2>5
<1>8. CASE ~stackView.status /\ commit = "right"
  <2>1. /\ stackDeck'.index = stackView.index - 1
        /\ card.peer >= 0 /\ card.x >= 0 /\ (card.x = 0 => card.y = 0)
        /\ locks.overlay # None => locks.overlay = stackView.index - 1
    BY <1>1, <1>2, <1>4, <1>8 DEF MotionFollows, PinsFollow
  <2>2. Stack!Overlay \in {None, stackView.index - 1}
    BY <2>1 DEF Stack!Overlay
  <2>3. ASSUME Stack!Underlay # None PROVE Stack!Underlay = stackView.index - 1
    <3>1. /\ Stack!Underlay = Stack!BehindIndex /\ Stack!SideMatches
          /\ card.x < 0 \/ (card.x = 0 /\ card.y # 0) \/ card.peer < 0
             \/ Stack!RevealsPrevious
      BY <2>3 DEF Stack!Underlay
    <3>2. Stack!RevealsPrevious
      BY <1>5, <2>1, <3>1 DEF IsCard
    <3> QED
      BY <3>1, <3>2 DEF Stack!SideMatches
  <2> QED
    BY <2>1, <2>2, <2>3
<1> QED
  BY <1>6, <1>7, <1>8

(* A motion of the stack ends on the card that it uncovered and commits    *)
(* from the one it began on, and the stack comes to rest, for every number *)
(* of cards and of grades (ConceptCardStack with cardSwipe.ts).            *)
THEOREM StackCorrect == ClientSpec => StackIsSound
<1> DEFINE Uncovers == commit # None /\ stackDeck' # stackDeck /\ commit' = None
                         /\ stackDeck'.index # stackView.index /\ ~crossed
                       => {Stack!Underlay, Stack!Overlay} \subseteq {None, stackDeck'.index}
           Commits == commit # None /\ commit # "right" /\ commit' = None
                        /\ stackDeck' # stackDeck => stackDeck.index = stackView.index
<1>1. StackInv => Stack!TypeOK /\ Stack!ComesToRest
  BY StackRests
<1>2. StackInv /\ [ClientNext]_clientVars => [Uncovers]_(Stack!vars) /\ [Commits]_(Stack!vars)
  BY OnlyMotionsCommit, UncoversIt, CommitsThere
<1> QED
  BY <1>1, <1>2, StackStarts, StackStep, PTL
     DEF ClientSpec, StackIsSound, Stack!UncoversWhatComes, Stack!CommitsOnItsCard

-----------------------------------------------------------------------------
(* The picture on the back of a card.                                      *)

(* The inductive invariant of the picture on a card's back: the Image is   *)
(* there only with the layer, what is measured is decoded, and what is     *)
(* loaded on a device is.                                                  *)
MediaTypes ==
    /\ onWeb \in BOOLEAN /\ item \in Picture \cup {NoPicture}
    /\ decoded \in BOOLEAN /\ mediaError \in BOOLEAN /\ measured \in BOOLEAN
    /\ faceH \in FaceHeight \cup {0} /\ textH \in TextHeight \cup {0}
    /\ image \in {"none", "loading", "loaded"}
MediaFollows ==
    /\ image # "none" => Media!showMediaLayer
    /\ measured => decoded
    /\ image = "loaded" /\ ~onWeb => decoded
MediaInv == MediaTypes /\ MediaFollows

(* One step of the picture is a step of its module.                        *)
LEMMA MediaSteps ==
    [ClientNext]_clientVars =>
        onWeb' = onWeb /\ (Media!Next \/ UNCHANGED <<onWeb, mediaVars>>)
  BY DEF ClientNext, OthersRest, Keeps, clientVars

(* The larger of two numbers, where the band and the fade take it.         *)
LEMMA MediaMax ==
    ASSUME NEW a \in Int, NEW b \in Int
    PROVE  Media!Max({a, b}) = IF a >= b THEN a ELSE b
<1> DEFINE m == IF a >= b THEN a ELSE b
<1>1. m \in {a, b} /\ \A z \in {a, b} : m >= z
  OBVIOUS
<1>2. \A z \in {a, b} : (\A u \in {a, b} : z >= u) => z = m
  OBVIOUS
<1> HIDE DEF m
<1>3. Media!Max({a, b}) = m
  BY <1>1, <1>2 DEF Media!Max
<1> QED
  BY <1>3 DEF m

(* The least of the three widths that a picture may be given.              *)
LEMMA MediaMin ==
    ASSUME NEW a \in Nat \ {0}, NEW b \in Nat \ {0}, NEW c \in Nat \ {0}
    PROVE  Media!Min({a, b, c}) \in Nat \ {0} /\ Media!Min({a, b, c}) <= a
<1>1. PICK m \in {a, b, c} : \A z \in {a, b, c} : m <= z
  OBVIOUS
<1>2. \A z \in {a, b, c} : (\A u \in {a, b, c} : z <= u) => z = m
  BY <1>1
<1>3. Media!Min({a, b, c}) = m
  BY <1>1, <1>2 DEF Media!Min
<1> QED
  BY <1>1, <1>3

(* The band of the picture leaves the copy a line and the inset.           *)
LEMMA BandIs ==
    ASSUME NEW h \in FaceHeight \cup {0}, NEW t \in TextHeight \cup {0}
    PROVE  /\ Media!bandHeight(h, t) \in Nat
           /\ Media!bandHeight(h, t) > 0 =>
                /\ h \in FaceHeight /\ Media!minBand(h) \in Nat
                /\ h - Media!minBand(h) >= 27 + facePad
                /\ Media!bandHeight(h, t) >= Media!minBand(h)
                /\ h - Media!bandHeight(h, t) >= 27 + facePad
<1> DEFINE least == Media!minBand(h)
           rest == h - (t + facePad)
<1>1. h \in Nat /\ t \in Nat /\ facePad \in Nat /\ (t = 0 \/ t >= 27) /\ 0 \notin FaceHeight
  BY ClientAssumption
<1>2. least \in Nat /\ least <= h
  BY <1>1 DEF Media!minBand
<1>3. rest \in Int
  BY <1>1
<1> HIDE DEF least, rest
<1>4. Media!Max({least, rest}) = IF least >= rest THEN least ELSE rest
  BY <1>2, <1>3, MediaMax
<1>5. Media!bandHeight(h, t) =
        IF h = 0 \/ h - least < 27 + facePad THEN 0
        ELSE IF t = 0 THEN least ELSE IF least >= rest THEN least ELSE rest
  BY <1>4 DEF Media!bandHeight, Media!CARD_BACK_MEDIA_MIN_READING_STRIP, least, rest
<1>6. CASE h = 0 \/ h - least < 27 + facePad
  BY <1>5, <1>6
<1>7. CASE ~(h = 0 \/ h - least < 27 + facePad)
  <2>1. h \in FaceHeight /\ h - least >= 27 + facePad
    BY <1>1, <1>2, <1>7
  <2>2. Media!bandHeight(h, t) \in Nat /\ Media!bandHeight(h, t) >= least
    BY <1>2, <1>3, <1>5, <1>7
  <2>3. t # 0 => h - rest >= 27 + facePad
    BY <1>1 DEF rest
  <2>4. h - Media!bandHeight(h, t) >= 27 + facePad
    BY <1>1, <1>2, <1>3, <1>5, <1>7, <2>1, <2>3
  <2> QED
    BY <1>2, <2>1, <2>2, <2>4 DEF least
<1> QED
  BY <1>6, <1>7

(* Init: no picture.                                                       *)
LEMMA MediaStarts == ClientInit => MediaInv
<1> SUFFICES ASSUME ClientInit PROVE MediaInv
  OBVIOUS
<1>1. /\ onWeb \in BOOLEAN /\ item = NoPicture /\ decoded = TRUE /\ mediaError = FALSE
      /\ measured = FALSE /\ faceH = 0 /\ textH = 0 /\ image = "none"
  BY DEF ClientInit, Media!Init
<1> QED
  BY <1>1 DEF MediaInv, MediaTypes, MediaFollows

(* What the Image becomes.                                                 *)
LEMMA ImageIs ==
    ASSUME MediaTypes, NEW same \in BOOLEAN, Media!ImageFollows(same)
    PROVE  /\ image' \in {"none", "loading", "loaded"}
           /\ image' # "none" => Media!showMediaLayer'
           /\ image' = "loaded" => same /\ image = "loaded"
<1>1. image' = IF ~Media!showMediaLayer' THEN "none"
               ELSE IF image = "none" \/ ~same THEN "loading" ELSE image
  BY DEF Media!ImageFollows, Media!showMediaLayer
<1> QED
  BY <1>1 DEF MediaTypes

(* A picture that starts over: on a device, what is prefetched is decoded. *)
LEMMA ResetIs ==
    ASSUME MediaTypes, NEW p, NEW urls, Media!Reset(p, urls)
    PROVE  /\ decoded' \in BOOLEAN /\ mediaError' = FALSE /\ measured' = FALSE /\ textH' = 0
           /\ decoded' <=> p = NoPicture \/ (~onWeb /\ Media!isPrefetched(p, urls))
  BY DEF MediaTypes, Media!Reset

(* What a picture that was shown may go away for.                          *)
GoesAway ==
    \/ item' # item \/ mediaError' \/ Media!bandHeight(faceH', textH') = 0
    \/ onWeb /\ preloaded' # preloaded

(* Shown where it has room, unless it failed.                              *)
LEMMA ShownAgain ==
    ASSUME MediaTypes', item' # NoPicture, decoded', ~mediaError',
           Media!bandHeight(faceH', textH') # 0
    PROVE  Media!showVisibleMediaImage'
<1> DEFINE h == faceH'
           t == textH'
<1>1. h \in FaceHeight \cup {0} /\ t \in TextHeight \cup {0}
  BY DEF MediaTypes
<1> HIDE DEF h, t
<1>2. Media!bandHeight(h, t) \in Nat
  BY <1>1, BandIs
<1>3. Media!bandHeight(faceH', textH') > 0
  BY <1>2 DEF h, t
<1>4. Media!phase(item', decoded', mediaError') = "ready"
  BY DEF Media!phase
<1>5. Media!layer(item', decoded', mediaError', faceH', textH')
  BY <1>3, <1>4 DEF Media!layer
<1> QED
  BY <1>5 DEF Media!showVisibleMediaImage, Media!showMediaLayer

(* A picture that is shown is one, decoded and not failed.                 *)
LEMMA ShownIs ==
    ASSUME Media!showVisibleMediaImage
    PROVE  item # NoPicture /\ decoded /\ ~mediaError
  BY DEF Media!showVisibleMediaImage, Media!showMediaLayer, Media!layer, Media!phase

(* What every step of the picture comes to.                                *)
MediaGoesOn ==
    /\ MediaInv'
    /\ Media!showVisibleMediaImage /\ ~Media!showVisibleMediaImage' => GoesAway

(* Another card is shown.                                                  *)
LEMMA MediaShowsCard ==
    ASSUME MediaInv, NEW p \in Picture \cup {NoPicture}, Media!ShowCard(p)
    PROVE  MediaGoesOn
<1>1. MediaTypes /\ MediaFollows
  BY DEF MediaInv
<1>2. /\ p # item /\ item' = p /\ Media!Reset(p, preloaded)
      /\ UNCHANGED <<onWeb, faceH>> /\ Media!ImageFollows(FALSE)
  BY DEF Media!ShowCard
<1>3. /\ image' \in {"none", "loading", "loaded"} /\ image' # "loaded"
      /\ image' # "none" => Media!showMediaLayer'
  BY <1>1, <1>2, ImageIs
<1>4. decoded' \in BOOLEAN /\ mediaError' = FALSE /\ measured' = FALSE /\ textH' = 0
  BY <1>1, <1>2, ResetIs
<1>5. MediaTypes'
  BY <1>1, <1>2, <1>3, <1>4 DEF MediaTypes
<1>6. MediaFollows'
  BY <1>3, <1>4 DEF MediaFollows
<1> QED
  BY <1>2, <1>5, <1>6 DEF MediaGoesOn, MediaInv, GoesAway

(* A prefetch answers.                                                     *)
LEMMA MediaPrefetched ==
    ASSUME MediaInv, NEW which, NEW urls, Media!Prefetched(which, urls)
    PROVE  MediaGoesOn
<1>1. MediaTypes /\ MediaFollows
  BY DEF MediaInv
<1>2. /\ preloaded' = preloaded \cup urls
      /\ UNCHANGED <<onWeb, item, faceH>> /\ Media!ImageFollows(TRUE)
      /\ IF Media!isPrefetched(item, preloaded') # Media!isPrefetched(item, preloaded)
         THEN Media!Reset(item, preloaded')
         ELSE UNCHANGED <<decoded, mediaError, measured, textH>>
  BY DEF Media!Prefetched
<1>3. /\ image' \in {"none", "loading", "loaded"}
      /\ image' # "none" => Media!showMediaLayer'
      /\ image' = "loaded" => image = "loaded"
  BY <1>1, <1>2, ImageIs
<1>4. CASE Media!isPrefetched(item, preloaded') # Media!isPrefetched(item, preloaded)
  <2>1. item # NoPicture /\ preloaded' # preloaded /\ Media!isPrefetched(item, preloaded')
    BY <1>2, <1>4 DEF Media!isPrefetched
  <2>2. /\ decoded' \in BOOLEAN /\ mediaError' = FALSE /\ measured' = FALSE /\ textH' = 0
        /\ decoded' <=> item = NoPicture \/ (~onWeb /\ Media!isPrefetched(item, preloaded'))
    BY <1>1, <1>2, <1>4, ResetIs
  <2>3. MediaTypes'
    BY <1>1, <1>2, <1>3, <2>2 DEF MediaTypes
  <2>4. MediaFollows'
    BY <1>2, <1>3, <2>1, <2>2 DEF MediaFollows
  <2>5. GoesAway \/ Media!showVisibleMediaImage'
    <3>1. CASE onWeb
      BY <2>1, <3>1 DEF GoesAway
    <3>2. CASE ~onWeb
      <4>1. item' # NoPicture /\ decoded' /\ ~mediaError'
        BY <1>2, <2>1, <2>2, <3>2
      <4> QED
        BY <2>3, <4>1, ShownAgain DEF GoesAway
    <3> QED
      BY <3>1, <3>2
  <2> QED
    BY <2>3, <2>4, <2>5 DEF MediaGoesOn, MediaInv
<1>5. CASE ~(Media!isPrefetched(item, preloaded') # Media!isPrefetched(item, preloaded))
  <2>1. UNCHANGED <<decoded, mediaError, measured, textH>>
    BY <1>2, <1>5
  <2>2. MediaTypes'
    BY <1>1, <1>2, <1>3, <2>1 DEF MediaTypes
  <2>3. MediaFollows'
    BY <1>1, <1>2, <1>3, <2>1 DEF MediaFollows
  <2>4. Media!showVisibleMediaImage' <=> Media!showVisibleMediaImage
    BY <1>2, <2>1 DEF Media!showVisibleMediaImage, Media!showMediaLayer
  <2> QED
    BY <2>2, <2>3, <2>4 DEF MediaGoesOn, MediaInv
<1> QED
  BY <1>4, <1>5

(* The Image, the fetch or the timeout of the decoding answers.            *)
LEMMA MediaAnswers ==
    ASSUME MediaInv,
           Media!onMediaLoad \/ Media!onMediaError \/ \E ok \in BOOLEAN : Media!Answers(ok)
    PROVE  MediaGoesOn
<1>1. MediaTypes /\ MediaFollows
  BY DEF MediaInv
<1>2. ASSUME Media!onMediaLoad PROVE MediaGoesOn
  <2>1. /\ image = "loading" /\ decoded' = TRUE /\ mediaError' = FALSE /\ measured' = TRUE
        /\ UNCHANGED <<onWeb, item, faceH, textH>> /\ image' = "loaded"
    BY <1>2 DEF Media!onMediaLoad, Media!MediaChanges
  <2>2. Media!phase(item, decoded, mediaError) \in {"loading", "ready"}
        /\ Media!bandHeight(faceH, textH) > 0
    BY <1>1, <2>1 DEF MediaFollows, Media!showMediaLayer, Media!layer
  <2>3. item # NoPicture
    BY <2>2 DEF Media!phase
  <2>4. MediaTypes'
    BY <1>1, <2>1 DEF MediaTypes
  <2>5. Media!bandHeight(faceH', textH') # 0
    <3>1. Media!bandHeight(faceH', textH') = Media!bandHeight(faceH, textH)
      BY <2>1
    <3> QED
      BY <2>2, <3>1
  <2>6. Media!showVisibleMediaImage'
    BY <2>1, <2>3, <2>4, <2>5, ShownAgain
  <2>7. MediaFollows'
    BY <2>1, <2>6 DEF MediaFollows, Media!showVisibleMediaImage
  <2> QED
    BY <2>4, <2>6, <2>7 DEF MediaGoesOn, MediaInv
<1>3. ASSUME Media!onMediaError PROVE MediaGoesOn
  <2>1. /\ decoded' = decoded /\ mediaError' = TRUE /\ measured' = measured
        /\ UNCHANGED <<onWeb, item, faceH, textH>> /\ image' = "none"
    BY <1>3 DEF Media!onMediaError, Media!MediaChanges
  <2>2. MediaTypes' /\ MediaFollows'
    BY <1>1, <2>1 DEF MediaTypes, MediaFollows
  <2> QED
    BY <2>1, <2>2 DEF MediaGoesOn, MediaInv, GoesAway
<1>4. ASSUME NEW ok \in BOOLEAN, Media!Answers(ok) PROVE MediaGoesOn
  <2>1. /\ Media!phase(item, decoded, mediaError) = "loading"
        /\ decoded' = ok /\ mediaError' = ~ok /\ measured' = measured
        /\ UNCHANGED <<onWeb, item, faceH, textH>> /\ Media!ImageFollows(TRUE)
    BY <1>4 DEF Media!Answers, Media!MediaChanges
  <2>2. ~decoded
    BY <2>1 DEF Media!phase
  <2>3. /\ image' \in {"none", "loading", "loaded"}
        /\ image' # "none" => Media!showMediaLayer'
        /\ image' = "loaded" => image = "loaded"
    BY <1>1, <2>1, ImageIs
  <2>4. MediaTypes'
    BY <1>1, <2>1, <2>3 DEF MediaTypes
  <2>5. MediaFollows'
    BY <1>1, <2>1, <2>2, <2>3 DEF MediaFollows
  <2>6. ~Media!showVisibleMediaImage
    BY <2>2, ShownIs
  <2> QED
    BY <2>4, <2>5, <2>6 DEF MediaGoesOn, MediaInv
<1> QED
  BY <1>2, <1>3, <1>4

(* The face or its copy is laid out.                                       *)
LEMMA MediaLaidOut ==
    ASSUME MediaInv,
           \/ \E h \in FaceHeight : Media!FaceMeasured(h)
           \/ \E text0 \in TextHeight : Media!CopyLaidOut(text0)
    PROVE  MediaGoesOn
<1>1. MediaTypes /\ MediaFollows
  BY DEF MediaInv
<1>2. /\ UNCHANGED <<onWeb, item, decoded, mediaError, measured>> /\ Media!ImageFollows(TRUE)
      /\ faceH' \in FaceHeight \cup {0} /\ textH' \in TextHeight \cup {0}
  <2>1. ASSUME NEW h \in FaceHeight, Media!FaceMeasured(h)
        PROVE  /\ UNCHANGED <<onWeb, item, decoded, mediaError, measured>>
               /\ Media!ImageFollows(TRUE)
               /\ faceH' \in FaceHeight \cup {0} /\ textH' \in TextHeight \cup {0}
    BY <1>1, <2>1 DEF Media!FaceMeasured, MediaTypes
  <2>2. ASSUME NEW t \in TextHeight, Media!CopyLaidOut(t)
        PROVE  /\ UNCHANGED <<onWeb, item, decoded, mediaError, measured>>
               /\ Media!ImageFollows(TRUE)
               /\ faceH' \in FaceHeight \cup {0} /\ textH' \in TextHeight \cup {0}
    BY <1>1, <2>2 DEF Media!CopyLaidOut, MediaTypes
  <2> QED
    BY <2>1, <2>2
<1>3. /\ image' \in {"none", "loading", "loaded"}
      /\ image' # "none" => Media!showMediaLayer'
      /\ image' = "loaded" => image = "loaded"
  BY <1>1, <1>2, ImageIs
<1>4. MediaTypes' /\ MediaFollows'
  BY <1>1, <1>2, <1>3 DEF MediaTypes, MediaFollows
<1>5. ASSUME Media!showVisibleMediaImage, ~Media!showVisibleMediaImage' PROVE GoesAway
  <2>1. item' # NoPicture /\ decoded' /\ ~mediaError'
    BY <1>2, <1>5, ShownIs
  <2> QED
    BY <1>4, <1>5, <2>1, ShownAgain DEF GoesAway
<1> QED
  BY <1>4, <1>5 DEF MediaGoesOn, MediaInv

(* Every step keeps the invariant, and a picture that was shown.           *)
LEMMA MediaStep == MediaInv /\ [ClientNext]_clientVars => onWeb' = onWeb /\ MediaGoesOn
<1> SUFFICES ASSUME MediaInv, [ClientNext]_clientVars PROVE onWeb' = onWeb /\ MediaGoesOn
  OBVIOUS
<1>1. onWeb' = onWeb /\ (Media!Next \/ UNCHANGED <<onWeb, mediaVars>>)
  BY MediaSteps
<1>2. CASE Media!DeckGrows \/ UNCHANGED <<onWeb, mediaVars>>
  <2>1. UNCHANGED <<onWeb, item, decoded, mediaError, measured, faceH, textH, image>>
    BY <1>2 DEF Media!DeckGrows, mediaVars
  <2>2. MediaTypes' /\ Media!showMediaLayer' = Media!showMediaLayer
    BY <2>1 DEF MediaInv, MediaTypes, Media!showMediaLayer
  <2>3. MediaFollows'
    BY <2>1 DEF MediaInv, MediaFollows, Media!showMediaLayer
  <2>4. Media!showVisibleMediaImage' <=> Media!showVisibleMediaImage
    BY <2>1 DEF Media!showVisibleMediaImage, Media!showMediaLayer
  <2> QED
    BY <1>1, <2>2, <2>3, <2>4 DEF MediaGoesOn, MediaInv
<1> QED
  BY <1>1, <1>2, MediaShowsCard, MediaPrefetched, MediaAnswers, MediaLaidOut DEF Media!Next

(* A factor of a product grows.                                            *)
LEMMA ProductGrows ==
    ASSUME NEW a \in Int, NEW b \in Int, a >= b, NEW w \in Nat
    PROVE  a * w >= b * w
<1>1. a * w - b * w = (a - b) * w /\ a - b \in Nat
  OBVIOUS
<1>2. (a - b) * w >= 0
  BY <1>1
<1> QED
  BY <1>1, <1>2

(* Wherever there is a layer, its copy has room and the picture a width.   *)
LEMMA BackHasRoom ==
    ASSUME MediaInv, Media!showMediaLayer,
           NEW band, band = Media!bandHeight(faceH, textH)
    PROVE  /\ faceH - Media!readingPadTop >=
                facePad + Media!CARD_BACK_MEDIA_MIN_READING_STRIP
           /\ Media!fadeStart(item, faceH, band) \in 0..band
           /\ Media!containWidth(item, band) \in 1..FaceWidth
<1>1. /\ item \in Picture /\ faceH \in FaceHeight \cup {0} /\ textH \in TextHeight \cup {0}
      /\ band > 0
  BY DEF MediaInv, MediaTypes, Media!showMediaLayer, Media!layer, Media!phase
<1> DEFINE least == Media!minBand(faceH)
<1>2. /\ band \in Nat /\ faceH \in FaceHeight /\ faceH \in Nat /\ least \in Nat
      /\ faceH - least >= 27 + facePad /\ band >= least
      /\ faceH - band >= 27 + facePad /\ facePad \in Nat /\ FaceWidth \in Nat /\ FaceWidth > 32
  BY <1>1, BandIs, ClientAssumption
<1>3. /\ item.w \in Nat \ {0} /\ item.h \in Nat \ {0} /\ (least - 32) * item.w >= item.h
  <2>1. least = (faceH * 28) \div 100
    BY DEF Media!minBand
  <2> QED
    BY <1>1, <1>2, <2>1, ClientAssumption
<1> HIDE DEF least
<1>4. faceH - Media!readingPadTop >= facePad + 27
  <2>1. Media!Max({0, band - 2}) = IF 0 >= band - 2 THEN 0 ELSE band - 2
    BY <1>2, MediaMax
  <2>2. Media!readingPadTop \in {band, Media!Max({0, band - 2})}
    BY DEF Media!readingPadTop, Media!CARD_BACK_MEDIA_SEAM_OVERLAP
  <2> QED
    BY <1>1, <1>2, <2>1, <2>2
<1>5. Media!fadeStart(item, faceH, band) \in 0..band
  <2> DEFINE begin == band - (band * 40) \div 100
             darker == begin - (faceH * 15) \div 100
  <2>1. begin \in 0..band /\ darker \in Int /\ darker <= begin
    BY <1>2
  <2>2. Media!fadeStart(item, faceH, band) = IF item.dark THEN Media!Max({0, darker}) ELSE begin
    BY DEF Media!fadeStart
  <2> HIDE DEF begin, darker
  <2>3. Media!Max({0, darker}) = IF 0 >= darker THEN 0 ELSE darker
    BY <2>1, MediaMax
  <2> QED
    BY <1>2, <2>1, <2>2, <2>3
<1>6. Media!containWidth(item, band) \in 1..FaceWidth
  <2> DEFINE room == FaceWidth - 2 * Media!CARD_BACK_MEDIA_CONTAIN_INSET
             tall == band - 2 * Media!CARD_BACK_MEDIA_CONTAIN_INSET
             byHeight == (tall * item.w) \div item.h
             byScale == (3 * item.w) \div 2
  <2>1. tall \in Int /\ tall >= least - 32 /\ tall * item.w >= item.h /\ tall > 0
    <3>1. tall \in Int /\ tall >= least - 32 /\ least - 32 \in Int
      BY <1>2 DEF Media!CARD_BACK_MEDIA_CONTAIN_INSET
    <3> HIDE DEF tall
    <3>2. tall * item.w >= (least - 32) * item.w
      BY <1>3, <3>1, ProductGrows
    <3>3. tall * item.w >= item.h
      BY <1>3, <3>1, <3>2
    <3>4. tall > 0
      BY <1>3, <3>1, <3>3
    <3> QED
      BY <3>1, <3>3, <3>4
  <2>2. Media!Max({0, tall}) = tall
    <3> HIDE DEF tall
    <3> QED
      BY <2>1, MediaMax
  <2>3. Media!containWidth(item, band) = Media!Min({room, byHeight, byScale})
    BY <2>2 DEF Media!containWidth
  <2>4. byHeight \in Nat \ {0}
    <3> DEFINE n == tall * item.w
               m == item.h
    <3>1. n \in Int /\ m \in Nat \ {0} /\ n >= m
      BY <1>3, <2>1
    <3> HIDE DEF n, m
    <3>2. n \div m \in Nat \ {0}
      BY <3>1
    <3> QED
      BY <3>2 DEF n, m
  <2>5. byScale \in Nat \ {0} /\ room \in Nat \ {0} /\ room <= FaceWidth
    BY <1>2, <1>3 DEF Media!CARD_BACK_MEDIA_CONTAIN_INSET
  <2> HIDE DEF room, byHeight, byScale
  <2> QED
    BY <1>2, <2>3, <2>4, <2>5, MediaMin
<1> QED
  BY <1>4, <1>5, <1>6 DEF Media!CARD_BACK_MEDIA_MIN_READING_STRIP

(* What is stated of the back of a card.                                   *)
LEMMA BackIs == MediaInv => Media!BackIsReadable
<1> SUFFICES ASSUME MediaInv PROVE Media!BackIsReadable
  OBVIOUS
<1>1. measured => decoded
  BY DEF MediaInv, MediaFollows
<1>2. ASSUME image # "none" PROVE Media!showMediaLayer
  BY <1>2 DEF MediaInv, MediaFollows
<1> QED
  BY <1>1, <1>2, BackHasRoom DEF Media!BackIsReadable

(* A picture that is shown stays, and leaves its copy room, whichever of   *)
(* prefetch, fetch, load, timeout and layout comes first, for all pictures *)
(* and all heights (ConceptCard, cardBackMedia.ts).                        *)
THEOREM BackCorrect == ClientSpec => BackStaysReadable
<1> DEFINE Stays == /\ Media!showVisibleMediaImage /\ ~Media!showVisibleMediaImage' =>
                           \/ item' # item \/ mediaError'
                           \/ Media!bandHeight(faceH', textH') = 0
                           \/ onWeb /\ preloaded' # preloaded
                    /\ image' = "loaded" /\ ~onWeb => Media!showVisibleMediaImage'
<1>1. MediaInv => Media!BackIsReadable
  BY BackIs
<1>2. MediaInv /\ [ClientNext]_clientVars => MediaInv'
  BY MediaStep DEF MediaGoesOn
<1>3. MediaInv /\ [ClientNext]_clientVars => [Stays]_(Media!cardMediaVars)
  <2> SUFFICES ASSUME MediaInv, [ClientNext]_clientVars PROVE Stays
    OBVIOUS
  <2>1. MediaInv' /\ onWeb' = onWeb
        /\ (Media!showVisibleMediaImage /\ ~Media!showVisibleMediaImage' => GoesAway)
    BY MediaStep DEF MediaGoesOn
  <2>2. ASSUME image' = "loaded", ~onWeb PROVE Media!showVisibleMediaImage'
    BY <2>1, <2>2 DEF MediaInv, MediaFollows, Media!showVisibleMediaImage
  <2> QED
    BY <2>1, <2>2 DEF GoesAway
<1> QED
  BY <1>1, <1>2, <1>3, MediaStarts, PTL DEF ClientSpec, BackStaysReadable, Media!ShownStays

-----------------------------------------------------------------------------
(* How the stack is drawn.                                                 *)

Way == {"left", "right", "up", "down"}
IsFinger(f) ==
    f \in [x : Int, y : Int, edge : Int \cup {None}, origin : Int, skips : BOOLEAN]
IsExit(e) ==
    e \in [dir : Way, at : 0..Frames, fromX : Int, fromY : Int, fades : BOOLEAN,
           release : Int]

(* The inductive invariant of what is drawn of the stack.  Its types:      *)
PoseTypes ==
    /\ poseX \in Int /\ poseY \in Int /\ home \subseteq {"x", "y"}
    /\ hand \in {"none", "down", "x", "y"} /\ IsFinger(thumb)
    /\ back \in [range : Nat, at : Int, seen : Int]
    /\ exit = None \/ IsExit(exit)
    /\ peer \in -1..1 /\ still \in BOOLEAN /\ canGoBack \in BOOLEAN /\ poseOdd \in BOOLEAN

(* At rest or in the hand: an axis off its rest springs back, or is held.  *)
HeldOrHome ==
    exit = None =>
        /\ poseX # 0 => "x" \in home \/ (hand = "x" /\ home = {})
        /\ poseY # 0 => "y" \in home \/ hand = "y" \/ (hand = "x" /\ home = {})
        /\ hand = "y" => poseX = 0

(* On its way out: it began on the side it leaves by, and is as far as the *)
(* frames since then have taken it.                                        *)
Gone(from, to, at) == from + ((to - from) * at) \div Frames
OnItsWay ==
    exit # None /\ ~poseOdd =>
        /\ home = {}
        /\ exit.dir = "right" =>
             /\ canGoBack /\ exit.fromX >= 0
             /\ behind = "previous" \/ (exit.fromX = 0 /\ exit.fromY = 0)
        /\ exit.dir = "left" => exit.fromX <= 0
        /\ exit.dir \in {"up", "down"} => exit.fromX = 0
        /\ exit.dir # "right" => behind = "next"
        /\ exit.fades <=> still /\ (exit.dir = "right" => exit.fromX > 0)
        /\ peer = IF ~still THEN 0 ELSE IF exit.dir = "right" THEN 1 ELSE -1
        /\ poseX = IF ~still /\ exit.dir \in {"left", "right"}
                   THEN Gone(exit.fromX, Pose!Target, exit.at) ELSE exit.fromX
        /\ poseY = IF ~still /\ exit.dir \in {"up", "down"}
                   THEN Gone(exit.fromY, Pose!Target, exit.at) ELSE exit.fromY

(* While the back scrolls under a finger: what is counted from an edge has *)
(* not gone past it by the hand-over, and an edge that is left is gone     *)
(* before the scroll moves on.                                             *)
EdgeFollows ==
    hand = "down" =>
        /\ back.range <= 1 => thumb.y = 0 /\ thumb.origin = 0
        /\ thumb.edge # None /\ ~thumb.skips =>
             /\ Pose!AtTop(back.seen) => thumb.y - thumb.edge <= 24
             /\ Pose!AtBottom(back.seen) => thumb.edge - thumb.y <= 24
             /\ ~Pose!AtTop(back.seen) /\ ~Pose!AtBottom(back.seen) => back.at = back.seen

PoseInv == PoseTypes /\ HeldOrHome /\ OnItsWay /\ EdgeFollows

(* One step of the pose is a step of its module.                           *)
LEMMA PoseSteps == [ClientNext]_clientVars => Pose!Next \/ UNCHANGED poseVars
  BY DEF ClientNext, OthersRest, Keeps, clientVars

(* What is assumed of a card and of the finger on it.                      *)
LEMMA PoseConstants ==
    /\ CardWidth \in 1..1000 /\ CardHeight \in 1..1000 /\ Frames \in 1..1000
    /\ DragX \subseteq Int /\ DragY \subseteq Int /\ ScrollRanges \subseteq Nat
    /\ None \notin Int
    /\ None \notin [dir : Way, at : Nat, fromX : Int, fromY : Int, fades : BOOLEAN,
                    release : Int]
  BY ClientAssumption DEF Way

-----------------------------------------------------------------------------
(* Lengths *)

(* A way in frames: it stays between its ends, begins on one and ends on   *)
(* the other.                                                              *)
LEMMA GoneIs ==
    ASSUME NEW from \in Int, NEW to \in Int, NEW at \in 0..Frames
    PROVE  /\ Gone(from, to, at) \in Int
           /\ from <= to => from <= Gone(from, to, at) /\ Gone(from, to, at) <= to
           /\ to <= from => to <= Gone(from, to, at) /\ Gone(from, to, at) <= from
           /\ at = 0 => Gone(from, to, at) = from
           /\ at = Frames => Gone(from, to, at) = to
<1> DEFINE d == to - from
           n == d * at
           q == n \div Frames
<1>1. Frames \in Nat \ {0} /\ d \in Int /\ at \in Nat /\ at <= Frames
  BY PoseConstants
<1>2. n \in Int
  BY <1>1
<1>3. q \in Int /\ q * Frames <= n /\ n < q * Frames + Frames
  <2> HIDE DEF n
  <2> QED
    BY <1>1, <1>2
<1>4. d >= 0 => 0 <= n /\ n <= d * Frames
  <2> HIDE DEF d
  <2>1. ASSUME d >= 0 PROVE d * at >= 0 /\ d * Frames - d * at = d * (Frames - at)
                            /\ d * (Frames - at) >= 0
    BY <1>1, <2>1
  <2> QED
    BY <1>1, <2>1
<1>5. d <= 0 => n <= 0 /\ d * Frames <= n
  <2> HIDE DEF d
  <2>1. ASSUME d <= 0 PROVE d * at <= 0 /\ d * at - d * Frames = (-d) * (Frames - at)
                            /\ (-d) * (Frames - at) >= 0
    BY <1>1, <2>1
  <2> QED
    BY <1>1, <2>1
<1>6. at = 0 => n = 0
  BY <1>1
<1>7. at = Frames => n = d * Frames
  BY <1>1
<1> HIDE DEF n, q, d
<1>8. d >= 0 => 0 <= q /\ q <= d
  <2> SUFFICES ASSUME d >= 0 PROVE 0 <= q /\ q <= d
    OBVIOUS
  <2>1. q * Frames + Frames = (q + 1) * Frames
    BY <1>1, <1>3
  <2>2. 0 < (q + 1) * Frames
    BY <1>1, <1>2, <1>3, <1>4, <2>1
  <2>3. q + 1 > 0
    BY <1>1, <1>3, <2>2
  <2>4. (d - q) * Frames = d * Frames - q * Frames /\ (d - q) * Frames >= 0
    BY <1>1, <1>2, <1>3, <1>4
  <2>5. d - q >= 0
    BY <1>1, <1>3, <2>4
  <2> QED
    BY <1>1, <1>3, <2>3, <2>5
<1>9. d <= 0 => d <= q /\ q <= 0
  <2> SUFFICES ASSUME d <= 0 PROVE d <= q /\ q <= 0
    OBVIOUS
  <2>1. q * Frames <= 0
    BY <1>1, <1>2, <1>3, <1>5
  <2>2. q <= 0
    BY <1>1, <1>3, <2>1
  <2>3. (q + 1 - d) * Frames = q * Frames + Frames - d * Frames
    BY <1>1, <1>3
  <2>4. (q + 1 - d) * Frames > 0
    BY <1>1, <1>2, <1>3, <1>5, <2>3
  <2>5. q + 1 - d > 0
    BY <1>1, <1>3, <2>4
  <2> QED
    BY <1>1, <1>3, <2>2, <2>5
<1>10. at = 0 => q = 0
  BY <1>1, <1>6 DEF q
<1>11. at = Frames => q = d
  <2> SUFFICES ASSUME at = Frames PROVE q = d
    OBVIOUS
  <2>1. (d - q) * Frames >= 0 /\ (d - q) * Frames < Frames
    <3>1. (d - q) * Frames = d * Frames - q * Frames
      BY <1>1, <1>3
    <3> QED
      BY <1>1, <1>3, <1>7, <3>1
  <2>2. d - q >= 0
    BY <1>1, <1>3, <2>1
  <2>3. d - q < 1
    <3> SUFFICES ASSUME d - q >= 1 PROVE FALSE
      BY <1>1, <1>3
    <3>1. (d - q) * Frames = Frames + (d - q - 1) * Frames /\ (d - q - 1) * Frames >= 0
      BY <1>1, <1>3
    <3> QED
      BY <1>1, <1>3, <2>1, <3>1
  <2> QED
    BY <1>1, <1>3, <2>2, <2>3
<1>12. Gone(from, to, at) = from + q
  BY DEF Gone, q, n, d
<1> QED
  BY <1>1, <1>3, <1>8, <1>9, <1>10, <1>11, <1>12 DEF d

Extent == 1..1000
IsPart(p, n, m) ==
    /\ p \in 0..1000
    /\ n # 0 => p > 0
    /\ n = 0 => p = 0
    /\ n >= m \/ n <= -m => p = 1000

(* A fraction of a length in thousandths: none of none, and all of all.    *)
LEMMA PartIs ==
    ASSUME NEW n \in Int, NEW m \in Extent PROVE IsPart(Pose!Part(n, m), n, m)
<1> DEFINE a == Pose!Abs(n)
           q == (a * 1000) \div m
<1>1. /\ a \in Nat /\ (n # 0 <=> a > 0) /\ (n >= m \/ n <= -m => a >= m)
      /\ m \in Nat \ {0} /\ m <= 1000
  BY DEF Pose!Abs, Extent
<1> HIDE DEF a
<1>2. q \in Nat /\ (a = 0 => q = 0) /\ (a > 0 => q > 0) /\ (a >= m => q >= 1000)
  <2> DEFINE k == a * 1000
  <2>1. k \in Nat /\ (a = 0 => k = 0) /\ (a > 0 => k >= m) /\ (a >= m => k >= 1000 * m)
    BY <1>1
  <2> HIDE DEF k
  <2>2. /\ k \div m \in Nat /\ (k = 0 => k \div m = 0) /\ (k >= m => k \div m > 0)
        /\ (k >= 1000 * m => k \div m >= 1000)
    BY <1>1, <2>1
  <2>3. q = k \div m
    BY DEF k
  <2> HIDE DEF q
  <2> QED
    BY <1>1, <2>1, <2>2, <2>3
<1>3. Pose!Part(n, m) = Pose!Min({1000, q})
  BY DEF Pose!Part, a
<1> HIDE DEF q
<1> DEFINE l == IF q <= 1000 THEN q ELSE 1000
<1>4. l \in {1000, q} /\ \A z \in {1000, q} : l <= z
  BY <1>2
<1>5. \A z \in {1000, q} : (\A u \in {1000, q} : z <= u) => z = l
  BY <1>2
<1>6. l \in 0..1000 /\ (n # 0 => l > 0) /\ (n = 0 => l = 0)
      /\ (n >= m \/ n <= -m => l = 1000)
  BY <1>1, <1>2
<1> HIDE DEF l
<1>7. Pose!Min({1000, q}) = l
  BY <1>4, <1>5 DEF Pose!Min
<1> QED
  BY <1>3, <1>6, <1>7 DEF IsPart

(* The larger of two parts.                                                *)
LEMMA PoseMax ==
    ASSUME NEW a \in Int, NEW b \in Int
    PROVE  Pose!Max({a, b}) = IF a >= b THEN a ELSE b
<1> DEFINE m == IF a >= b THEN a ELSE b
<1>1. m \in {a, b} /\ \A z \in {a, b} : m >= z
  OBVIOUS
<1>2. \A z \in {a, b} : (\A u \in {a, b} : z >= u) => z = m
  OBVIOUS
<1> HIDE DEF m
<1>3. Pose!Max({a, b}) = m
  BY <1>1, <1>2 DEF Pose!Max
<1> QED
  BY <1>3 DEF m

-----------------------------------------------------------------------------
(* What is drawn *)

(* How far the underlay is revealed while a card leaves.                   *)
Uncovering == peer < 0 \/ (peer > 0 /\ poseX > 0)

(* How far that is, by the drag and by the fade: not at all, partly,       *)
(* wholly.                                                                 *)
LEMMA RevealedIs ==
    ASSUME PoseTypes, exit # None
    PROVE  /\ Pose!Revealed \in 0..1000
           /\ poseX < 0 \/ (poseX <= 0 /\ poseY # 0) => Pose!Revealed > 0
           /\ Uncovering /\ exit.at > 0 => Pose!Revealed > 0
           /\ Uncovering /\ exit.at = Frames => Pose!Revealed = 1000
           /\ poseX <= -CardWidth => Pose!Revealed = 1000
           /\ poseX = 0 /\ (poseY >= CardHeight \/ poseY <= -CardHeight) =>
                Pose!Revealed = 1000
           /\ ~Uncovering /\ poseX >= 0 /\ (poseX = 0 => poseY = 0) => Pose!Revealed = 0
<1> DEFINE px == Pose!Part(poseX, CardWidth)
           py == Pose!Part(poseY, CardHeight)
           pf == Pose!Part(Pose!peerCommitOpacity, Frames)
           drag == Pose!deckUnderlayDragProgress
           fade == Pose!deckReducedMotionUnderlayPeer
<1>1. /\ poseX \in Int /\ poseY \in Int /\ peer \in -1..1 /\ exit.at \in 0..Frames
      /\ Frames \in 1..1000 /\ CardWidth \in 1..1000 /\ CardHeight \in 1..1000
  BY PoseConstants DEF PoseTypes, IsExit
<1>2. IsPart(px, poseX, CardWidth) /\ IsPart(py, poseY, CardHeight)
  <2>1. poseX \in Int /\ CardWidth \in Extent /\ poseY \in Int /\ CardHeight \in Extent
    BY <1>1 DEF Extent
  <2> QED
    BY <2>1, PartIs
<1>3. /\ px \in 0..1000
      /\ poseX # 0 => px > 0
      /\ poseX = 0 => px = 0
      /\ poseX <= -CardWidth => px = 1000
      /\ py \in 0..1000
      /\ poseY # 0 => py > 0
      /\ poseY = 0 => py = 0
      /\ poseY >= CardHeight \/ poseY <= -CardHeight => py = 1000
  <2> HIDE DEF px, py
  <2> QED
    BY <1>2 DEF IsPart
<1>4. /\ Pose!peerCommitOpacity \in Int
      /\ peer # 0 => Pose!peerCommitOpacity = exit.at
  BY <1>1 DEF Pose!peerCommitOpacity
<1>5. /\ pf \in 0..1000
      /\ peer # 0 /\ exit.at > 0 => pf > 0
      /\ peer # 0 /\ exit.at = Frames => pf = 1000
  <2> DEFINE pc == Pose!peerCommitOpacity
  <2>1. pc \in Int /\ Frames \in Extent
    BY <1>1, <1>4 DEF Extent
  <2>2. IsPart(pf, pc, Frames)
    BY <2>1, PartIs
  <2>3. peer # 0 => pc = exit.at
    BY <1>4
  <2> HIDE DEF pc, pf
  <2> QED
    BY <1>1, <2>1, <2>2, <2>3 DEF IsPart
<1>6. fade = IF Uncovering THEN pf ELSE 0
  BY DEF Pose!deckReducedMotionUnderlayPeer, Uncovering
<1>7. Pose!Max({px, py}) = IF px >= py THEN px ELSE py
  <2> HIDE DEF px, py
  <2> QED
    BY <1>3, PoseMax
<1>8. drag = IF poseX < 0 THEN (IF px >= py THEN px ELSE py)
             ELSE IF poseX = 0 THEN py ELSE 0
  BY <1>7 DEF Pose!deckUnderlayDragProgress
<1>9. Uncovering => peer # 0
  BY <1>1 DEF Uncovering
<1> HIDE DEF px, py, pf, drag, fade
<1>10. drag \in Int /\ fade \in Int
  BY <1>1, <1>3, <1>5, <1>6, <1>8
<1>11. Pose!Revealed = IF drag >= fade THEN drag ELSE fade
  BY <1>10, PoseMax DEF Pose!Revealed, drag, fade
<1> DEFINE shown0 == Pose!Revealed
<1> HIDE DEF shown0
<1>12. shown0 = IF drag >= fade THEN drag ELSE fade
  BY <1>11 DEF shown0
<1>13. /\ drag \in 0..1000 /\ fade \in 0..1000
       /\ poseX < 0 => px <= drag
       /\ poseX = 0 => drag = py
       /\ poseX > 0 => drag = 0
       /\ Uncovering => fade = pf
       /\ ~Uncovering => fade = 0
  BY <1>1, <1>3, <1>5, <1>6, <1>8
<1>14. shown0 \in 0..1000 /\ drag <= shown0 /\ fade <= shown0
  BY <1>12, <1>13
<1>15. poseX < 0 \/ (poseX <= 0 /\ poseY # 0) => shown0 > 0
  BY <1>1, <1>3, <1>13, <1>14
<1>16. /\ Uncovering /\ exit.at > 0 => shown0 > 0
       /\ Uncovering /\ exit.at = Frames => shown0 = 1000
  BY <1>5, <1>9, <1>13, <1>14
<1>17. poseX <= -CardWidth => shown0 = 1000
  <2> SUFFICES ASSUME poseX <= -CardWidth PROVE shown0 = 1000
    OBVIOUS
  <2>1. poseX < 0 /\ px = 1000
    BY <1>1, <1>3
  <2> QED
    BY <1>13, <1>14, <2>1
<1>18. poseX = 0 /\ (poseY >= CardHeight \/ poseY <= -CardHeight) => shown0 = 1000
  BY <1>3, <1>13, <1>14
<1>19. ~Uncovering /\ poseX >= 0 /\ (poseX = 0 => poseY = 0) => shown0 = 0
  BY <1>1, <1>3, <1>12, <1>13
<1> QED
  BY <1>14, <1>15, <1>16, <1>17, <1>18, <1>19 DEF shown0

(* The side on which a card leaves, and where it has come to.              *)
LEMMA LeavesOnItsSide ==
    ASSUME PoseTypes, OnItsWay, exit # None, ~poseOdd
    PROVE  /\ exit.dir \in Way /\ exit.at \in 0..Frames
           /\ exit.dir = "left" => poseX <= 0
           /\ exit.dir = "right" => poseX >= 0 /\ poseY = exit.fromY
                                    /\ (poseX = 0 => exit.fromX = 0)
                                    /\ (still => poseX = exit.fromX)
           /\ exit.dir \in {"up", "down"} => poseX = 0
           /\ exit.at = Frames /\ ~still =>
                /\ exit.dir = "left" => poseX = -(CardWidth + 120)
                /\ exit.dir = "right" => poseX = CardWidth
                /\ exit.dir = "up" => poseY = -(CardHeight + 140)
                /\ exit.dir = "down" => poseY = CardHeight + 140
<1> DEFINE to == Pose!Target
           way == Gone(exit.fromX, to, exit.at)
<1>1. /\ exit.dir \in Way /\ exit.at \in 0..Frames /\ exit.fromX \in Int /\ exit.fromY \in Int
      /\ Frames \in 1..1000 /\ CardWidth \in 1..1000 /\ CardHeight \in 1..1000
      /\ still \in BOOLEAN
  BY PoseConstants DEF PoseTypes, IsExit
<1>2. /\ exit.dir = "left" => to = -(CardWidth + 120)
      /\ exit.dir = "right" => to = CardWidth
      /\ exit.dir = "up" => to = -(CardHeight + 140)
      /\ exit.dir = "down" => to = CardHeight + 140
      /\ to \in Int
  BY <1>1 DEF Pose!Target, Way
<1>3. /\ exit.dir = "right" => exit.fromX >= 0
      /\ exit.dir = "left" => exit.fromX <= 0
      /\ exit.dir \in {"up", "down"} => exit.fromX = 0
      /\ poseX = IF ~still /\ exit.dir \in {"left", "right"} THEN way ELSE exit.fromX
      /\ poseY = IF ~still /\ exit.dir \in {"up", "down"}
                 THEN Gone(exit.fromY, to, exit.at) ELSE exit.fromY
  BY DEF OnItsWay
<1> HIDE DEF to
<1>4. /\ way \in Int
      /\ exit.fromX <= to => exit.fromX <= way /\ way <= to
      /\ to <= exit.fromX => to <= way /\ way <= exit.fromX
      /\ exit.at = 0 => way = exit.fromX
      /\ exit.at = Frames => way = to
  <2>1. exit.fromX \in Int /\ to \in Int /\ exit.at \in 0..Frames
    BY <1>1, <1>2
  <2> QED
    BY <2>1, GoneIs, Zenon
<1>5. exit.at = Frames => Gone(exit.fromY, to, exit.at) = to
  BY <1>1, <1>2, GoneIs
<1> HIDE DEF way
<1>6. exit.dir = "left" => poseX <= 0
  BY <1>1, <1>2, <1>3, <1>4
<1>7. exit.dir = "right" => poseX >= 0 /\ poseY = exit.fromY /\ (still => poseX = exit.fromX)
  BY <1>1, <1>2, <1>3, <1>4
<1>8. exit.dir = "right" /\ poseX = 0 => exit.fromX = 0
  BY <1>1, <1>2, <1>3, <1>4
<1>9. exit.at = Frames /\ ~still =>
        /\ exit.dir \in {"left", "right"} => poseX = to
        /\ exit.dir \in {"up", "down"} => poseY = to
  BY <1>3, <1>4, <1>5
<1> QED
  BY <1>1, <1>2, <1>3, <1>6, <1>7, <1>8, <1>9

(* While a card leaves, only it and the coming one are seen.               *)
LEMMA NothingElse == PoseInv => Pose!NothingElseIsSeen
<1> SUFFICES ASSUME PoseInv, exit # None, ~poseOdd
    PROVE  /\ Pose!UnderlayIsSeen => behind = Pose!Coming
           /\ Pose!deckReturnOverlayOpacity > 0 => Pose!Coming = "previous"
           /\ \/ Pose!frontX < 0 \/ (poseY # 0 /\ exit.dir # "right")
              \/ Pose!frontCommitOpacity < Frames
              => Pose!UnderlayIsSeen
  BY DEF Pose!NothingElseIsSeen
<1>1. PoseTypes /\ OnItsWay
  BY DEF PoseInv
<1>2. /\ poseX \in Int /\ poseY \in Int /\ peer \in -1..1 /\ exit.at \in 0..Frames
      /\ Frames \in 1..1000 /\ still \in BOOLEAN /\ exit.fromY \in Int /\ exit.dir \in Way
      /\ exit.fades \in BOOLEAN
  BY <1>1, PoseConstants DEF PoseTypes, IsExit
<1>3. /\ exit.dir = "right" =>
             /\ behind = "previous" \/ (exit.fromX = 0 /\ exit.fromY = 0)
      /\ exit.dir # "right" => behind = "next"
      /\ exit.fades <=> still /\ (exit.dir = "right" => exit.fromX > 0)
      /\ peer = IF ~still THEN 0 ELSE IF exit.dir = "right" THEN 1 ELSE -1
  BY <1>1 DEF OnItsWay
<1>4. CASE exit.dir = "right"
  <2>1. /\ poseX >= 0 /\ poseY = exit.fromY /\ (still => poseX = exit.fromX)
        /\ poseX = 0 => exit.fromX = 0
    BY <1>1, <1>4, LeavesOnItsSide
  <2>2. Pose!Coming = "previous"
    BY <1>4 DEF Pose!Coming
  <2>3. ASSUME Pose!UnderlayIsSeen PROVE behind = "previous"
    <3> SUFFICES ASSUME behind # "previous" PROVE FALSE
      OBVIOUS
    <3>1. exit.fromX = 0 /\ exit.fromY = 0
      BY <1>3, <1>4
    <3>2. poseY = 0 /\ (still => poseX = 0)
      BY <2>1, <3>1
    <3>3. ~Uncovering
      BY <1>2, <1>3, <1>4, <3>2 DEF Uncovering
    <3>4. Pose!Revealed = 0
      BY <1>1, <2>1, <3>2, <3>3, RevealedIs
    <3> QED
      BY <2>3, <3>4 DEF Pose!UnderlayIsSeen
  <2>4. ASSUME \/ Pose!frontX < 0 \/ (poseY # 0 /\ exit.dir # "right")
               \/ Pose!frontCommitOpacity < Frames
        PROVE  Pose!UnderlayIsSeen
    <3>1. ~(Pose!frontX < 0)
      BY <1>2, <2>1 DEF Pose!frontX
    <3>2. exit.fades /\ exit.at > 0
      BY <1>2, <1>4, <2>4, <3>1 DEF Pose!frontCommitOpacity
    <3>3. still /\ poseX > 0 /\ peer = 1
      BY <1>3, <1>4, <2>1, <3>2
    <3>4. behind = "previous"
      BY <1>2, <1>3, <1>4, <2>1, <3>3
    <3>5. Pose!Revealed > 0
      BY <1>1, <3>2, <3>3, RevealedIs DEF Uncovering
    <3>6. Pose!SideMatches
      BY <3>3, <3>4 DEF Pose!SideMatches
    <3> QED
      BY <3>5, <3>6 DEF Pose!UnderlayIsSeen
  <2> QED
    BY <2>2, <2>3, <2>4
<1>5. CASE exit.dir # "right"
  <2>1. poseX <= 0 /\ behind = "next" /\ peer \in {0, -1}
    BY <1>1, <1>2, <1>3, <1>5, LeavesOnItsSide DEF Way
  <2>2. Pose!Coming = "next"
    BY <1>5 DEF Pose!Coming
  <2>3. Pose!deckReturnOverlayOpacity = 0
    <3>1. ~(poseX > 0) /\ ~(peer > 0)
      BY <1>2, <2>1
    <3>2. Pose!OverlayPeer = 0
      BY <3>1 DEF Pose!OverlayPeer
    <3> QED
      BY <3>1, <3>2 DEF Pose!deckReturnOverlayOpacity
  <2>4. ASSUME \/ Pose!frontX < 0 \/ (poseY # 0 /\ exit.dir # "right")
               \/ Pose!frontCommitOpacity < Frames
        PROVE  Pose!UnderlayIsSeen
    <3>1. Pose!SideMatches
      BY <1>2, <2>1 DEF Pose!SideMatches
    <3>2. Pose!Revealed > 0
      <4>1. CASE Pose!frontX < 0
        BY <1>1, <1>2, <4>1, RevealedIs DEF Pose!frontX
      <4>2. CASE poseY # 0
        BY <1>1, <2>1, <4>2, RevealedIs
      <4>3. CASE Pose!frontCommitOpacity < Frames
        <5>1. exit.fades /\ exit.at > 0
          BY <1>2, <4>3 DEF Pose!frontCommitOpacity
        <5>2. peer < 0
          BY <1>2, <1>3, <1>5, <5>1
        <5> QED
          BY <1>1, <5>1, <5>2, RevealedIs DEF Uncovering
      <4> QED
        BY <2>4, <4>1, <4>2, <4>3
    <3> QED
      BY <3>1, <3>2 DEF Pose!UnderlayIsSeen
  <2> QED
    BY <2>1, <2>2, <2>3, <2>4
<1> QED
  BY <1>4, <1>5

(* When a card has left, what is seen is what the next render draws.       *)
LEMMA LandsWell == PoseInv => Pose!LandsAsItLooks
<1> SUFFICES ASSUME PoseInv, exit # None, exit.at = Frames, ~poseOdd
    PROVE  \/ /\ Pose!Coming = "previous" /\ Pose!deckReturnOverlayOpacity = Frames
              /\ Pose!deckReturnOverlayTranslateX = 0 /\ Pose!cardReturnOverlayTiltZDeg = 0
           \/ /\ Pose!UnderlayIsSeen /\ behind = Pose!Coming
              /\ Pose!deckUnderlayReveal = [scale |-> 1000, tint |-> 0]
              /\ Pose!deckReturnOverlayOpacity = 0
              /\ \/ Pose!frontCommitOpacity = 0
                 \/ Pose!Abs(poseX) >= CardWidth \/ Pose!Abs(poseY) >= CardHeight
  BY DEF Pose!LandsAsItLooks
<1>1. PoseTypes /\ OnItsWay
  BY DEF PoseInv
<1>2. /\ poseX \in Int /\ poseY \in Int /\ peer \in -1..1 /\ exit.dir \in Way
      /\ Frames \in 1..1000 /\ CardWidth \in 1..1000 /\ CardHeight \in 1..1000
      /\ still \in BOOLEAN /\ exit.fades \in BOOLEAN
  BY <1>1, PoseConstants DEF PoseTypes, IsExit
<1>3. /\ exit.dir = "right" =>
             canGoBack /\ (behind = "previous" \/ (exit.fromX = 0 /\ exit.fromY = 0))
      /\ exit.dir # "right" => behind = "next"
      /\ exit.fades <=> still /\ (exit.dir = "right" => exit.fromX > 0)
      /\ peer = IF ~still THEN 0 ELSE IF exit.dir = "right" THEN 1 ELSE -1
  BY <1>1 DEF OnItsWay
<1>4. Pose!Revealed = 1000 => Pose!deckUnderlayReveal = [scale |-> 1000, tint |-> 0]
  <2> SUFFICES ASSUME Pose!Revealed = 1000
      PROVE Pose!deckUnderlayReveal = [scale |-> 1000, tint |-> 0]
    OBVIOUS
  <2>1. 950 + (50 * 1000) \div 1000 = 1000 /\ (22 * (1000 - 1000)) \div 100 = 0
    OBVIOUS
  <2> QED
    BY <2>1 DEF Pose!deckUnderlayReveal
<1>5. /\ peer > 0 => Pose!OverlayPeer = Frames
      /\ ~(peer > 0) => Pose!OverlayPeer = 0
  BY <1>2 DEF Pose!OverlayPeer, Pose!peerCommitOpacity
<1>6. CASE exit.dir = "right" /\ ~(still /\ poseX > 0)
  <2>1. Pose!Coming = "previous" /\ canGoBack
    BY <1>3, <1>6 DEF Pose!Coming
  <2>2. CASE still
    <3>1. poseX = 0 /\ peer = 1
      BY <1>1, <1>2, <1>3, <1>6, <2>2, LeavesOnItsSide
    <3>2. Pose!OverlayPeer = Frames /\ Frames > 0
      BY <1>2, <1>5, <3>1
    <3>3. Pose!deckReturnOverlayOpacity = Frames /\ Pose!deckReturnOverlayTranslateX = 0
      BY <2>1, <3>1, <3>2 DEF Pose!deckReturnOverlayOpacity, Pose!deckReturnOverlayTranslateX
    <3>4. Pose!cardReturnOverlayTiltZDeg = 0
      BY <2>2 DEF Pose!cardReturnOverlayTiltZDeg
    <3> QED
      BY <2>1, <3>3, <3>4
  <2>3. CASE ~still
    <3>1. poseX = CardWidth /\ poseX > 0 /\ peer = 0
      BY <1>1, <1>2, <1>3, <1>6, <2>3, LeavesOnItsSide
    <3>2. Pose!OverlayPeer = 0
      BY <1>5, <3>1
    <3>3. Pose!deckReturnOverlayOpacity = Frames /\ Pose!deckReturnOverlayTranslateX = 0
      BY <1>2, <2>1, <3>1, <3>2
         DEF Pose!deckReturnOverlayOpacity, Pose!deckReturnOverlayTranslateX
    <3>4. Pose!Part(poseX, CardWidth) = 1000
      <4>1. poseX \in Int /\ CardWidth \in Extent /\ poseX >= CardWidth
        BY <1>2, <3>1 DEF Extent
      <4>2. IsPart(Pose!Part(poseX, CardWidth), poseX, CardWidth)
        BY <4>1, PartIs
      <4> QED
        BY <4>1, <4>2 DEF IsPart
    <3> DEFINE turned == Pose!Part(poseX, CardWidth)
    <3>5. turned = 1000 => -((100 * (1000 - turned)) \div 1000) = 0
      <4> DEFINE left == 100 * (1000 - turned)
      <4>1. turned = 1000 => left = 0
        <5> HIDE DEF turned
        <5> QED
          OBVIOUS
      <4> HIDE DEF left
      <4>2. left = 0 => left \div 1000 = 0
        OBVIOUS
      <4>3. left \div 1000 = 0 => -(left \div 1000) = 0
        OBVIOUS
      <4> QED
        BY <4>1, <4>2, <4>3 DEF left
    <3>6. Pose!cardReturnOverlayTiltZDeg = 0
      BY <2>3, <3>4, <3>5 DEF Pose!cardReturnOverlayTiltZDeg
    <3> QED
      BY <2>1, <3>3, <3>6
  <2> QED
    BY <1>2, <2>2, <2>3
<1>7. CASE exit.dir = "right" /\ still /\ poseX > 0
  <2>1. poseX = exit.fromX /\ peer = 1
    BY <1>1, <1>3, <1>7, LeavesOnItsSide
  <2>2. behind = "previous" /\ Pose!Coming = "previous" /\ exit.fades
    BY <1>2, <1>3, <1>7, <2>1 DEF Pose!Coming
  <2>3. Pose!Revealed = 1000
    BY <1>1, <1>7, <2>1, RevealedIs DEF Uncovering
  <2>4. Pose!UnderlayIsSeen
    BY <1>7, <2>1, <2>2, <2>3 DEF Pose!UnderlayIsSeen, Pose!SideMatches
  <2>5. Pose!OverlayPeer = Frames
    BY <1>5, <2>1
  <2>6. Pose!deckReturnOverlayOpacity = 0
    BY <1>2, <1>7, <2>5 DEF Pose!deckReturnOverlayOpacity
  <2>7. Pose!frontCommitOpacity = 0
    BY <1>2, <2>2 DEF Pose!frontCommitOpacity
  <2> QED
    BY <1>4, <2>2, <2>3, <2>4, <2>6, <2>7
<1>8. CASE exit.dir # "right"
  <2>1. /\ poseX <= 0 /\ behind = "next" /\ peer \in {0, -1} /\ Pose!Coming = "next"
        /\ exit.dir \in {"up", "down"} => poseX = 0
    BY <1>1, <1>2, <1>3, <1>8, LeavesOnItsSide DEF Way, Pose!Coming
  <2>2. Pose!deckReturnOverlayOpacity = 0
    <3>1. ~(poseX > 0) /\ ~(peer > 0)
      BY <1>2, <2>1
    <3> QED
      BY <1>5, <3>1 DEF Pose!deckReturnOverlayOpacity
  <2>3. Pose!SideMatches
    BY <1>2, <2>1 DEF Pose!SideMatches
  <2>4. /\ Pose!Revealed = 1000
        /\ \/ Pose!frontCommitOpacity = 0
           \/ Pose!Abs(poseX) >= CardWidth \/ Pose!Abs(poseY) >= CardHeight
    <3>1. CASE still
      <4>1. peer = -1 /\ exit.fades
        BY <1>3, <1>8, <3>1
      <4>2. Pose!Revealed = 1000
        BY <1>1, <4>1, RevealedIs DEF Uncovering
      <4>3. Pose!frontCommitOpacity = 0
        BY <1>2, <4>1 DEF Pose!frontCommitOpacity
      <4> QED
        BY <4>2, <4>3
    <3>2. CASE ~still /\ exit.dir = "left"
      <4>1. poseX = -(CardWidth + 120)
        BY <1>1, <3>2, LeavesOnItsSide
      <4>2. poseX <= -CardWidth /\ Pose!Abs(poseX) >= CardWidth
        BY <1>2, <4>1 DEF Pose!Abs
      <4> QED
        BY <1>1, <4>2, RevealedIs
    <3>3. CASE ~still /\ exit.dir \in {"up", "down"}
      <4>1. poseY = -(CardHeight + 140) \/ poseY = CardHeight + 140
        BY <1>1, <3>3, LeavesOnItsSide
      <4>2. /\ poseY >= CardHeight \/ poseY <= -CardHeight
            /\ Pose!Abs(poseY) >= CardHeight
        BY <1>2, <4>1 DEF Pose!Abs
      <4> QED
        BY <1>1, <2>1, <3>3, <4>2, RevealedIs
    <3> QED
      BY <1>2, <1>8, <3>1, <3>2, <3>3 DEF Way
  <2>5. Pose!UnderlayIsSeen
    BY <2>3, <2>4 DEF Pose!UnderlayIsSeen
  <2> QED
    BY <1>4, <2>1, <2>2, <2>4, <2>5
<1> QED
  BY <1>6, <1>7, <1>8

-----------------------------------------------------------------------------
(* The steps *)

(* At the start the stack is at rest.                                      *)
LEMMA PoseStarts == ClientInit => PoseInv
<1> SUFFICES ASSUME ClientInit PROVE PoseInv
  OBVIOUS
<1>1. Pose!Init
  BY DEF ClientInit
<1>2. /\ poseX = 0 /\ poseY = 0 /\ home = {} /\ hand = "none" /\ thumb = Pose!NewFinger
      /\ exit = None /\ peer = 0 /\ poseOdd = FALSE /\ still \in BOOLEAN
      /\ canGoBack \in BOOLEAN
      /\ \E d \in ScrollRanges : back = [range |-> d, at |-> 0, seen |-> 0]
  BY <1>1 DEF Pose!Init, Pose!AtRest
<1>3. back \in [range : Nat, at : Int, seen : Int]
  BY <1>2, PoseConstants
<1>4. IsFinger(thumb)
  BY <1>2 DEF IsFinger, Pose!NewFinger
<1>5. PoseTypes
  <2>1. /\ poseX \in Int /\ poseY \in Int /\ peer \in -1..1
    BY <1>2
  <2>2. hand \in {"none", "down", "x", "y"} /\ home \subseteq {"x", "y"}
        /\ poseOdd \in BOOLEAN
    BY <1>2
  <2> QED
    BY <1>2, <1>3, <1>4, <2>1, <2>2, Zenon DEF PoseTypes
<1>6. HeldOrHome
  BY <1>2 DEF HeldOrHome
<1>7. OnItsWay /\ EdgeFollows
  BY <1>2 DEF OnItsWay, EdgeFollows
<1> QED
  BY <1>5, <1>6, <1>7 DEF PoseInv

(* A finger comes down.                                                    *)
LEMMA PoseTouch == ASSUME PoseInv, Pose!TouchDown PROVE PoseInv'
<1>1. IsFinger(thumb') /\ thumb'.y = 0 /\ thumb'.origin = 0 /\ thumb'.edge = None
  BY DEF Pose!TouchDown, Pose!NewFinger, IsFinger
<1>2. PoseTypes'
  BY <1>1 DEF PoseInv, PoseTypes, Pose!TouchDown
<1>3. HeldOrHome'
  BY DEF PoseInv, HeldOrHome, Pose!TouchDown
<1>4. OnItsWay'
  BY DEF PoseInv, OnItsWay, Pose!TouchDown, Pose!Target
<1>5. EdgeFollows'
  BY <1>1 DEF EdgeFollows
<1> QED
  BY <1>2, <1>3, <1>4, <1>5 DEF PoseInv

(* It is taken for a horizontal pan.                                       *)
LEMMA PosePans == ASSUME PoseInv, Pose!PanXStarts PROVE PoseInv'
<1>1. PoseTypes'
  BY DEF PoseInv, PoseTypes, Pose!PanXStarts
<1>2. HeldOrHome'
  BY DEF PoseInv, HeldOrHome, Pose!PanXStarts
<1>3. OnItsWay'
  BY DEF PoseInv, OnItsWay, Pose!PanXStarts, Pose!Target
<1>4. EdgeFollows'
  BY DEF EdgeFollows, Pose!PanXStarts
<1> QED
  BY <1>1, <1>2, <1>3, <1>4 DEF PoseInv

(* What a horizontal drag strays by is followed in part.                   *)
LEMMA StraysInPart ==
    ASSUME NEW ty \in Int PROVE Pose!cardSwipeFollowY(ty) \in Int
<1> DEFINE a == Pose!Abs(ty)
           q == (a * 15) \div 100
<1>1. a \in Int
  BY DEF Pose!Abs
<1> HIDE DEF a
<1>2. q \in Int
  BY <1>1
<1>3. Pose!Sign(ty) \in {-1, 0, 1}
  BY DEF Pose!Sign
<1>4. Pose!cardSwipeFollowY(ty) = IF still THEN 0 ELSE Pose!Sign(ty) * q
  BY DEF Pose!cardSwipeFollowY, a
<1> HIDE DEF q
<1> QED
  BY <1>2, <1>3, <1>4

(* The horizontal pan goes on.                                             *)
LEMMA PosePansOn ==
    ASSUME PoseInv, NEW tx \in DragX, NEW ty \in DragY, Pose!PanXMoves(tx, ty)
    PROVE  PoseInv'
<1>1. tx \in Int /\ ty \in Int
  BY PoseConstants
<1>2. Pose!applyStartOfHistoryResistance(tx) \in Int
  BY <1>1 DEF Pose!applyStartOfHistoryResistance
<1>3. /\ hand = "x" /\ hand' = "x" /\ exit = None /\ exit' = None /\ home' = {}
      /\ poseX' \in Int /\ poseY' \in Int
      /\ thumb' = [thumb EXCEPT !.x = tx, !.y = ty]
      /\ UNCHANGED <<back, peer, still, canGoBack, poseOdd>>
  BY <1>1, <1>2, StraysInPart DEF Pose!PanXMoves
<1>4. IsFinger(thumb')
  BY <1>1, <1>3 DEF PoseInv, PoseTypes, IsFinger
<1>5. PoseTypes'
  BY <1>3, <1>4 DEF PoseInv, PoseTypes
<1> QED
  BY <1>3, <1>5 DEF PoseInv, HeldOrHome, OnItsWay, EdgeFollows

(* Where the scroll comes to is a number.                                  *)
LEMMA ScrollIs ==
    ASSUME PoseTypes, NEW d \in Int PROVE Pose!ScrollBy(d) \in Int
<1> DEFINE a == back.range
           b == back.at - d
           l == IF a <= b THEN a ELSE b
<1>1. a \in Int /\ b \in Int
  BY DEF PoseTypes
<1> HIDE DEF a, b
<1>2. l \in {a, b} /\ \A z \in {a, b} : l <= z
  BY <1>1
<1>3. \A z \in {a, b} : (\A u \in {a, b} : z <= u) => z = l
  BY <1>1
<1>4. l \in Int
  BY <1>1
<1> HIDE DEF l
<1>5. Pose!Min({a, b}) = l
  BY <1>2, <1>3 DEF Pose!Min
<1>6. Pose!Max({0, l}) = IF 0 >= l THEN 0 ELSE l
  BY <1>4, PoseMax
<1> QED
  BY <1>4, <1>5, <1>6 DEF Pose!ScrollBy, a, b

(* The finger moves before it is known what for: the card takes over at    *)
(* once, or has the scroll go on; then it counts from the edge the scroll  *)
(* lies at.  Counted so, it takes over within a move of the threshold.     *)
LEMMA PoseTouchMoves ==
    ASSUME PoseInv, NEW d \in {-20, 20}, Pose!TouchMoves(d)
    PROVE  /\ PoseInv'
           /\ hand' = "y" /\ ~thumb.skips => thumb'.y - thumb'.origin \in -20..20
<1> DEFINE way == thumb.y + d
           canScroll == back.range > 1
           atTop == Pose!AtTop(back.seen)
           atBottom == Pose!AtBottom(back.seen)
           edge == IF thumb.edge = None THEN way ELSE thumb.edge
           origin == Pose!backFaceVerticalHandoffOrigin(way, edge, atTop, atBottom)
           takesOver == IF canScroll THEN (atTop \/ atBottom) /\ origin # None ELSE TRUE
<1>1. /\ thumb.x \in Int /\ thumb.y \in Int /\ thumb.edge \in Int \cup {None}
      /\ thumb.origin \in Int /\ thumb.skips \in BOOLEAN /\ None \notin Int
      /\ back.range \in Nat /\ d \in Int
  BY PoseConstants DEF PoseInv, PoseTypes, IsFinger
<1>2. way \in Int /\ edge \in Int
  BY <1>1
<1>3. /\ hand = "down" /\ exit = None
      /\ thumb' = [thumb EXCEPT
                     !.y = way,
                     !.edge = IF canScroll /\ (atTop \/ atBottom) /\ ~takesOver
                              THEN edge ELSE None,
                     !.origin = IF canScroll /\ takesOver THEN origin ELSE @,
                     !.skips = @ /\ ~takesOver]
      /\ hand' = IF takesOver THEN "y" ELSE "down"
      /\ poseX' = IF takesOver THEN 0 ELSE poseX
      /\ home' = IF takesOver THEN home \ {"x"} ELSE home
      /\ back' = IF takesOver THEN back ELSE [back EXCEPT !.at = Pose!ScrollBy(d)]
      /\ UNCHANGED <<poseY, exit, peer, behind, still, canGoBack, poseOdd>>
  BY DEF Pose!TouchMoves
<1>4. /\ back.range <= 1 => thumb.y = 0 /\ thumb.origin = 0
      /\ thumb.edge # None /\ ~thumb.skips =>
           /\ atTop => thumb.y - thumb.edge <= 24
           /\ atBottom => thumb.edge - thumb.y <= 24
  BY <1>3 DEF PoseInv, EdgeFollows
<1>5. /\ atBottom /\ way - edge < -24 => origin = edge - 24
      /\ ~(atBottom /\ way - edge < -24) /\ atTop /\ way - edge > 24 => origin = edge + 24
      /\ ~(atBottom /\ way - edge < -24) /\ ~(atTop /\ way - edge > 24) => origin = None
  BY DEF Pose!backFaceVerticalHandoffOrigin, Pose!SWIPE_BACK_FACE_SCROLL_HANDOFF_PX
<1>6. /\ thumb'.x = thumb.x /\ thumb'.y = way
      /\ thumb'.edge = IF canScroll /\ (atTop \/ atBottom) /\ ~takesOver THEN edge ELSE None
      /\ thumb'.origin = IF canScroll /\ takesOver THEN origin ELSE thumb.origin
      /\ thumb'.skips = (thumb.skips /\ ~takesOver)
      /\ thumb' = [x |-> thumb'.x, y |-> thumb'.y, edge |-> thumb'.edge,
                   origin |-> thumb'.origin, skips |-> thumb'.skips]
  <2>1. thumb \in [x : Int, y : Int, edge : Int \cup {None}, origin : Int, skips : BOOLEAN]
    BY DEF PoseInv, PoseTypes, IsFinger
  <2> HIDE DEF way, canScroll, atTop, atBottom, edge, origin, takesOver
  <2> QED
    BY <1>3, <2>1
<1>7. takesOver = (IF canScroll THEN (atTop \/ atBottom) /\ origin # None ELSE TRUE)
  OBVIOUS
<1>8. (canScroll <=> back.range > 1) /\ (thumb.edge = None => edge = way)
      /\ (thumb.edge # None => edge = thumb.edge) /\ way = thumb.y + d
  OBVIOUS
<1>9. IsFinger(thumb')
  <2> HIDE DEF way, canScroll, atTop, atBottom, edge, origin, takesOver
  <2>1. origin \in Int \cup {None}
    BY <1>1, <1>2, <1>5
  <2>2. thumb'.origin \in Int
    BY <1>1, <1>6, <1>7, <2>1
  <2>3. thumb'.edge \in Int \cup {None}
    BY <1>2, <1>6
  <2>4. thumb'.skips \in BOOLEAN
    BY <1>6
  <2>5. thumb'.x \in Int /\ thumb'.y \in Int
    BY <1>1, <1>2, <1>6
  <2> QED
    BY <1>6, <2>2, <2>3, <2>4, <2>5 DEF IsFinger
<1>10. back' \in [range : Nat, at : Int, seen : Int] /\ back'.range = back.range
       /\ back'.seen = back.seen
  <2>1. Pose!ScrollBy(d) \in Int
    BY <1>1, ScrollIs DEF PoseInv
  <2> HIDE DEF takesOver
  <2> QED
    BY <1>3, <2>1 DEF PoseInv, PoseTypes
<1>11. PoseTypes'
  <2> HIDE DEF takesOver
  <2> QED
    BY <1>3, <1>9, <1>10 DEF PoseInv, PoseTypes
<1>12. HeldOrHome' /\ OnItsWay'
  <2> HIDE DEF takesOver
  <2> QED
    BY <1>3 DEF PoseInv, HeldOrHome, OnItsWay
<1>13. EdgeFollows'
  <2>1. ASSUME hand' = "down"
        PROVE  /\ back'.range <= 1 => thumb'.y = 0 /\ thumb'.origin = 0
               /\ thumb'.edge # None =>
                    /\ atTop \/ atBottom
                    /\ atTop => thumb'.y - thumb'.edge <= 24
                    /\ atBottom => thumb'.edge - thumb'.y <= 24
    <3> HIDE DEF way, canScroll, atTop, atBottom, edge, origin, takesOver
    <3>1. ~takesOver
      BY <1>3, <2>1
    <3>2. canScroll
      BY <1>7, <3>1
    <3>3. back'.range > 1
      BY <1>8, <1>10, <3>2
    <3>4. (atTop \/ atBottom) => origin = None
      BY <1>7, <3>1, <3>2
    <3>5. thumb'.edge # None => (atTop \/ atBottom) /\ thumb'.edge = edge
      BY <1>6
    <3>6. (atTop \/ atBottom) => /\ ~(atBottom /\ way - edge < -24)
                                 /\ ~(atTop /\ way - edge > 24)
      BY <1>1, <1>2, <1>5, <3>4
    <3> QED
      BY <1>1, <1>2, <1>6, <1>10, <3>3, <3>5, <3>6
  <2>2. /\ Pose!AtTop(back.seen)' = atTop
        /\ Pose!AtBottom(back.seen)' = atBottom
    BY <1>10 DEF Pose!AtTop, Pose!AtBottom
  <2> HIDE DEF atTop, atBottom
  <2> QED
    BY <2>1, <2>2 DEF EdgeFollows
<1>14. ASSUME hand' = "y", ~thumb.skips PROVE thumb'.y - thumb'.origin \in -20..20
  <2> HIDE DEF way, canScroll, atTop, atBottom, edge, origin, takesOver
  <2>1. takesOver
    BY <1>3, <1>14
  <2>2. CASE ~canScroll
    <3>0. back.range <= 1
      BY <1>1, <1>8, <2>2
    <3>1. thumb.y = 0 /\ thumb.origin = 0
      BY <1>4, <3>0
    <3> QED
      BY <1>6, <1>8, <2>2, <3>1
  <2>3. CASE canScroll
    <3>1. thumb'.origin = origin /\ origin # None
      BY <1>6, <1>7, <2>1, <2>3
    <3>2. CASE thumb.edge = None
      BY <1>1, <1>2, <1>5, <1>8, <3>1, <3>2
    <3>3. CASE thumb.edge # None
      <4>1. edge = thumb.edge /\ (atTop => thumb.y - edge <= 24)
            /\ (atBottom => edge - thumb.y <= 24)
        BY <1>4, <1>8, <1>14, <3>3
      <4>2. CASE atBottom /\ way - edge < -24
        BY <1>1, <1>2, <1>5, <1>6, <1>8, <3>1, <4>1, <4>2
      <4>3. CASE ~(atBottom /\ way - edge < -24)
        <5>1. atTop /\ way - edge > 24 /\ origin = edge + 24
          BY <1>5, <3>1, <4>3
        <5> QED
          BY <1>1, <1>2, <1>6, <1>8, <3>1, <4>1, <5>1
      <4> QED
        BY <4>2, <4>3
    <3> QED
      BY <3>2, <3>3
  <2> QED
    BY <2>2, <2>3
<1> QED
  BY <1>11, <1>12, <1>13, <1>14 DEF PoseInv

(* The scroll is reported.                                                 *)
LEMMA PoseScrolls == ASSUME PoseInv, Pose!onScroll PROVE PoseInv'
<1> DEFINE leaps == \/ Pose!AtTop(back.seen) /\ Pose!AtBottom(back.at)
                    \/ Pose!AtBottom(back.seen) /\ Pose!AtTop(back.at)
<1>1. /\ back.seen # back.at /\ back' = [back EXCEPT !.seen = back.at]
      /\ thumb' = IF hand = "down" /\ leaps THEN [thumb EXCEPT !.skips = TRUE] ELSE thumb
      /\ UNCHANGED <<poseX, poseY, home, hand, exit, peer, behind, still, canGoBack, poseOdd>>
  BY DEF Pose!onScroll
<1>2. /\ back \in [range : Nat, at : Int, seen : Int]
      /\ thumb \in [x : Int, y : Int, edge : Int \cup {None}, origin : Int, skips : BOOLEAN]
  BY DEF PoseInv, PoseTypes, IsFinger
<1>3. /\ back' \in [range : Nat, at : Int, seen : Int]
      /\ back'.range = back.range /\ back'.at = back.at /\ back'.seen = back.at
  BY <1>1, <1>2
<1>4. /\ IsFinger(thumb')
      /\ thumb'.y = thumb.y /\ thumb'.edge = thumb.edge /\ thumb'.origin = thumb.origin
      /\ ~thumb'.skips => ~thumb.skips /\ (hand = "down" => ~leaps)
  <2> HIDE DEF leaps
  <2> QED
    BY <1>1, <1>2 DEF IsFinger
<1>5. PoseTypes'
  BY <1>1, <1>3, <1>4 DEF PoseInv, PoseTypes
<1>6. HeldOrHome'
  BY <1>1 DEF PoseInv, HeldOrHome
<1>7. OnItsWay'
  BY <1>1 DEF PoseInv, OnItsWay, Pose!Target
<1>8. EdgeFollows'
  <2>1. /\ Pose!AtTop(back.seen)' <=> Pose!AtTop(back.at)
        /\ Pose!AtBottom(back.seen)' <=> Pose!AtBottom(back.at)
    BY <1>3 DEF Pose!AtTop, Pose!AtBottom
  <2>2. ASSUME hand' = "down", thumb'.edge # None, ~thumb'.skips
        PROVE  /\ Pose!AtTop(back.at) => thumb'.y - thumb'.edge <= 24
               /\ Pose!AtBottom(back.at) => thumb'.edge - thumb'.y <= 24
    <3>1. /\ Pose!AtTop(back.seen) => thumb.y - thumb.edge <= 24
          /\ Pose!AtBottom(back.seen) => thumb.edge - thumb.y <= 24
          /\ Pose!AtTop(back.seen) \/ Pose!AtBottom(back.seen)
      BY <1>1, <1>4, <2>2 DEF PoseInv, EdgeFollows
    <3>2. ~leaps
      BY <1>1, <1>4, <2>2
    <3> QED
      BY <1>4, <3>1, <3>2
  <2>3. hand' = "down" /\ back'.range <= 1 => thumb'.y = 0 /\ thumb'.origin = 0
    BY <1>1, <1>3, <1>4 DEF PoseInv, EdgeFollows
  <2> QED
    BY <1>3, <2>1, <2>2, <2>3 DEF EdgeFollows
<1> QED
  BY <1>5, <1>6, <1>7, <1>8 DEF PoseInv

(* The vertical pan goes on.                                               *)
LEMMA PosePansUp ==
    ASSUME PoseInv, NEW d \in {-20, 20}, Pose!PanYMoves(d) PROVE PoseInv'
<1>1. /\ hand = "y" /\ hand' = "y" /\ exit = None /\ exit' = None
      /\ thumb' = [thumb EXCEPT !.y = @ + d]
      /\ poseY' = thumb'.y - thumb'.origin /\ home' = home \ {"y"}
      /\ UNCHANGED <<poseX, back, peer, behind, still, canGoBack, poseOdd>>
  BY DEF Pose!PanYMoves, Pose!cardSwipeTranslationAfterHandoff
<1>2. thumb \in [x : Int, y : Int, edge : Int \cup {None}, origin : Int, skips : BOOLEAN]
  BY DEF PoseInv, PoseTypes, IsFinger
<1>3. IsFinger(thumb') /\ thumb'.y \in Int /\ thumb'.origin \in Int
  BY <1>1, <1>2 DEF IsFinger
<1>4. PoseTypes'
  BY <1>1, <1>3 DEF PoseInv, PoseTypes
<1>5. HeldOrHome'
  BY <1>1 DEF PoseInv, HeldOrHome
<1> QED
  BY <1>1, <1>4, <1>5 DEF PoseInv, OnItsWay, EdgeFollows

(* How far a dragged card is turned is a number.                           *)
LEMMA TiltIs ==
    ASSUME NEW n \in Int PROVE Pose!cardSwipeDragTiltZDeg(n) \in Int
<1> DEFINE p == Pose!Part(n, CardWidth)
           t == IF p <= 500 THEN (80 * p) \div 500 ELSE 80 + (40 * (p - 500)) \div 500
<1>1. p \in 0..1000
  <2>1. CardWidth \in Extent
    BY PoseConstants DEF Extent
  <2>2. IsPart(p, n, CardWidth)
    BY <2>1, PartIs
  <2> HIDE DEF p
  <2> QED
    BY <2>2 DEF IsPart
<1>2. t \in Int
  <2> HIDE DEF p
  <2> QED
    BY <1>1
<1>3. Pose!Sign(n) \in {-1, 0, 1}
  BY DEF Pose!Sign
<1>4. Pose!cardSwipeDragTiltZDeg(n) = IF still THEN 0 ELSE Pose!Sign(n) * t
  BY DEF Pose!cardSwipeDragTiltZDeg
<1> HIDE DEF t
<1> QED
  BY <1>2, <1>3, <1>4

(* How a card leaves that is at rest, or is held or springs back.          *)
LEMMA PoseLeaves ==
    ASSUME PoseInv, exit = None, NEW dir \in Way, NEW byPan \in BOOLEAN,
           Pose!Leaves(dir, byPan),
           byPan => \/ hand = "x" /\ dir \in {"left", "right"}
                    \/ hand = "y" /\ dir \in {"up", "down"},
           ~byPan => hand = "none",
           dir = "right" => canGoBack,
           UNCHANGED <<poseX, poseY, back, still, canGoBack>>,
           hand' = "none", IsFinger(thumb')
    PROVE  PoseInv'
<1>1. /\ exit' = [dir |-> dir, at |-> 0, fromX |-> poseX, fromY |-> poseY,
                  fades |-> still /\ (dir = "right" => byPan /\ poseX > 0),
                  release |-> Pose!cardSwipeDragTiltZDeg(poseX)]
      /\ peer' = IF ~still THEN 0 ELSE IF dir = "right" THEN 1 ELSE -1
      /\ dir = "right" /\ byPan => behind' = "previous"
      /\ dir # "right" => behind' = "next"
      /\ home' \subseteq home
      /\ poseOdd' = (\/ home # {}
                     \/ dir = "left" /\ poseX > 0
                     \/ dir = "right" /\ poseX < 0
                     \/ dir \in {"up", "down"} /\ poseX # 0)
  BY DEF Pose!Leaves
<1>2. /\ poseX \in Int /\ poseY \in Int /\ home \subseteq {"x", "y"} /\ still \in BOOLEAN
      /\ canGoBack \in BOOLEAN /\ back \in [range : Nat, at : Int, seen : Int]
      /\ hand \in {"none", "down", "x", "y"}
  BY DEF PoseInv, PoseTypes
<1>3. /\ exit'.dir = dir /\ exit'.at = 0 /\ exit'.fromX = poseX /\ exit'.fromY = poseY
      /\ exit'.fades = (still /\ (dir = "right" => byPan /\ poseX > 0))
  BY <1>1
<1>4. IsExit(exit')
  <2> DEFINE turned == Pose!cardSwipeDragTiltZDeg(poseX)
             fading == still /\ (dir = "right" => byPan /\ poseX > 0)
  <2>1. exit' = [dir |-> dir, at |-> 0, fromX |-> poseX, fromY |-> poseY,
                 fades |-> fading, release |-> turned]
    BY <1>1
  <2>2. fading \in BOOLEAN /\ 0 \in 0..Frames
    BY PoseConstants
  <2>3. turned \in Int
    BY <1>2, TiltIs
  <2> HIDE DEF turned, fading
  <2> QED
    BY <1>2, <2>1, <2>2, <2>3 DEF IsExit
<1>5. PoseTypes'
  <2>1. peer' \in -1..1 /\ poseOdd' \in BOOLEAN
    BY <1>1, <1>2
  <2> QED
    BY <1>1, <1>2, <1>4, <2>1 DEF PoseTypes
<1>6. exit' # None
  <2>1. exit' \in [dir : Way, at : Nat, fromX : Int, fromY : Int, fades : BOOLEAN,
                   release : Int]
    BY <1>4, PoseConstants DEF IsExit
  <2> QED
    BY <2>1, PoseConstants
<1>7. HeldOrHome' /\ EdgeFollows'
  BY <1>6 DEF HeldOrHome, EdgeFollows
<1>8. OnItsWay'
  <2> SUFFICES ASSUME ~poseOdd' PROVE OnItsWay'
    BY DEF OnItsWay
  <2>1. /\ home = {} /\ (dir = "left" => poseX <= 0) /\ (dir = "right" => poseX >= 0)
        /\ dir \in {"up", "down"} => poseX = 0
    BY <1>1, <1>2
  <2>2. home' = {}
    BY <1>1, <2>1
  <2>3. dir = "right" /\ ~byPan => poseX = 0 /\ poseY = 0
    BY <1>2, <2>1 DEF PoseInv, HeldOrHome
  <2>4. exit'.fades <=> still /\ (dir = "right" => poseX > 0)
    <3>1. CASE byPan
      BY <1>2, <1>3, <3>1
    <3>2. CASE ~byPan
      <4>1. dir = "right" => ~(poseX > 0)
        BY <2>3, <3>2
      <4> QED
        BY <1>3, <3>2, <4>1
    <3> QED
      BY <3>1, <3>2
  <2>5. Pose!Target' \in Int
    <3>1. /\ -(CardWidth + 120) \in Int /\ CardWidth \in Int
          /\ -(CardHeight + 140) \in Int /\ CardHeight + 140 \in Int
      BY PoseConstants
    <3>2. /\ dir = "left" => Pose!Target' = -(CardWidth + 120)
          /\ dir = "right" => Pose!Target' = CardWidth
          /\ dir = "up" => Pose!Target' = -(CardHeight + 140)
          /\ dir = "down" => Pose!Target' = CardHeight + 140
      BY <1>3 DEF Pose!Target
    <3> QED
      BY <3>1, <3>2 DEF Way
  <2> DEFINE to == Pose!Target'
  <2> HIDE DEF to
  <2>6. /\ Gone(poseX, to, 0) = poseX /\ Gone(poseY, to, 0) = poseY
    <3>1. poseX \in Int /\ poseY \in Int /\ to \in Int /\ 0 \in 0..Frames
      BY <1>2, <2>5, PoseConstants DEF to
    <3> QED
      BY <3>1, GoneIs
  <2>7. dir = "right" => canGoBack' /\ (behind' = "previous" \/ (poseX = 0 /\ poseY = 0))
    BY <1>1, <2>3
  <2>8. /\ poseX' = IF ~still' /\ exit'.dir \in {"left", "right"}
                    THEN Gone(exit'.fromX, to, exit'.at) ELSE exit'.fromX
        /\ poseY' = IF ~still' /\ exit'.dir \in {"up", "down"}
                    THEN Gone(exit'.fromY, to, exit'.at) ELSE exit'.fromY
    BY <1>3, <2>6
  <2>9. peer' = IF ~still' THEN 0 ELSE IF exit'.dir = "right" THEN 1 ELSE -1
    BY <1>1, <1>3
  <2> QED
    BY <1>1, <1>3, <2>1, <2>2, <2>3, <2>4, <2>7, <2>8, <2>9 DEF OnItsWay, to
<1> QED
  BY <1>5, <1>7, <1>8 DEF PoseInv

(* A card springs back.                                                    *)
LEMMA PoseSprings ==
    ASSUME PoseInv, exit = None, Pose!springHome,
           UNCHANGED <<poseX, poseY, back, still, canGoBack>>,
           hand' = "none", IsFinger(thumb')
    PROVE  PoseInv'
<1>1. home' = {"x", "y"} /\ peer' = 0 /\ exit' = None /\ poseOdd' = poseOdd
  BY DEF Pose!springHome
<1>2. PoseTypes'
  BY <1>1 DEF PoseInv, PoseTypes
<1>3. HeldOrHome' /\ OnItsWay' /\ EdgeFollows'
  BY <1>1 DEF HeldOrHome, OnItsWay, EdgeFollows
<1> QED
  BY <1>2, <1>3 DEF PoseInv

(* The finger goes up, or the gesture is another's.                        *)
LEMMA PosePanEnds ==
    ASSUME PoseInv, NEW fling \in -1..1, Pose!PanEnds(fling) PROVE PoseInv'
<1> DEFINE dir == IF hand = "x" THEN Pose!swipeCommitDirection(thumb.x, fling, CardWidth)
                  ELSE Pose!swipeCommitDirection(
                         Pose!cardSwipeTranslationAfterHandoff(thumb), fling, CardHeight)
           first == hand = "down" \/ exit # None
           second == hand # "down" /\ exit = None /\ hand = "x"
                       /\ (dir < 0 \/ (dir > 0 /\ canGoBack))
           third == hand # "down" /\ exit = None /\ hand = "y" /\ dir # 0
<1>1. /\ hand' = "none" /\ hand # "none" /\ IsFinger(thumb')
      /\ UNCHANGED <<poseX, poseY, back, still, canGoBack>>
  BY DEF Pose!PanEnds, IsFinger, Pose!NewFinger
<1>2. (CASE first -> UNCHANGED <<exit, peer, behind, home, poseOdd>>
         [] second -> Pose!Leaves(IF dir < 0 THEN "left" ELSE "right", TRUE)
         [] third -> Pose!Leaves(IF dir < 0 THEN "up" ELSE "down", TRUE)
         [] OTHER -> Pose!springHome)
  BY DEF Pose!PanEnds
<1>3. dir \in Int
  <2>1. thumb.x \in Int /\ thumb.y - thumb.origin \in Int /\ fling \in Int
    BY DEF PoseInv, PoseTypes, IsFinger
  <2> QED
    BY <2>1 DEF Pose!swipeCommitDirection, Pose!cardSwipeTranslationAfterHandoff, Pose!Sign
<1> HIDE DEF dir
<1>4. CASE first
  <2>1. UNCHANGED <<exit, peer, behind, home, poseOdd>>
    BY <1>2, <1>4
  <2>2. PoseTypes'
    BY <1>1, <2>1 DEF PoseInv, PoseTypes
  <2>3. HeldOrHome'
    BY <1>1, <1>4, <2>1 DEF PoseInv, HeldOrHome
  <2>4. OnItsWay'
    BY <1>1, <2>1 DEF PoseInv, OnItsWay, Pose!Target
  <2> QED
    BY <1>1, <2>2, <2>3, <2>4 DEF PoseInv, EdgeFollows
<1> DEFINE toSide == IF dir < 0 THEN "left" ELSE "right"
           upOrDown == IF dir < 0 THEN "up" ELSE "down"
           byPan == TRUE
<1>5. CASE second
  <2>1. Pose!Leaves(toSide, byPan)
    <3>1. ~first
      BY <1>5
    <3> QED
      BY <1>2, <1>5, <3>1
  <2>2. /\ exit = None /\ hand = "x" /\ toSide \in Way /\ toSide \in {"left", "right"}
        /\ toSide = "right" => canGoBack
    BY <1>3, <1>5 DEF Way
  <2>3. byPan \in BOOLEAN /\ byPan
    OBVIOUS
  <2> HIDE DEF toSide, byPan
  <2> QED
    BY <1>1, <2>1, <2>2, <2>3, PoseLeaves
<1>6. CASE third
  <2>1. Pose!Leaves(upOrDown, byPan)
    <3>1. ~first /\ ~second
      BY <1>6
    <3> QED
      BY <1>2, <1>6, <3>1
  <2>2. /\ exit = None /\ hand = "y" /\ upOrDown \in Way /\ upOrDown \in {"up", "down"}
        /\ upOrDown # "right"
    BY <1>6 DEF Way
  <2>3. byPan \in BOOLEAN /\ byPan
    OBVIOUS
  <2> HIDE DEF upOrDown, byPan
  <2> QED
    BY <1>1, <2>1, <2>2, <2>3, PoseLeaves
<1>7. CASE ~first /\ ~second /\ ~third
  <2>1. Pose!springHome /\ exit = None
    <3> HIDE DEF second, third
    <3> QED
      BY <1>2, <1>7
  <2> QED
    BY <1>1, <2>1, PoseSprings
<1> QED
  BY <1>4, <1>5, <1>6, <1>7

(* A key or a button sends the card off.                                   *)
LEMMA PoseActs ==
    ASSUME PoseInv, NEW dir \in Way, Pose!RunAction(dir) PROVE PoseInv'
<1> DEFINE byPan == FALSE
<1>1. /\ hand = "none" /\ exit = None /\ (dir = "right" => canGoBack)
      /\ Pose!Leaves(dir, byPan)
      /\ UNCHANGED <<poseX, poseY, hand, thumb, back, still, canGoBack>>
  BY DEF Pose!RunAction
<1>2. IsFinger(thumb')
  BY <1>1 DEF PoseInv, PoseTypes
<1>3. byPan \in BOOLEAN /\ ~byPan
  OBVIOUS
<1> HIDE DEF byPan
<1> QED
  BY <1>1, <1>2, <1>3, PoseLeaves

(* A third of a length is a length, and of none none.                      *)
LEMMA ThirdIs ==
    ASSUME NEW n \in Int PROVE Pose!AThird(n) \in Int /\ (n = 0 => Pose!AThird(n) = 0)
<1> DEFINE a == Pose!Abs(n)
           q == a \div 3
<1>1. a \in Nat
  BY DEF Pose!Abs
<1> HIDE DEF a
<1>2. q \in Int
  BY <1>1
<1>3. Pose!Sign(n) \in {-1, 0, 1} /\ (n = 0 => Pose!Sign(n) = 0)
  BY DEF Pose!Sign
<1>4. Pose!AThird(n) = Pose!Sign(n) * q
  BY DEF Pose!AThird, a
<1> HIDE DEF q
<1> QED
  BY <1>2, <1>3, <1>4

(* A frame of what springs back.                                           *)
LEMMA PoseSpringsOn == ASSUME PoseInv, exit = None, Pose!Frame PROVE PoseInv'
<1>1. /\ poseX' = (IF "x" \in home THEN Pose!AThird(poseX) ELSE poseX)
      /\ poseY' = (IF "y" \in home THEN Pose!AThird(poseY) ELSE poseY)
      /\ home # {} /\ exit' = None
      /\ home' = {axis \in home : IF axis = "x" THEN poseX' # 0 ELSE poseY' # 0}
      /\ UNCHANGED <<hand, thumb, back, peer, behind, still, canGoBack, poseOdd>>
  BY DEF Pose!Frame, Pose!Sprung
<1>2. poseX \in Int /\ poseY \in Int /\ home \subseteq {"x", "y"}
  BY DEF PoseInv, PoseTypes
<1>3. poseX' \in Int /\ poseY' \in Int /\ (poseX = 0 => poseX' = 0)
  BY <1>1, <1>2, ThirdIs
<1>4. PoseTypes'
  BY <1>1, <1>3 DEF PoseInv, PoseTypes
<1>5. /\ poseX # 0 => "x" \in home
      /\ poseY # 0 => "y" \in home \/ hand = "y"
      /\ hand = "y" => poseX = 0
  BY <1>1 DEF PoseInv, HeldOrHome
<1>6. poseX' # 0 => "x" \in home'
  BY <1>1, <1>3, <1>5
<1>7. poseY' # 0 => "y" \in home' \/ hand' = "y"
  <2>1. CASE "y" \in home
    BY <1>1, <2>1
  <2>2. CASE "y" \notin home
    BY <1>1, <1>5, <2>2
  <2> QED
    BY <2>1, <2>2
<1>8. HeldOrHome'
  BY <1>1, <1>3, <1>5, <1>6, <1>7 DEF HeldOrHome
<1>9. EdgeFollows'
  BY <1>1 DEF PoseInv, EdgeFollows, Pose!AtTop, Pose!AtBottom
<1> QED
  BY <1>1, <1>4, <1>8, <1>9 DEF PoseInv, OnItsWay

(* A frame of what leaves.                                                 *)
LEMMA PoseGoesOn == ASSUME PoseInv, exit # None, Pose!Frame PROVE PoseInv'
<1> DEFINE at == exit.at + 1
           to == Pose!Target
           wayX == Gone(exit.fromX, to, at)
           wayY == Gone(exit.fromY, to, at)
<1>1. /\ exit.at < Frames /\ exit' = [exit EXCEPT !.at = at]
      /\ poseX' = IF ~still /\ exit.dir \in {"left", "right"} THEN wayX
                  ELSE IF "x" \in home THEN Pose!AThird(poseX) ELSE poseX
      /\ poseY' = IF ~still /\ exit.dir \in {"up", "down"} THEN wayY
                  ELSE IF "y" \in home THEN Pose!AThird(poseY) ELSE poseY
      /\ home' = {axis \in home : IF axis = "x" THEN poseX' # 0 ELSE poseY' # 0}
      /\ UNCHANGED <<hand, thumb, back, peer, behind, still, canGoBack, poseOdd>>
  BY DEF Pose!Frame, Pose!Sprung, Pose!Along, Gone
<1>2. /\ poseX \in Int /\ poseY \in Int /\ home \subseteq {"x", "y"} /\ IsExit(exit)
      /\ exit.dir \in Way /\ exit.at \in 0..Frames /\ exit.fromX \in Int /\ exit.fromY \in Int
      /\ Frames \in Nat
  BY PoseConstants DEF PoseInv, PoseTypes, IsExit
<1>3. at \in 0..Frames
  BY <1>1, <1>2
<1>4. to \in Int
  <2>1. /\ -(CardWidth + 120) \in Int /\ CardWidth \in Int
        /\ -(CardHeight + 140) \in Int /\ CardHeight + 140 \in Int
    BY PoseConstants
  <2>2. /\ exit.dir = "left" => to = -(CardWidth + 120)
        /\ exit.dir = "right" => to = CardWidth
        /\ exit.dir = "up" => to = -(CardHeight + 140)
        /\ exit.dir = "down" => to = CardHeight + 140
    BY DEF Pose!Target
  <2> HIDE DEF to
  <2> QED
    BY <1>2, <2>1, <2>2 DEF Way
<1> HIDE DEF at
<1>5. /\ exit'.dir = exit.dir /\ exit'.at = at /\ exit'.fromX = exit.fromX
      /\ exit'.fromY = exit.fromY /\ exit'.fades = exit.fades /\ IsExit(exit')
  BY <1>1, <1>2, <1>3 DEF IsExit
<1>6. exit' # None
  <2>1. exit' \in [dir : Way, at : Nat, fromX : Int, fromY : Int, fades : BOOLEAN,
                   release : Int]
    BY <1>5, PoseConstants DEF IsExit
  <2> QED
    BY <2>1, PoseConstants
<1>7. Pose!Target' = to
  BY <1>5 DEF Pose!Target
<1> HIDE DEF to
<1>8. wayX \in Int /\ wayY \in Int
  BY <1>2, <1>3, <1>4, GoneIs
<1>9. PoseTypes'
  <2>1. Pose!AThird(poseX) \in Int /\ Pose!AThird(poseY) \in Int
    BY <1>2, ThirdIs
  <2> HIDE DEF wayX, wayY
  <2>2. poseX' \in Int /\ poseY' \in Int
    BY <1>1, <1>2, <1>8, <2>1
  <2>3. home' \subseteq {"x", "y"}
    BY <1>1, <1>2
  <2> QED
    BY <1>1, <1>5, <2>2, <2>3 DEF PoseInv, PoseTypes
<1>10. HeldOrHome'
  BY <1>6 DEF HeldOrHome
<1>11. OnItsWay'
  <2> SUFFICES ASSUME ~poseOdd' PROVE OnItsWay'
    BY DEF OnItsWay
  <2>1. /\ home = {}
        /\ exit.dir = "right" =>
             /\ canGoBack /\ exit.fromX >= 0
             /\ behind = "previous" \/ (exit.fromX = 0 /\ exit.fromY = 0)
        /\ exit.dir = "left" => exit.fromX <= 0
        /\ exit.dir \in {"up", "down"} => exit.fromX = 0
        /\ exit.dir # "right" => behind = "next"
        /\ exit.fades <=> still /\ (exit.dir = "right" => exit.fromX > 0)
        /\ peer = IF ~still THEN 0 ELSE IF exit.dir = "right" THEN 1 ELSE -1
        /\ ~(~still /\ exit.dir \in {"left", "right"}) => poseX = exit.fromX
        /\ ~(~still /\ exit.dir \in {"up", "down"}) => poseY = exit.fromY
    BY <1>1 DEF PoseInv, OnItsWay
  <2>2. home' = {}
    BY <1>1, <2>1
  <2>3. /\ poseX' = IF ~still' /\ exit'.dir \in {"left", "right"}
                    THEN Gone(exit'.fromX, to, exit'.at) ELSE exit'.fromX
        /\ poseY' = IF ~still' /\ exit'.dir \in {"up", "down"}
                    THEN Gone(exit'.fromY, to, exit'.at) ELSE exit'.fromY
    BY <1>1, <1>5, <2>1
  <2> QED
    BY <1>1, <1>5, <1>7, <2>1, <2>2, <2>3 DEF OnItsWay
<1>12. EdgeFollows'
  BY <1>1 DEF PoseInv, EdgeFollows, Pose!AtTop, Pose!AtBottom
<1> QED
  BY <1>9, <1>10, <1>11, <1>12 DEF PoseInv

(* The card is committed, and the stack put back.                          *)
LEMMA PoseCommits == ASSUME PoseInv, Pose!Commit PROVE PoseInv'
<1>1. /\ poseX' = 0 /\ poseY' = 0 /\ home' = {} /\ exit' = None /\ peer' = 0
      /\ poseOdd' = FALSE /\ hand' = "none" /\ thumb' = Pose!NewFinger /\ still' = still
  BY DEF Pose!Commit
<1>2. /\ \E d \in ScrollRanges : back' = [range |-> d, at |-> 0, seen |-> 0]
      /\ canGoBack' \in BOOLEAN
  BY DEF Pose!Commit
<1>3. back' \in [range : Nat, at : Int, seen : Int]
  BY <1>2, PoseConstants
<1>4. IsFinger(thumb')
  BY <1>1 DEF IsFinger, Pose!NewFinger
<1>5. PoseTypes'
  <2>1. /\ poseX' \in Int /\ poseY' \in Int /\ peer' \in -1..1
    BY <1>1
  <2>2. hand' \in {"none", "down", "x", "y"} /\ home' \subseteq {"x", "y"}
        /\ poseOdd' \in BOOLEAN /\ still' \in BOOLEAN
    BY <1>1 DEF PoseInv, PoseTypes
  <2> QED
    BY <1>1, <1>2, <1>3, <1>4, <2>1, <2>2, Zenon DEF PoseTypes
<1>6. HeldOrHome'
  BY <1>1 DEF HeldOrHome
<1>7. OnItsWay' /\ EdgeFollows'
  BY <1>1 DEF OnItsWay, EdgeFollows
<1> QED
  BY <1>5, <1>6, <1>7 DEF PoseInv

(* Nothing changes.                                                        *)
LEMMA PoseStutters == ASSUME PoseInv, UNCHANGED poseVars PROVE PoseInv'
<1>1. PoseTypes' /\ HeldOrHome'
  BY DEF PoseInv, PoseTypes, HeldOrHome, poseVars
<1>2. OnItsWay'
  BY DEF PoseInv, OnItsWay, poseVars, Pose!Target
<1>3. EdgeFollows'
  BY DEF PoseInv, EdgeFollows, poseVars, Pose!AtTop, Pose!AtBottom
<1> QED
  BY <1>1, <1>2, <1>3 DEF PoseInv

(* Every step keeps the invariant.                                         *)
LEMMA PoseStep == ASSUME PoseInv, [ClientNext]_clientVars PROVE PoseInv'
<1>1. Pose!Next \/ UNCHANGED poseVars
  BY PoseSteps
<1>2. CASE UNCHANGED poseVars
  BY <1>2, PoseStutters
<1>3. CASE Pose!TouchDown
  BY <1>3, PoseTouch
<1>4. CASE Pose!PanXStarts
  BY <1>4, PosePans
<1>5. CASE Pose!onScroll
  BY <1>5, PoseScrolls
<1>6. CASE Pose!Frame
  BY <1>6, PoseSpringsOn, PoseGoesOn
<1>7. CASE Pose!Commit
  BY <1>7, PoseCommits
<1>8. ASSUME NEW tx \in DragX, NEW ty \in DragY, Pose!PanXMoves(tx, ty) PROVE PoseInv'
  BY <1>8, PosePansOn
<1>9. ASSUME NEW d \in {-20, 20}, Pose!TouchMoves(d) PROVE PoseInv'
  BY <1>9, PoseTouchMoves
<1>10. ASSUME NEW d \in {-20, 20}, Pose!PanYMoves(d) PROVE PoseInv'
  BY <1>10, PosePansUp
<1>11. ASSUME NEW fling \in -1..1, Pose!PanEnds(fling) PROVE PoseInv'
  BY <1>11, PosePanEnds
<1>12. ASSUME NEW dir \in Way, Pose!RunAction(dir) PROVE PoseInv'
  BY <1>12, PoseActs
<1>13. {-Pose!Step, Pose!Step} = {-20, 20}
  BY DEF Pose!Step
<1> QED
  BY <1>1, <1>2, <1>3, <1>4, <1>5, <1>6, <1>7, <1>8, <1>9, <1>10, <1>11, <1>12, <1>13
     DEF Pose!Next, Way

(* A card takes over from the scroll of its back without a leap.           *)
LEMMA HandsOver ==
    ASSUME PoseInv, [ClientNext]_clientVars, hand # "y", hand' = "y", ~thumb.skips
    PROVE  Pose!Abs(Pose!cardSwipeTranslationAfterHandoff(thumb')) <= Pose!Step
<1>1. Pose!Next
  BY PoseSteps DEF poseVars
<1>2. \E d \in {-20, 20} : Pose!TouchMoves(d)
  <2>1. {-Pose!Step, Pose!Step} = {-20, 20}
    BY DEF Pose!Step
  <2>2. ~Pose!TouchDown /\ ~Pose!PanXStarts /\ ~Pose!onScroll /\ ~Pose!Frame /\ ~Pose!Commit
    BY DEF Pose!TouchDown, Pose!PanXStarts, Pose!onScroll, Pose!Frame, Pose!Commit
  <2>3. \A tx \in DragX, ty \in DragY : ~Pose!PanXMoves(tx, ty)
    BY DEF Pose!PanXMoves
  <2>4. \A d \in {-20, 20} : ~Pose!PanYMoves(d)
    BY DEF Pose!PanYMoves
  <2>5. \A fling \in -1..1 : ~Pose!PanEnds(fling)
    BY DEF Pose!PanEnds
  <2>6. \A dir \in Way : ~Pose!RunAction(dir)
    BY DEF Pose!RunAction
  <2> QED
    BY <1>1, <2>1, <2>2, <2>3, <2>4, <2>5, <2>6 DEF Pose!Next, Way
<1>3. thumb'.y - thumb'.origin \in -20..20
  BY <1>2, PoseTouchMoves
<1> DEFINE n == thumb'.y - thumb'.origin
<1>4. Pose!cardSwipeTranslationAfterHandoff(thumb') = n
  BY DEF Pose!cardSwipeTranslationAfterHandoff
<1> HIDE DEF n
<1>5. n \in -20..20
  BY <1>3 DEF n
<1> QED
  BY <1>4, <1>5 DEF Pose!Abs, Pose!Step

(* When a motion has ended, what is seen is what the next render draws;    *)
(* while a card leaves, only it and the coming one are seen, which is      *)
(* beneath it unless it comes over it from the left; and a card that takes *)
(* over from the scroll of its back does not leap, for all sizes of the    *)
(* card, all lengths of a motion and all drags (cardSwipe.ts,              *)
(* ConceptCardStack).                                                      *)
THEOREM PoseCorrect == ClientSpec => PoseLandsAsItLooks
<1> DEFINE Gentle == hand # "y" /\ hand' = "y" /\ ~thumb.skips =>
                       Pose!Abs(Pose!cardSwipeTranslationAfterHandoff(thumb')) <= Pose!Step
<1>1. PoseInv => Pose!LandsAsItLooks /\ Pose!NothingElseIsSeen
  BY LandsWell, NothingElse
<1>2. PoseInv /\ [ClientNext]_clientVars => PoseInv'
  BY PoseStep
<1>3. PoseInv /\ [ClientNext]_clientVars => [Gentle]_(Pose!vars)
  BY HandsOver
<1> QED
  BY <1>1, <1>2, <1>3, PoseStarts, PTL
     DEF ClientSpec, PoseLandsAsItLooks, Pose!HandoffIsGentle

-----------------------------------------------------------------------------
(* The front of a card: its title and its pattern.                         *)

(* The inductive invariant of the titles: a title on screen was measured,  *)
(* or is the approximate one that stays; a title that is not shown is      *)
(* waited for, or was measured for another card.                           *)
TitleKeys == Titles \X (ColumnWidths \cup {0})
TitleInv ==
    /\ titleKey \in [Title!Slots -> TitleKeys]
    /\ shownTitle \in [Title!Slots -> {Title!NoLayout} \cup
                         [how : {"probe", "approximate"}, key : TitleKeys]]
    /\ fallbackUp \in [Title!Slots -> BOOLEAN] /\ probing \in [Title!Slots -> BOOLEAN]
    /\ waiting \in [Title!Slots -> BOOLEAN]
    /\ \A c \in Title!Slots :
         /\ shownTitle[c] # Title!NoLayout => titleKey[c] \in cached \/ fallbackUp[c]
         /\ shownTitle[c] = Title!NoLayout /\ titleKey[c][2] > 0 =>
              waiting[c] \/ titleKey[c] \in cached

(* What a step may do to a title on screen.                                *)
TitleKept(c) ==
    /\ shownTitle[c] # Title!NoLayout /\ titleKey'[c] = titleKey[c] =>
         shownTitle'[c] = shownTitle[c]
    /\ shownTitle'[c] = Title!NoLayout /\ titleKey'[c][2] > 0 =>
         waiting'[c] \/ titleKey'[c] \in cached'
TitlesGoOn == TitleInv' /\ \A c \in Title!Slots : TitleKept(c)

(* One step of the titles is a step of their module.                       *)
LEMMA TitleSteps == [ClientNext]_clientVars => Title!Next \/ UNCHANGED titleVars
  BY DEF ClientNext, OthersRest, Keeps, clientVars

(* At the start nothing is shown and no face has a width.                  *)
LEMMA TitleStarts == ClientInit => TitleInv
<1> SUFFICES ASSUME ClientInit PROVE TitleInv
  OBVIOUS
<1> DEFINE t0 == CHOOSE t \in Titles : TRUE
<1>1. /\ titleKey = [c \in Title!Slots |-> <<t0, 0>>] /\ cached = {}
      /\ shownTitle = [c \in Title!Slots |-> Title!NoLayout]
      /\ fallbackUp = [c \in Title!Slots |-> FALSE]
      /\ probing = [c \in Title!Slots |-> FALSE] /\ waiting = [c \in Title!Slots |-> FALSE]
  BY DEF ClientInit, Title!Init
<1>2. t0 \in Titles
  BY ClientAssumption
<1> HIDE DEF t0
<1>3. <<t0, 0>> \in TitleKeys /\ ~(0 > 0)
  BY <1>2 DEF TitleKeys
<1>4. \A c \in Title!Slots : titleKey[c][2] = 0
  BY <1>1
<1> QED
  BY <1>1, <1>3, <1>4 DEF TitleInv

(* Another title, column or text scale.                                    *)
LEMMA TitleRekeyed ==
    ASSUME TitleInv, NEW c \in Title!Slots, Title!Rekey(c) PROVE TitlesGoOn
<1>1. PICK key0 \in Titles \X ColumnWidths : Title!Rekeyed(c, key0) /\ key0 # titleKey[c]
  BY DEF Title!Rekey
<1> DEFINE found == key0 \in cached
           asks == key0[2] > 0 /\ ~found
           layout == IF found THEN [how |-> "probe", key |-> key0] ELSE Title!NoLayout
           no == FALSE
<1>2. /\ titleKey' = [titleKey EXCEPT ![c] = key0]
      /\ shownTitle' = [shownTitle EXCEPT ![c] = layout]
      /\ fallbackUp' = [fallbackUp EXCEPT ![c] = no]
      /\ probing' = [probing EXCEPT ![c] = asks]
      /\ waiting' = [waiting EXCEPT ![c] = asks]
      /\ cached' = cached
  BY <1>1 DEF Title!Rekeyed, Title!Rekey
<1>3. /\ key0 \in TitleKeys /\ no \in BOOLEAN /\ asks \in BOOLEAN
      /\ layout \in {Title!NoLayout} \cup [how : {"probe", "approximate"}, key : TitleKeys]
  BY DEF TitleKeys
<1>4. layout # Title!NoLayout => key0 \in cached
  OBVIOUS
<1>5. layout = Title!NoLayout => key0 \notin cached
  BY DEF Title!NoLayout
<1>6. key0 \notin cached /\ key0[2] > 0 => asks
  OBVIOUS
<1> HIDE DEF found, asks, layout, no
<1>7. /\ titleKey' \in [Title!Slots -> TitleKeys]
      /\ shownTitle' \in [Title!Slots -> {Title!NoLayout} \cup
                            [how : {"probe", "approximate"}, key : TitleKeys]]
      /\ fallbackUp' \in [Title!Slots -> BOOLEAN] /\ probing' \in [Title!Slots -> BOOLEAN]
      /\ waiting' \in [Title!Slots -> BOOLEAN]
  BY <1>2, <1>3 DEF TitleInv
<1>8. /\ titleKey'[c] = key0 /\ shownTitle'[c] = layout /\ waiting'[c] = asks
      /\ \A k \in Title!Slots \ {c} :
           /\ titleKey'[k] = titleKey[k] /\ shownTitle'[k] = shownTitle[k]
           /\ fallbackUp'[k] = fallbackUp[k] /\ waiting'[k] = waiting[k]
  BY <1>2 DEF TitleInv
<1>9. ASSUME NEW k \in Title!Slots
      PROVE  /\ shownTitle'[k] # Title!NoLayout => titleKey'[k] \in cached' \/ fallbackUp'[k]
             /\ shownTitle'[k] = Title!NoLayout /\ titleKey'[k][2] > 0 =>
                  waiting'[k] \/ titleKey'[k] \in cached'
             /\ TitleKept(k)
  <2>1. CASE k = c
    BY <1>1, <1>2, <1>4, <1>5, <1>6, <1>8, <2>1 DEF TitleKept
  <2>2. CASE k # c
    BY <1>2, <1>8, <2>2 DEF TitleKept, TitleInv
  <2> QED
    BY <2>1, <2>2
<1> QED
  BY <1>7, <1>9 DEF TitlesGoOn, TitleInv

(* The probe answers, or its time is up.                                   *)
LEMMA TitleSet ==
    ASSUME TitleInv, NEW c \in Title!Slots, Title!TextLayout(c) \/ Title!Timeout(c)
    PROVE  TitlesGoOn
<1> DEFINE probed == [how |-> "probe", key |-> titleKey[c]]
           guessed == [how |-> "approximate", key |-> titleKey[c]]
<1>1. /\ titleKey[c] \in TitleKeys
      /\ probed \in [how : {"probe", "approximate"}, key : TitleKeys]
      /\ guessed \in [how : {"probe", "approximate"}, key : TitleKeys]
      /\ probed # Title!NoLayout /\ guessed # Title!NoLayout
  BY DEF TitleInv, Title!NoLayout
<1>2. CASE Title!TextLayout(c)
  <2> DEFINE no == FALSE
  <2>1. /\ probing' = [probing EXCEPT ![c] = no] /\ cached' = cached \cup {titleKey[c]}
        /\ shownTitle' = IF titleKey[c] \in cached \/ fallbackUp[c] THEN shownTitle
                         ELSE [shownTitle EXCEPT ![c] = probed]
        /\ titleKey' = titleKey /\ fallbackUp' = fallbackUp /\ waiting' = waiting
    BY <1>2 DEF Title!TextLayout
  <2>2. no \in BOOLEAN
    OBVIOUS
  <2> HIDE DEF no, probed, guessed
  <2>3. /\ titleKey' \in [Title!Slots -> TitleKeys]
        /\ shownTitle' \in [Title!Slots -> {Title!NoLayout} \cup
                              [how : {"probe", "approximate"}, key : TitleKeys]]
        /\ fallbackUp' \in [Title!Slots -> BOOLEAN] /\ probing' \in [Title!Slots -> BOOLEAN]
        /\ waiting' \in [Title!Slots -> BOOLEAN]
    BY <1>1, <2>1, <2>2 DEF TitleInv
  <2>4. /\ shownTitle'[c] = IF titleKey[c] \in cached \/ fallbackUp[c] THEN shownTitle[c]
                            ELSE probed
        /\ \A k \in Title!Slots \ {c} : shownTitle'[k] = shownTitle[k]
    BY <2>1 DEF TitleInv
  <2>5. ASSUME NEW k \in Title!Slots
        PROVE  /\ shownTitle'[k] # Title!NoLayout => titleKey'[k] \in cached' \/ fallbackUp'[k]
               /\ shownTitle'[k] = Title!NoLayout /\ titleKey'[k][2] > 0 =>
                    waiting'[k] \/ titleKey'[k] \in cached'
               /\ TitleKept(k)
    <3>1. CASE k = c
      BY <1>1, <2>1, <2>4, <3>1 DEF TitleKept, TitleInv
    <3>2. CASE k # c
      BY <2>1, <2>4, <3>2 DEF TitleKept, TitleInv
    <3> QED
      BY <3>1, <3>2
  <2> QED
    BY <2>3, <2>5 DEF TitlesGoOn, TitleInv
<1>3. CASE Title!Timeout(c)
  <2> DEFINE falls == titleKey[c] \notin cached /\ shownTitle[c] = Title!NoLayout
             up == fallbackUp[c] \/ falls
             no == FALSE
  <2>1. /\ waiting' = [waiting EXCEPT ![c] = no]
        /\ shownTitle' = IF falls THEN [shownTitle EXCEPT ![c] = guessed] ELSE shownTitle
        /\ fallbackUp' = [fallbackUp EXCEPT ![c] = up]
        /\ titleKey' = titleKey /\ cached' = cached /\ probing' = probing
    BY <1>3 DEF Title!Timeout
  <2>2. /\ no \in BOOLEAN /\ up \in BOOLEAN /\ (falls => up) /\ (fallbackUp[c] => up)
        /\ ~falls => titleKey[c] \in cached \/ shownTitle[c] # Title!NoLayout
    BY DEF TitleInv
  <2>3. falls => shownTitle[c] = Title!NoLayout
    OBVIOUS
  <2> HIDE DEF no, up, falls, probed, guessed
  <2>4. /\ titleKey' \in [Title!Slots -> TitleKeys]
        /\ shownTitle' \in [Title!Slots -> {Title!NoLayout} \cup
                              [how : {"probe", "approximate"}, key : TitleKeys]]
        /\ fallbackUp' \in [Title!Slots -> BOOLEAN] /\ probing' \in [Title!Slots -> BOOLEAN]
        /\ waiting' \in [Title!Slots -> BOOLEAN]
    BY <1>1, <2>1, <2>2 DEF TitleInv
  <2>5. /\ shownTitle'[c] = IF falls THEN guessed ELSE shownTitle[c]
        /\ fallbackUp'[c] = up
        /\ \A k \in Title!Slots \ {c} :
             /\ shownTitle'[k] = shownTitle[k] /\ fallbackUp'[k] = fallbackUp[k]
             /\ waiting'[k] = waiting[k]
    BY <2>1 DEF TitleInv
  <2>6. ASSUME NEW k \in Title!Slots
        PROVE  /\ shownTitle'[k] # Title!NoLayout => titleKey'[k] \in cached' \/ fallbackUp'[k]
               /\ shownTitle'[k] = Title!NoLayout /\ titleKey'[k][2] > 0 =>
                    waiting'[k] \/ titleKey'[k] \in cached'
               /\ TitleKept(k)
    <3>1. CASE k = c
      BY <1>1, <2>1, <2>2, <2>3, <2>5, <3>1 DEF TitleKept, TitleInv
    <3>2. CASE k # c
      BY <2>1, <2>5, <3>2 DEF TitleKept, TitleInv
    <3> QED
      BY <3>1, <3>2
  <2> QED
    BY <2>4, <2>6 DEF TitlesGoOn, TitleInv
<1> QED
  BY <1>2, <1>3

(* Every step keeps the invariant, and what is on screen.                  *)
LEMMA TitleStep == ASSUME TitleInv, [ClientNext]_clientVars PROVE TitlesGoOn
<1>1. CASE UNCHANGED titleVars
  <2>1. UNCHANGED <<titleKey, cached, shownTitle, fallbackUp, probing, waiting>>
    BY <1>1 DEF titleVars
  <2> QED
    BY <2>1 DEF TitlesGoOn, TitleKept, TitleInv
<1>2. ASSUME NEW c \in Title!Slots, Title!Rekey(c) \/ Title!TextLayout(c) \/ Title!Timeout(c)
      PROVE  TitlesGoOn
  BY <1>2, TitleRekeyed, TitleSet
<1> QED
  BY <1>1, <1>2, TitleSteps DEF Title!Next

-----------------------------------------------------------------------------
(* The pattern *)

(* The number of elements, as the pattern counts them.                     *)
LEMMA PatternCounts == ASSUME NEW S PROVE Pattern!Cardinality(S) = Cardinality(S)
  BY DEF Pattern!Cardinality, Cardinality

(* In a finite set that is ranked by a measure, and by itself where that   *)
(* is the same, every rank is somebody's.                                  *)
Ahead(d, e, c) == d[e] > d[c] \/ (d[e] = d[c] /\ e < c)

(* In a finite set that is ranked without ties, every rank is taken.       *)
LEMMA RankIsTaken ==
    ASSUME NEW S \in SUBSET Int, IsFiniteSet(S), NEW d \in [S -> Int],
           NEW k \in 0..(Cardinality(S) - 1)
    PROVE  \E c \in S : Cardinality({e \in S : Ahead(d, e, c)}) = k
<1> DEFINE Those(c) == {e \in S : Ahead(d, e, c)}
           n == Cardinality(S)
           T == 0..(n - 1)
           f == [c \in S |-> Cardinality(Those(c))]
<1>1. n \in Nat
  BY FS_CardinalityType
<1>2. ASSUME NEW c \in S
      PROVE  IsFiniteSet(Those(c)) /\ Cardinality(Those(c)) \in T
  <2>1. Those(c) \subseteq S /\ c \notin Those(c)
    BY DEF Ahead
  <2>2. IsFiniteSet(Those(c)) /\ Cardinality(Those(c)) <= n
        /\ (Cardinality(Those(c)) = n => Those(c) = S)
    <3> HIDE DEF Those
    <3> QED
      BY <2>1, FS_Subset
  <2>3. Cardinality(Those(c)) \in Nat
    <3> HIDE DEF Those
    <3> QED
      BY <2>2, FS_CardinalityType
  <2>4. Cardinality(Those(c)) # n
    BY <2>1, <2>2
  <2> HIDE DEF Those, n
  <2> QED
    BY <1>1, <2>2, <2>3, <2>4
<1>3. ASSUME NEW c \in S, NEW e \in S, Ahead(d, e, c)
      PROVE  Cardinality(Those(e)) # Cardinality(Those(c))
  <2>1. Those(e) \subseteq Those(c)
    <3> SUFFICES ASSUME NEW u \in S, Ahead(d, u, e) PROVE Ahead(d, u, c)
      OBVIOUS
    <3>1. d[u] \in Int /\ d[e] \in Int /\ d[c] \in Int /\ u \in Int /\ e \in Int /\ c \in Int
      OBVIOUS
    <3> QED
      BY <1>3, <3>1 DEF Ahead
  <2>2. e \in Those(c) /\ e \notin Those(e)
    BY <1>3 DEF Ahead
  <2>3. IsFiniteSet(Those(c))
    BY <1>2
  <2> HIDE DEF Those
  <2> QED
    BY <2>1, <2>2, <2>3, FS_Subset
<1>4. \A c, e \in S : c # e => Ahead(d, e, c) \/ Ahead(d, c, e)
  BY DEF Ahead
<1>5. f \in Injection(S, T)
  <2>1. f \in [S -> T]
    BY <1>2
  <2>2. \A c, e \in S : f[c] = f[e] => c = e
    <3> SUFFICES ASSUME NEW c \in S, NEW e \in S, c # e PROVE f[c] # f[e]
      OBVIOUS
    <3>1. f[c] = Cardinality(Those(c)) /\ f[e] = Cardinality(Those(e))
      OBVIOUS
    <3> HIDE DEF f, Those
    <3> QED
      BY <1>3, <1>4, <3>1
  <2> HIDE DEF f, T
  <2> QED
    BY <2>1, <2>2 DEF Injection, IsInjective
<1>6. IsFiniteSet(T) /\ Cardinality(T) = n
  BY <1>1, FS_Interval
<1>7. f \in Surjection(S, T)
  <2> HIDE DEF f, T
  <2> QED
    BY <1>5, <1>6, FS_Injection DEF n
<1>8. \E c \in S : f[c] = k
  <2> HIDE DEF f
  <2> QED
    BY <1>7 DEF Surjection
<1> QED
  BY <1>8

(* What the pattern is made of: three variants; the boxes and centres of   *)
(* their motifs are integers, and a connector joins motifs of its variant. *)
Variants == 1..3

(* The motifs of a variant are boxes, and its connectors join its motifs.  *)
LEMMA PatternIsMade ==
    ASSUME NEW v \in Variants
    PROVE  /\ DOMAIN Pattern!Connectors[v] \subseteq 1..10
           /\ \A c \in DOMAIN Pattern!Connectors[v] :
                /\ 1 \in DOMAIN Pattern!Connectors[v][c]
                /\ \A i \in DOMAIN Pattern!Connectors[v][c] :
                     Pattern!Connectors[v][c][i] \in DOMAIN Pattern!Motifs[v]
           /\ \A m \in DOMAIN Pattern!Motifs[v] : \A k \in 1..6 :
                Pattern!Motifs[v][m][k] \in Int
<1>1. CASE v = 1
  <2>1. DOMAIN Pattern!Motifs[1] = 1..12
    BY DEF Pattern!Motifs
  <2>2. \A m \in DOMAIN Pattern!Motifs[1] : \A k \in 1..6 : Pattern!Motifs[1][m][k] \in Int
    BY DEF Pattern!Motifs
  <2>3. DOMAIN Pattern!Connectors[1] = 1..10
    BY DEF Pattern!Connectors
  <2>4. \A c \in DOMAIN Pattern!Connectors[1] :
          /\ 1 \in DOMAIN Pattern!Connectors[1][c]
          /\ \A i \in DOMAIN Pattern!Connectors[1][c] : Pattern!Connectors[1][c][i] \in 1..12
    BY DEF Pattern!Connectors
  <2> QED
    BY <1>1, <2>1, <2>2, <2>3, <2>4
<1>2. CASE v = 2
  <2>1. DOMAIN Pattern!Motifs[2] = 1..10
    BY DEF Pattern!Motifs
  <2>2. \A m \in DOMAIN Pattern!Motifs[2] : \A k \in 1..6 : Pattern!Motifs[2][m][k] \in Int
    BY DEF Pattern!Motifs
  <2>3. DOMAIN Pattern!Connectors[2] \subseteq 1..10
    BY DEF Pattern!Connectors
  <2>4. \A c \in DOMAIN Pattern!Connectors[2] :
          /\ 1 \in DOMAIN Pattern!Connectors[2][c]
          /\ \A i \in DOMAIN Pattern!Connectors[2][c] : Pattern!Connectors[2][c][i] \in 1..10
    BY DEF Pattern!Connectors
  <2> QED
    BY <1>2, <2>1, <2>2, <2>3, <2>4
<1>3. CASE v = 3
  <2>1. DOMAIN Pattern!Motifs[3] = 1..9
    BY DEF Pattern!Motifs
  <2>2. \A m \in DOMAIN Pattern!Motifs[3] : \A k \in 1..6 : Pattern!Motifs[3][m][k] \in Int
    BY DEF Pattern!Motifs
  <2>3. DOMAIN Pattern!Connectors[3] \subseteq 1..10
    BY DEF Pattern!Connectors
  <2>4. \A c \in DOMAIN Pattern!Connectors[3] :
          /\ 1 \in DOMAIN Pattern!Connectors[3][c]
          /\ \A i \in DOMAIN Pattern!Connectors[3][c] : Pattern!Connectors[3][c][i] \in 1..9
    BY DEF Pattern!Connectors
  <2> QED
    BY <1>3, <2>1, <2>2, <2>3, <2>4
<1> QED
  BY <1>1, <1>2, <1>3 DEF Variants

(* What a layer shows.                                                     *)
IsLayer(l) == l \in [hash : Hashes, face : Faces, title : TitleBoxes \cup {NoTitle}]

(* What is derived of a layer: its variant and its scale.                  *)
LEMMA LayerIs ==
    ASSUME NEW l, IsLayer(l)
    PROVE  /\ Pattern!variantFor(l) \in Variants /\ l.hash \in Nat
           /\ l.face[1] \in Nat \ {0} /\ l.face[2] \in Nat \ {0}
           /\ Pattern!ScaleNum(l) \in Nat \ {0} /\ Pattern!ScaleDen(l) \in Nat \ {0}
           /\ Pattern!Fine(l) \in Nat \ {0}
           /\ l.title # NoTitle => \A k \in 1..4 : l.title[k] \in Int
<1>1. /\ l.hash \in Nat /\ l.face[1] \in Nat \ {0} /\ l.face[2] \in Nat \ {0}
      /\ l.title # NoTitle => \A k \in 1..4 : l.title[k] \in Int
  <2>1. /\ Hashes \subseteq Nat
        /\ \A face0 \in Faces : face0[1] \in Nat \ {0} /\ face0[2] \in Nat \ {0}
        /\ \A box0 \in TitleBoxes : \A side \in 1..4 : box0[side] \in Int
    BY ClientAssumption
  <2>2. l.hash \in Hashes /\ l.face \in Faces /\ l.title \in TitleBoxes \cup {NoTitle}
    BY DEF IsLayer
  <2> QED
    BY <2>1, <2>2
<1>2. Pattern!variantFor(l) \in Variants
  <2> DEFINE h == l.hash
  <2>1. h \in Nat
    BY <1>1
  <2> HIDE DEF h
  <2>2. (h % 3) + 1 \in 1..3
    BY <2>1
  <2> QED
    BY <2>2 DEF Pattern!variantFor, Variants, h
<1>3. Pattern!ScaleNum(l) \in Nat \ {0} /\ Pattern!ScaleDen(l) \in Nat \ {0}
  BY <1>1 DEF Pattern!ScaleNum, Pattern!ScaleDen, Pattern!CARD_W, Pattern!CARD_H
<1>4. Pattern!Fine(l) \in Nat \ {0}
  BY <1>3 DEF Pattern!Fine
<1> QED
  BY <1>1, <1>2, <1>3, <1>4

(* The area to be kept clear is one of integers.                           *)
LEMMA ClearIs ==
    ASSUME NEW l, IsLayer(l) PROVE \A k \in 1..4 : Pattern!clearArea(l)[k] \in Int
<1> DEFINE num == Pattern!ScaleNum(l)
           den == Pattern!ScaleDen(l)
           r == Pattern!expandRect(l.title)
<1>1. /\ num \in Int /\ den \in Int /\ Pattern!Fine(l) \in Int /\ l.face[1] \in Int
      /\ l.face[2] \in Int /\ Pattern!variantFor(l) \in Variants
  BY LayerIs
<1>2. CASE l.title = NoTitle
  <2>1. \A v \in Variants : \A k \in 1..4 : Pattern!TitleClear[v][k] \in Int
    BY DEF Variants, Pattern!TitleClear
  <2>2. \A k \in 1..4 : Pattern!TitleClear[Pattern!variantFor(l)][k] \in Int
    BY <1>1, <2>1
  <2>3. \A k \in 1..4 : Pattern!TitleClear[Pattern!variantFor(l)][k] * Pattern!Fine(l) \in Int
    BY <1>1, <2>2
  <2> QED
    BY <1>2, <2>3 DEF Pattern!clearArea, Pattern!defaultTitleClear
<1>3. CASE l.title # NoTitle
  <2>1. \A k \in 1..4 : l.title[k] \in Int
    BY <1>3, LayerIs
  <2>2. \A k \in 1..4 : r[k] \in Int
    BY <2>1 DEF Pattern!expandRect, Pattern!MARGIN
  <2> HIDE DEF r, num, den
  <2>3. ASSUME NEW k \in 1..4 PROVE Pattern!faceRectToCardUnits(r, l)[k] \in Int
    <3> DEFINE side == IF k \in {1, 3} THEN l.face[1] ELSE l.face[2]
               card0 == IF k \in {1, 3} THEN 358 ELSE 560
               rk == r[k]
    <3>1. side \in Int /\ card0 \in Int /\ rk \in Int
      BY <1>1, <2>2
    <3>2. Pattern!faceRectToCardUnits(r, l)[k] = 2 * rk * den - side * den + card0 * num
      BY DEF Pattern!faceRectToCardUnits, num, den, Pattern!CARD_W, Pattern!CARD_H
    <3> HIDE DEF side, card0, rk
    <3> QED
      BY <1>1, <3>1, <3>2
  <2> QED
    BY <1>3, <2>3 DEF Pattern!clearArea, r
<1> QED
  BY <1>2, <1>3

(* The connector that glows is one of those that are seen.                 *)
LEMMA PickIsSeen ==
    ASSUME NEW l, IsLayer(l), Pattern!pickPulseConnectorId(l) # 0
    PROVE  Pattern!pickPulseConnectorId(l) \in Pattern!listVisiblePulseConnectors(l)
<1> DEFINE S == Pattern!listVisiblePulseConnectors(l)
           clear == Pattern!clearArea(l)
           v == Pattern!variantFor(l)
           dist == [c \in S |-> Pattern!DistanceOf(c, l, clear)]
           n == Cardinality(S)
           top == IF n > 8 THEN 8 ELSE n
           k == l.hash % top
<1>1. S \subseteq DOMAIN Pattern!Connectors[v]
  BY DEF Pattern!listVisiblePulseConnectors
<1>2. v \in Variants /\ l.hash \in Nat /\ Pattern!Fine(l) \in Nat \ {0}
  BY LayerIs
<1>3. S \subseteq 1..10
  BY <1>1, <1>2, PatternIsMade
<1>4. S \in SUBSET Int /\ IsFiniteSet(S) /\ n \in Nat
  <2> HIDE DEF S
  <2>1. IsFiniteSet(S)
    <3> DEFINE a == 1
               b == 10
    <3>1. a \in Int /\ b \in Int /\ S \subseteq a..b
      BY <1>3
    <3> HIDE DEF a, b
    <3> QED
      BY <3>1, FS_Interval, FS_Subset
  <2>2. Cardinality(S) \in Nat
    BY <2>1, FS_CardinalityType
  <2> QED
    BY <1>3, <2>1, <2>2
<1>5. \A c \in S : Pattern!DistanceOf(c, l, clear) \in Int
  <2> SUFFICES ASSUME NEW c \in S PROVE Pattern!DistanceOf(c, l, clear) \in Int
    OBVIOUS
  <2> DEFINE start0 == Pattern!Motifs[v][Pattern!Connectors[v][c][1]]
             fine == Pattern!Fine(l)
             dx == start0[5] - (clear[1] + clear[3]) \div (2 * fine)
             dy == start0[6] - (clear[2] + clear[4]) \div (2 * fine)
  <2>1. start0[5] \in Int /\ start0[6] \in Int
    <3>1. Pattern!Connectors[v][c][1] \in DOMAIN Pattern!Motifs[v]
      BY <1>1, <1>2, PatternIsMade
    <3> QED
      BY <1>2, <3>1, PatternIsMade
  <2>2. clear[1] \in Int /\ clear[2] \in Int /\ clear[3] \in Int /\ clear[4] \in Int
    BY ClearIs
  <2>3. fine \in Nat \ {0}
    BY <1>2
  <2>4. Pattern!DistanceOf(c, l, clear) = dx * dx + dy * dy
    BY DEF Pattern!DistanceOf
  <2> HIDE DEF start0, clear, fine
  <2>5. dx \in Int /\ dy \in Int
    <3>1. 2 * fine \in Nat \ {0} /\ clear[1] + clear[3] \in Int /\ clear[2] + clear[4] \in Int
      BY <2>2, <2>3
    <3>2. (clear[1] + clear[3]) \div (2 * fine) \in Int
          /\ (clear[2] + clear[4]) \div (2 * fine) \in Int
      BY <3>1
    <3> QED
      BY <2>1, <3>2
  <2> HIDE DEF dx, dy
  <2> QED
    BY <2>4, <2>5
<1>6. Pattern!pickPulseConnectorId(l) =
        IF top = 0 THEN 0
        ELSE CHOOSE c \in S : Pattern!Cardinality({e \in S : Ahead(dist, e, c)}) = k
  <2> DEFINE n0 == Pattern!Cardinality(S)
             top0 == IF n0 > 8 THEN 8 ELSE n0
  <2>1. Pattern!pickPulseConnectorId(l) =
          IF top0 = 0 THEN 0
          ELSE CHOOSE c \in S : Pattern!Cardinality({e \in S : Ahead(dist, e, c)})
                                = l.hash % top0
    BY DEF Pattern!pickPulseConnectorId, Ahead
  <2>2. n0 = n
    BY PatternCounts
  <2> HIDE DEF S, dist, n, n0
  <2> QED
    BY <2>1, <2>2
<1>7. dist \in [S -> Int]
  BY <1>5
<1>8. top # 0
  BY <1>6
<1> HIDE DEF S, dist
<1>9. k \in 0..(n - 1)
  <2> DEFINE h == l.hash
  <2>1. h \in Nat /\ top \in Nat \ {0} /\ top <= n
    BY <1>2, <1>4, <1>8
  <2> HIDE DEF h, top, n
  <2>2. h % top \in 0..(top - 1)
    BY <2>1
  <2> QED
    BY <1>4, <2>1, <2>2 DEF h
<1>10. \E c \in S : Cardinality({e \in S : Ahead(dist, e, c)}) = k
  <2> HIDE DEF k
  <2> QED
    BY <1>4, <1>7, <1>9, RankIsTaken
<1> HIDE DEF k, top
<1>11. \E c \in S : Pattern!Cardinality({e \in S : Ahead(dist, e, c)}) = k
  BY <1>10, PatternCounts
<1>12. Pattern!pickPulseConnectorId(l) \in S
  BY <1>6, <1>8, <1>11
<1> QED
  BY <1>12 DEF S

(* The inductive invariant of the pattern: the breathing is what the last  *)
(* effect made of it, and goes on past the first delay only after a gate   *)
(* that was open all the while.                                            *)
PatternInv ==
    /\ IsLayer(layer) /\ connector = Pattern!pickPulseConnectorId(layer)
    /\ gate \in [settled : BOOLEAN, dragging : BOOLEAN, blocked : BOOLEAN,
                 scrolling : BOOLEAN]
    /\ calm \in BOOLEAN
    /\ breathOf[1] \in BOOLEAN
    /\ breath \in {"off", "delayed", "breathing", "pausing"}
    /\ breath # "off" <=> breathOf[1] /\ breathOf[2] # 0
    /\ breath \in {"breathing", "pausing"} /\ Pattern!connectorPulseAllowed => calm

(* One step of the pattern is a step of its module.                        *)
LEMMA PatternSteps == [ClientNext]_clientVars => Pattern!Next \/ UNCHANGED patternVars
  BY DEF ClientNext, OthersRest, Keeps, clientVars

(* At the start nothing breathes.                                          *)
LEMMA PatternStarts == ClientInit => PatternInv
<1> SUFFICES ASSUME ClientInit PROVE PatternInv
  OBVIOUS
<1> DEFINE h0 == CHOOSE h \in Hashes : TRUE
           f0 == CHOOSE f \in Faces : TRUE
<1>1. /\ layer = [hash |-> h0, face |-> f0, title |-> NoTitle]
      /\ connector = Pattern!pickPulseConnectorId(layer)
      /\ gate = Pattern!Still /\ breathOf = <<FALSE, 0>> /\ breath = "off" /\ calm = FALSE
  BY DEF ClientInit, Pattern!Init
<1>2. h0 \in Hashes /\ f0 \in Faces
  BY ClientAssumption
<1> HIDE DEF h0, f0
<1>3. IsLayer(layer)
  BY <1>1, <1>2 DEF IsLayer
<1>4. gate \in [settled : BOOLEAN, dragging : BOOLEAN, blocked : BOOLEAN, scrolling : BOOLEAN]
  BY <1>1 DEF Pattern!Still
<1>5. breathOf[1] = FALSE
  BY <1>1
<1> QED
  BY <1>1, <1>3, <1>4, <1>5 DEF PatternInv

(* A render: the effects of the one before it have run.                    *)
LEMMA PatternRendered ==
    ASSUME PatternInv, Pattern!Rendered, IsLayer(layer'),
           connector' = Pattern!pickPulseConnectorId(layer'),
           gate' \in [settled : BOOLEAN, dragging : BOOLEAN, blocked : BOOLEAN,
                      scrolling : BOOLEAN]
    PROVE  PatternInv'
<1> DEFINE open == Pattern!connectorPulseAllowed
<1>1. /\ breathOf = <<open, connector>> /\ calm' = (calm /\ open')
      /\ breathOf' = breathOf /\ breath' = breath
  BY DEF Pattern!Rendered, Pattern!Caught, Pattern!Deps
<1>2. /\ breath \in {"breathing", "pausing"} /\ open => calm
      /\ breath # "off" <=> breathOf[1] /\ breathOf[2] # 0
      /\ calm \in BOOLEAN /\ breathOf[1] \in BOOLEAN
      /\ breath \in {"off", "delayed", "breathing", "pausing"}
  BY DEF PatternInv
<1>3. breathOf[1] = open
  BY <1>1
<1> HIDE DEF open
<1>4. calm' \in BOOLEAN
  BY <1>1
<1>5. breath' \in {"breathing", "pausing"} /\ open' => calm'
  BY <1>1, <1>2, <1>3
<1> QED
  BY <1>1, <1>2, <1>4, <1>5 DEF PatternInv, open

(* Every step keeps the invariant of the pattern.                          *)
LEMMA PatternStep == ASSUME PatternInv, [ClientNext]_clientVars PROVE PatternInv'
<1> DEFINE Gates == [settled : BOOLEAN, dragging : BOOLEAN, blocked : BOOLEAN,
                     scrolling : BOOLEAN]
<1>0. IsLayer(layer) /\ gate \in Gates /\ connector = Pattern!pickPulseConnectorId(layer)
  BY DEF PatternInv
<1>1. CASE UNCHANGED patternVars
  <2>1. UNCHANGED <<layer, connector, gate, breathOf, breath, calm>>
    BY <1>1 DEF patternVars
  <2> QED
    BY <2>1 DEF PatternInv, Pattern!connectorPulseAllowed
<1>2. ASSUME NEW h \in Hashes, Pattern!Deals(h) \/ Pattern!Swaps(h) PROVE PatternInv'
  <2>1. /\ layer' = [layer EXCEPT !.hash = h, !.title = NoTitle]
        /\ connector' = Pattern!pickPulseConnectorId(layer') /\ Pattern!Rendered
    BY <1>2 DEF Pattern!Deals, Pattern!Swaps, Pattern!Shows
  <2>2. IsLayer(layer')
    BY <1>0, <2>1 DEF IsLayer
  <2>3. gate' \in Gates
    BY <1>0, <1>2 DEF Pattern!Deals, Pattern!Swaps
  <2> QED
    BY <2>1, <2>2, <2>3, PatternRendered
<1>3. ASSUME NEW f \in Faces, NEW t \in TitleBoxes \cup {NoTitle}, Pattern!LaidOut(f, t)
      PROVE  PatternInv'
  <2>1. /\ layer' = [layer EXCEPT !.face = f, !.title = t]
        /\ connector' = Pattern!pickPulseConnectorId(layer') /\ Pattern!Rendered
        /\ gate' = gate
    BY <1>3 DEF Pattern!LaidOut, Pattern!Shows
  <2>2. IsLayer(layer')
    BY <1>0, <2>1 DEF IsLayer
  <2> QED
    BY <1>0, <2>1, <2>2, PatternRendered
<1>4. ASSUME Pattern!Settles \/ \E flag \in {"dragging", "blocked", "scrolling"} :
                                  Pattern!GateMoves(flag)
      PROVE  PatternInv'
  <2>1. layer' = layer /\ connector' = connector /\ Pattern!Rendered
    BY <1>4 DEF Pattern!Settles, Pattern!GateMoves, Pattern!layerVars
  <2>2. gate' \in Gates
    <3>1. CASE Pattern!Settles
      BY <1>0, <3>1 DEF Pattern!Settles
    <3>2. ASSUME NEW flag \in {"dragging", "blocked", "scrolling"}, Pattern!GateMoves(flag)
          PROVE  gate' \in Gates
      <4> DEFINE not == ~gate[flag]
      <4>1. gate' = [gate EXCEPT ![flag] = not] /\ not \in BOOLEAN
        BY <3>2 DEF Pattern!GateMoves
      <4> HIDE DEF not
      <4> QED
        BY <1>0, <4>1
    <3> QED
      BY <1>4, <3>1, <3>2
  <2> QED
    BY <1>0, <2>1, <2>2, PatternRendered
<1>5. CASE Pattern!RunEffect
  <2> DEFINE open == Pattern!connectorPulseAllowed
  <2>1. /\ breathOf' = <<open, connector>>
        /\ breath' = IF open /\ connector # 0 THEN "delayed" ELSE "off"
        /\ UNCHANGED <<layer, connector, gate, calm>>
    BY <1>5 DEF Pattern!RunEffect, Pattern!Deps, Pattern!layerVars
  <2>2. open \in BOOLEAN
    BY <1>0 DEF Pattern!connectorPulseAllowed
  <2> HIDE DEF open
  <2>3. breathOf'[1] = open /\ breathOf'[2] = connector
    BY <2>1
  <2>4. breath' # "off" <=> breathOf'[1] /\ breathOf'[2] # 0
    BY <2>1, <2>3
  <2>5. breath' \in {"off", "delayed"}
    BY <2>1
  <2> QED
    BY <2>1, <2>2, <2>3, <2>4, <2>5 DEF PatternInv
<1>6. CASE Pattern!Breathes
  <2>1. /\ breath # "off"
        /\ breath' = IF breath = "breathing" THEN "pausing" ELSE "breathing"
        /\ calm' = (calm \/ (breath = "delayed" /\ Pattern!connectorPulseAllowed))
        /\ UNCHANGED <<layer, connector, gate, breathOf>>
    BY <1>6 DEF Pattern!Breathes, Pattern!layerVars
  <2>2. Pattern!connectorPulseAllowed' <=> Pattern!connectorPulseAllowed
    BY <2>1 DEF Pattern!connectorPulseAllowed
  <2>3. breath \in {"delayed", "breathing", "pausing"}
    BY <2>1 DEF PatternInv
  <2> QED
    BY <2>1, <2>2, <2>3 DEF PatternInv
<1> QED
  BY <1>1, <1>2, <1>3, <1>4, <1>5, <1>6, PatternSteps DEF Pattern!Next

(* A motif that is seen keeps its margin to the title.                     *)
LEMMA SeenKeepsMargin ==
    ASSUME NEW l, IsLayer(l), l.title # NoTitle,
           NEW m \in DOMAIN Pattern!Motifs[Pattern!variantFor(l)],
           m \notin Pattern!hiddenMotifs(l)
    PROVE  Pattern!KeepsMargin(m, l)
<1> DEFINE box == Pattern!Motifs[Pattern!variantFor(l)][m]
           num == Pattern!ScaleNum(l)
           den == Pattern!ScaleDen(l)
           clear == Pattern!clearArea(l)
<1>1. box[1] \in Int /\ box[2] \in Int /\ box[3] \in Int /\ box[4] \in Int
  BY LayerIs, PatternIsMade
<1>2. /\ num \in Nat \ {0} /\ den \in Nat \ {0}
      /\ l.face[1] \in Nat \ {0} /\ l.face[2] \in Nat \ {0}
      /\ \A k \in 1..4 : l.title[k] \in Int
  BY LayerIs
<1>3. ~Pattern!rectsIntersect(box, clear, 2 * num)
  BY DEF Pattern!hiddenMotifs, Pattern!Fine
<1>4. /\ clear[1] = 2 * (l.title[1] - 16) * den - l.face[1] * den + 358 * num
      /\ clear[2] = 2 * (l.title[2] - 16) * den - l.face[2] * den + 560 * num
      /\ clear[3] = 2 * (l.title[3] + 16) * den - l.face[1] * den + 358 * num
      /\ clear[4] = 2 * (l.title[4] + 16) * den - l.face[2] * den + 560 * num
  BY DEF Pattern!clearArea, Pattern!faceRectToCardUnits, Pattern!expandRect, Pattern!MARGIN,
         Pattern!CARD_W, Pattern!CARD_H
<1> DEFINE Px(at, side, card0) == 2 * at * num + side * den - card0 * num
<1>5. \/ Px(box[1], l.face[1], 358) >= (2 * den) * (l.title[3] + 16)
      \/ Px(box[3], l.face[1], 358) <= (2 * den) * (l.title[1] - 16)
      \/ Px(box[2], l.face[2], 560) >= (2 * den) * (l.title[4] + 16)
      \/ Px(box[4], l.face[2], 560) <= (2 * den) * (l.title[2] - 16)
  <2>1. \/ box[1] * (2 * num) >= clear[3] \/ box[3] * (2 * num) <= clear[1]
        \/ box[2] * (2 * num) >= clear[4] \/ box[4] * (2 * num) <= clear[2]
    <3>1. \A k \in 1..4 : clear[k] \in Int
      BY ClearIs
    <3> HIDE DEF clear, box, num
    <3> QED
      BY <1>1, <1>2, <1>3, <3>1 DEF Pattern!rectsIntersect
  <2> HIDE DEF clear, box, num, den
  <2> QED
    BY <1>1, <1>2, <1>4, <2>1
<1> QED
  BY <1>5 DEF Pattern!KeepsMargin, Pattern!MARGIN, Pattern!CARD_W, Pattern!CARD_H

(* What is stated of the pattern.                                          *)
LEMMA PatternIs == PatternInv => Pattern!PatternIsSound
<1> SUFFICES ASSUME PatternInv PROVE Pattern!PatternIsSound
  OBVIOUS
<1>1. ASSUME Pattern!Glowing PROVE calm
  BY <1>1 DEF PatternInv, Pattern!Glowing
<1>2. ASSUME Pattern!Glowing, layer.title # NoTitle,
             NEW m \in Pattern!Range(Pattern!Connectors[Pattern!variantFor(layer)][connector])
      PROVE  Pattern!KeepsMargin(m, layer)
  <2> DEFINE v == Pattern!variantFor(layer)
             joined == Pattern!Connectors[v][connector]
  <2>1. connector # 0 /\ IsLayer(layer) /\ connector = Pattern!pickPulseConnectorId(layer)
    BY <1>2 DEF PatternInv, Pattern!Glowing
  <2>2. connector \in Pattern!listVisiblePulseConnectors(layer)
    BY <2>1, PickIsSeen
  <2>3. /\ connector \in DOMAIN Pattern!Connectors[v]
        /\ Pattern!Range(joined) \cap Pattern!hiddenMotifs(layer) = {}
    BY <2>2 DEF Pattern!listVisiblePulseConnectors
  <2>4. m \notin Pattern!hiddenMotifs(layer)
    BY <1>2, <2>3
  <2>5. v \in Variants
    BY <2>1, LayerIs
  <2>6. m \in DOMAIN Pattern!Motifs[v]
    <3>1. PICK i \in DOMAIN joined : m = joined[i]
      BY <1>2 DEF Pattern!Range
    <3> QED
      BY <2>3, <2>5, <3>1, PatternIsMade
  <2> QED
    BY <1>2, <2>1, <2>4, <2>6, SeenKeepsMargin
<1>3. ASSUME Pattern!Caught
      PROVE  breath # "off" <=> Pattern!connectorPulseAllowed /\ connector # 0
  <2>1. breathOf[1] = Pattern!connectorPulseAllowed /\ breathOf[2] = connector
    BY <1>3 DEF Pattern!Caught, Pattern!Deps
  <2> QED
    BY <2>1 DEF PatternInv
<1> QED
  BY <1>1, <1>2, <1>3 DEF Pattern!PatternIsSound

(* A title on screen is set once, and a hidden one is waited for; a card's *)
(* pattern glows only when it has lain still, and clear of its title --    *)
(* for all titles, all sizes of a face and all measured boxes              *)
(* (ConceptCard, PatternLayer, useConnectorPulse).                         *)
THEOREM FrontCorrect ==
    ClientSpec => /\ [](part = "pattern" => Pattern!PatternIsSound)
                  /\ Title!TitleNeverJumps
<1> DEFINE Kept == \A c \in Title!Slots : TitleKept(c)
<1>1. PatternInv => Pattern!PatternIsSound
  BY PatternIs
<1>2. PatternInv /\ [ClientNext]_clientVars => PatternInv'
  BY PatternStep
<1>3. TitleInv /\ [ClientNext]_clientVars => TitleInv' /\ Kept
  BY TitleStep DEF TitlesGoOn
<1>4. TitleInv /\ [ClientNext]_clientVars => [Kept]_(Title!frontTitleVars)
  BY <1>3
<1> QED
  BY <1>1, <1>2, <1>3, <1>4, PatternStarts, TitleStarts, PTL
     DEF ClientSpec, Title!TitleNeverJumps, TitleKept

-----------------------------------------------------------------------------
(* The cue of a reshuffle.                                                 *)

(* One step of the cue is a step of its module.                            *)
LEMMA CueSteps == [ClientNext]_clientVars => Reshuffle!Next \/ UNCHANGED reshuffleVars
  BY DEF ClientNext, OthersRest, Keeps, clientVars

(* A number that is animated, between 0 and 1: it is where it goes to when *)
(* nothing of the animation is left.                                       *)
IsAnimated(a) ==
    /\ a \in [at : 0..Full, to : 0..Full, left : Nat]
    /\ a.left = 0 => a.at = a.to

Numbers == {"gather", "deal", "reverse", "card", "cue"}
Parts == {"gather", "deal", "reverse", "card", "cue", "riffle"}

(* The deal, or the reverse: the card rises and the cue goes, in no more   *)
(* than so many ticks.                                                     *)
Rises(a, rest, within) ==
    /\ a.to = Full /\ a.left <= within /\ rest = Reshuffle!Still(0)
Rising(within) ==
    /\ anim.card.to = Full /\ anim.card.left <= within
    /\ anim.cue.to = 0 /\ anim.cue.left <= within
    /\ ~live => \/ Rises(anim.deal, anim.reverse, within)
                \/ Rises(anim.reverse, anim.deal, within)

(* The inductive invariant of the cue.                                     *)
Swaps == [age : Nat, reduced : BOOLEAN, answer : {None, "deal", "nothing"},
          settle : Nat \cup {None}]
CueTypes ==
    /\ live \in BOOLEAN /\ changed \in BOOLEAN
    /\ phase \in Reshuffle!Phase \cup {None}
    /\ cueSwap \in Swaps \cup {None}
    /\ (cueSwap = None) <=> (phase = None)
    /\ DOMAIN anim = Parts
    /\ \A number \in Numbers : IsAnimated(anim[number])
    /\ anim.riffle.at \in Int /\ anim.riffle.to \in Int /\ anim.riffle.left \in Nat

(* The steps of a number are at least as many as the ticks of its          *)
(* animation, so that each tick is seen.                                   *)
Smooth == {crossfadeMs, dealMs, reverseDealMs} \subseteq 0..Full

(* What a phase makes of the card and of the silhouettes.                  *)
CuePhases ==
    /\ phase \in {"gather", "shuffle"} =>
         /\ anim.deal.at = 0 /\ anim.deal.to = 0
         /\ anim.reverse.at = 0 /\ anim.reverse.to = 0
         /\ anim.cue.to = Full
    /\ anim.card.to = 0 => phase = "shuffle" \/ (phase = "gather" /\ live)
    /\ anim.card.to \in {0, Full}
    /\ phase \notin {None, "gather"} /\ ~live => anim.gather = Reshuffle!Still(Full)
    /\ phase = "gather" /\ ~live => anim.card = Reshuffle!Still(Full)
    /\ Smooth =>
         /\ anim.card.left <= Full /\ anim.cue.left <= Full
         /\ anim.card.at = 0 => /\ phase # None /\ anim.cue.at > 0
                                /\ anim.deal.at = 0 /\ anim.reverse.at = 0

(* Where a swap stands, whose setting of motion has not changed.           *)
CueRuns ==
  /\ cueSwap # None /\ cueSwap.settle # None => phase \in {"deal", "reverse"}
  /\ cueSwap # None /\ ~changed =>
      /\ cueSwap.reduced = live
      /\ IF cueSwap.settle # None THEN Rising(cueSwap.settle)
         ELSE /\ phase \in {"gather", "shuffle"}
              /\ phase = "gather" => cueSwap.age <= Reshuffle!reshuffleGatherMs(live)
              /\ phase = "shuffle" =>
                   /\ anim.card.to = 0
                   /\ anim.card.left = 0
                        \/ cueSwap.age + anim.card.left <= gatherMs + crossfadeMs

CueInv == CueTypes /\ CuePhases /\ CueRuns

(* Numbers that lie still, and that begin to go.                           *)
LEMMA StillIs ==
    ASSUME NEW v \in 0..Full
    PROVE  /\ IsAnimated(Reshuffle!Still(v))
           /\ Reshuffle!Still(v).at = v /\ Reshuffle!Still(v).to = v
           /\ Reshuffle!Still(v).left = 0
  BY DEF IsAnimated, Reshuffle!Still

(* And the same of one that begins to go.                                  *)
LEMMA GoesIs ==
    ASSUME NEW a, IsAnimated(a), NEW to0 \in 0..Full, NEW ms \in Nat
    PROVE  /\ IsAnimated(Reshuffle!Goes(a, to0, ms))
           /\ Reshuffle!Goes(a, to0, ms).to = to0 /\ Reshuffle!Goes(a, to0, ms).left = ms
           /\ Reshuffle!Goes(a, to0, ms).at = IF ms = 0 THEN to0 ELSE a.at
           /\ ms = 0 => Reshuffle!Goes(a, to0, ms) = Reshuffle!Still(to0)
<1>1. CASE ms = 0
  <2>1. Reshuffle!Goes(a, to0, ms) = Reshuffle!Still(to0)
    BY <1>1 DEF Reshuffle!Goes
  <2> QED
    BY <1>1, <2>1, StillIs
<1>2. CASE ms # 0
  <2>1. Reshuffle!Goes(a, to0, ms) = [at |-> a.at, to |-> to0, left |-> ms]
    BY <1>2 DEF Reshuffle!Goes
  <2>2. a.at \in 0..Full
    BY DEF IsAnimated
  <2> QED
    BY <1>2, <2>1, <2>2 DEF IsAnimated
<1> QED
  BY <1>1, <1>2

(* The frame of an animation: it goes on, and is there at its end.         *)
LEMMA FrameIs ==
    ASSUME NEW a, IsAnimated(a)
    PROVE  /\ IsAnimated(Reshuffle!Frame(a)) /\ Reshuffle!Frame(a).to = a.to
           /\ Reshuffle!Frame(a).left = IF a.left = 0 THEN 0 ELSE a.left - 1
           /\ a.to = a.at => Reshuffle!Frame(a).at = a.at
           /\ a.at <= a.to => a.at <= Reshuffle!Frame(a).at
           /\ a.left # 0 /\ a.left <= a.to - a.at => a.at < Reshuffle!Frame(a).at
           /\ a.left = 0 => Reshuffle!Frame(a) = a
<1>0. /\ a.at \in 0..Full /\ a.to \in 0..Full /\ a.left \in Nat /\ Full \in Nat
      /\ a.left = 0 => a.at = a.to
      /\ a = [at |-> a.at, to |-> a.to, left |-> a.left]
  BY ClientAssumption DEF IsAnimated
<1>1. CASE a.left = 0
  <2>1. Reshuffle!Frame(a) = a
    BY <1>1 DEF Reshuffle!Frame
  <2> QED
    BY <1>0, <1>1, <2>1
<1>2. CASE a.left # 0
  <2> DEFINE by == (a.to - a.at) \div a.left
  <2>1. /\ Reshuffle!Frame(a).at = a.at + by /\ Reshuffle!Frame(a).to = a.to
        /\ Reshuffle!Frame(a).left = a.left - 1
        /\ Reshuffle!Frame(a) = [at |-> a.at + by, to |-> a.to, left |-> a.left - 1]
    <3>1. Reshuffle!Frame(a) = [a EXCEPT !.at = a.at + by, !.left = a.left - 1]
      BY <1>2 DEF Reshuffle!Frame
    <3> HIDE DEF by
    <3> QED
      BY <1>0, <3>1
  <2>2. by \in Int /\ by * a.left <= a.to - a.at /\ a.to - a.at < by * a.left + a.left
    BY <1>0, <1>2
  <2> HIDE DEF by
  <2>3. a.left = 1 => a.at + by = a.to
    BY <1>0, <2>2
  <2>4. a.at <= a.to => 0 <= by /\ by <= a.to - a.at
    BY <1>0, <1>2, <2>2
  <2>5. a.to <= a.at => by <= 0 /\ a.to - a.at <= by
    BY <1>0, <1>2, <2>2
  <2>6. a.to = a.at => by = 0
    BY <1>0, <2>2, <2>4
  <2>7. a.left <= a.to - a.at => 0 < by
    BY <1>0, <1>2, <2>2
  <2>8. a.at + by \in 0..Full
    BY <1>0, <2>2, <2>4, <2>5
  <2> QED
    BY <1>0, <1>2, <2>1, <2>2, <2>3, <2>4, <2>6, <2>7, <2>8 DEF IsAnimated
<1> QED
  BY <1>1, <1>2

(* The times of the cue, and the value 1.                                  *)
LEMMA CueTimes ==
    /\ gatherMs \in Nat \ {0} /\ minCueMs \in Nat \ {0} /\ dealMs \in Nat \ {0}
    /\ reverseDealMs \in Nat \ {0} /\ crossfadeMs \in Nat \ {0}
    /\ riffleMoveMs \in Nat \ {0} /\ silhouettes \in Nat \ {0} /\ Full \in Nat \ {0}
    /\ None \notin Reshuffle!Phase
  BY ClientAssumption DEF Reshuffle!Phase

(* What a phase, once begun, makes of each number, from where it was.      *)
Was(number, rm) == IF phase = None THEN Reshuffle!AtRest(rm)[number] ELSE anim[number]

(* What a phase, once begun, makes of each number, from where it was.      *)
LEMMA PhaseMakes ==
    ASSUME NEW p \in Reshuffle!Phase, NEW rm \in BOOLEAN, Reshuffle!PhaseEffect(p, rm)
    PROVE  /\ phase' = p /\ DOMAIN anim' = Parts
           /\ anim'.riffle = IF phase = None THEN Reshuffle!Still(0) ELSE anim.riffle
           /\ \A number \in Numbers :
                LET t == Reshuffle!reshufflePhaseTargets(p, rm)[number] IN
                anim'[number] = Reshuffle!Goes(Was(number, rm), t[1], t[2])
<1> DEFINE from == IF phase = None THEN Reshuffle!AtRest(rm) ELSE anim
           t == Reshuffle!reshufflePhaseTargets(p, rm)
           a(number) == Reshuffle!Goes(from[number], t[number][1], t[number][2])
<1>1. /\ phase' = p
      /\ anim' = [gather |-> a("gather"), deal |-> a("deal"), reverse |-> a("reverse"),
                  card |-> a("card"), cue |-> a("cue"), riffle |-> from.riffle]
  BY CueTimes DEF Reshuffle!PhaseEffect
<1>2. /\ \A number \in Numbers : from[number] = Was(number, rm)
      /\ from.riffle = IF phase = None THEN Reshuffle!Still(0) ELSE anim.riffle
  BY DEF Was, Reshuffle!AtRest
<1> HIDE DEF from, t
<1>3. \A number \in Numbers : anim'[number] = a(number)
  BY <1>1 DEF Numbers
<1> QED
  BY <1>1, <1>2, <1>3 DEF Parts, t

(* Where the phases take each number, and in how many ticks.               *)
LEMMA TargetsAre ==
    ASSUME NEW p \in Reshuffle!Phase, NEW rm \in BOOLEAN
    PROVE  LET t == Reshuffle!reshufflePhaseTargets(p, rm) IN
           /\ \A number \in Numbers : t[number][1] \in 0..Full /\ t[number][2] \in Nat
           /\ p \in {"gather", "shuffle"} =>
                t.deal[1] = 0 /\ t.reverse[1] = 0 /\ t.cue[1] = Full
           /\ t.card[1] = IF p = "shuffle" \/ (p = "gather" /\ rm) THEN 0 ELSE Full
           /\ p \in {"deal", "reverse"} => t.cue[1] = 0
           /\ rm => /\ t.card[2] = crossfadeMs /\ t.cue[2] = crossfadeMs
                    /\ t.deal[1] = 0 /\ t.reverse[1] = 0
           /\ ~rm /\ p # "gather" => t.gather[1] = Full /\ t.gather[2] = 0
           /\ ~rm /\ p = "gather" => t.card[2] = 0
           /\ ~rm => /\ p \in {"gather", "shuffle"} => t.cue[2] = 0
                     /\ p # "deal" => t.deal[1] = 0 /\ t.deal[2] = 0
                     /\ p # "reverse" => t.reverse[1] = 0 /\ t.reverse[2] = 0
           /\ p = "shuffle" => t.card[2] = crossfadeMs
           /\ ~rm /\ p = "deal" =>
                /\ t.deal[1] = Full /\ t.deal[2] = dealMs
                /\ t.card[2] = dealMs /\ t.cue[2] = dealMs
           /\ ~rm /\ p = "reverse" =>
                /\ t.reverse[1] = Full /\ t.reverse[2] = reverseDealMs
                /\ t.card[2] = reverseDealMs /\ t.cue[2] = reverseDealMs
<1> DEFINE t == Reshuffle!reshufflePhaseTargets(p, rm)
           shows == p \in {"deal", "reverse"}
<1>0. (p \in {None, "deal", "reverse"}) <=> shows
  BY CueTimes
<1>1. CASE rm
  <2>1. /\ t.gather = <<0, 0>> /\ t.deal = <<0, crossfadeMs>>
        /\ t.reverse = <<0, crossfadeMs>>
    BY <1>1 DEF Reshuffle!reshufflePhaseTargets, Reshuffle!reshuffleDealMs,
                Reshuffle!reshuffleReverseMs
  <2>2. /\ t.card = <<IF p = "shuffle" \/ p = "gather" THEN 0 ELSE Full, crossfadeMs>>
        /\ t.cue = <<IF p = "shuffle" \/ p = "gather" THEN Full ELSE 0, crossfadeMs>>
    BY <1>0, <1>1 DEF Reshuffle!reshufflePhaseTargets, Reshuffle!Phase
  <2> HIDE DEF t
  <2>3. \A number \in Numbers : t[number][1] \in 0..Full /\ t[number][2] \in Nat
    BY <2>1, <2>2, CueTimes DEF Numbers
  <2>4. /\ p \in {"gather", "shuffle"} =>
             t.deal[1] = 0 /\ t.reverse[1] = 0 /\ t.cue[1] = Full
        /\ t.card[1] = IF p = "shuffle" \/ (p = "gather" /\ rm) THEN 0 ELSE Full
        /\ p \in {"deal", "reverse"} => t.cue[1] = 0
        /\ t.card[2] = crossfadeMs /\ t.cue[2] = crossfadeMs
        /\ t.deal[1] = 0 /\ t.reverse[1] = 0
    BY <1>1, <2>1, <2>2
  <2> QED
    BY <1>1, <2>3, <2>4 DEF t
<1>2. CASE ~rm
  <2>1. t.gather = <<Full, IF p = "gather" THEN gatherMs ELSE 0>>
    BY <1>2, CueTimes DEF Reshuffle!reshufflePhaseTargets
  <2>2. t.deal = IF p = "deal" THEN <<Full, dealMs>> ELSE <<0, 0>>
    BY <1>2 DEF Reshuffle!reshufflePhaseTargets
  <2>3. t.reverse = IF p = "reverse" THEN <<Full, reverseDealMs>> ELSE <<0, 0>>
    BY <1>2 DEF Reshuffle!reshufflePhaseTargets
  <2>4. t.card = <<IF p = "shuffle" THEN 0 ELSE Full,
                   CASE p = "shuffle" -> crossfadeMs [] p = "deal" -> dealMs
                     [] p = "reverse" -> reverseDealMs [] OTHER -> 0>>
    BY <1>2 DEF Reshuffle!reshufflePhaseTargets
  <2>5. t.cue = <<IF p \in {"gather", "shuffle"} THEN Full ELSE 0,
                  CASE p = "deal" -> dealMs [] p = "reverse" -> reverseDealMs
                    [] OTHER -> 0>>
    BY <1>2 DEF Reshuffle!reshufflePhaseTargets
  <2> HIDE DEF t
  <2>6. CASE p = "gather"
    BY <1>2, <2>1, <2>2, <2>3, <2>4, <2>5, <2>6, CueTimes DEF Numbers, t
  <2>7. CASE p = "shuffle"
    BY <1>2, <2>1, <2>2, <2>3, <2>4, <2>5, <2>7, CueTimes DEF Numbers, t
  <2>8. CASE p = "deal"
    BY <1>2, <2>1, <2>2, <2>3, <2>4, <2>5, <2>8, CueTimes DEF Numbers, t
  <2>9. CASE p = "reverse"
    BY <1>2, <2>1, <2>2, <2>3, <2>4, <2>5, <2>9, CueTimes DEF Numbers, t
  <2> QED
    BY <2>6, <2>7, <2>8, <2>9 DEF Reshuffle!Phase
<1> QED
  BY <1>1, <1>2

(* Each number is animated, and at rest before the first phase.            *)
LEMMA WasIs ==
    ASSUME CueTypes, NEW rm \in BOOLEAN, NEW number \in Numbers
    PROVE  /\ IsAnimated(Was(number, rm))
           /\ phase = None =>
                /\ number \in {"gather", "deal", "reverse"} => Was(number, rm).at = 0
                /\ number = "card" => Was(number, rm).at = Full
<1>1. CASE phase = None
  <2> DEFINE end == IF rm THEN 0 ELSE Full
  <2>1. Was(number, rm) = Reshuffle!AtRest(rm)[number]
    BY <1>1 DEF Was
  <2>2. /\ Reshuffle!AtRest(rm)["card"] = Reshuffle!Still(Full)
        /\ Reshuffle!AtRest(rm)["gather"] = Reshuffle!Still(0)
        /\ Reshuffle!AtRest(rm)["deal"] = Reshuffle!Still(0)
        /\ Reshuffle!AtRest(rm)["reverse"] = Reshuffle!Still(0)
        /\ Reshuffle!AtRest(rm)["cue"] = Reshuffle!Still(end)
    BY DEF Reshuffle!AtRest
  <2>3. 0 \in 0..Full /\ Full \in 0..Full /\ end \in 0..Full
    BY CueTimes
  <2> HIDE DEF end
  <2> QED
    BY <2>1, <2>2, <2>3, StillIs DEF Numbers
<1>2. CASE phase # None
  BY <1>2 DEF Was, CueTypes, Numbers
<1> QED
  BY <1>1, <1>2

(* A phase that is begun or taken up again leaves the numbers in order.    *)
LEMMA PhaseBegun ==
    ASSUME CueTypes, CuePhases, NEW p \in Reshuffle!Phase, NEW rm \in BOOLEAN,
           Reshuffle!PhaseEffect(p, rm), live' = rm,
           p \in {"gather", "shuffle"} => phase \in {None, "gather", "shuffle"},
           p = "gather" \/ phase # None
    PROVE  /\ phase' = p /\ DOMAIN anim' = Parts
           /\ \A number \in Numbers : IsAnimated(anim'[number])
           /\ anim'.riffle.at \in Int /\ anim'.riffle.to \in Int /\ anim'.riffle.left \in Nat
           /\ CuePhases'
<1> DEFINE t == Reshuffle!reshufflePhaseTargets(p, rm)
<1>1. /\ phase' = p /\ DOMAIN anim' = Parts
      /\ anim'.riffle = IF phase = None THEN Reshuffle!Still(0) ELSE anim.riffle
      /\ \A number \in Numbers :
           anim'[number] = Reshuffle!Goes(Was(number, rm), t[number][1], t[number][2])
  BY PhaseMakes
<1>2. \A number \in Numbers : t[number][1] \in 0..Full /\ t[number][2] \in Nat
  BY TargetsAre
<1>3. /\ p \in {"gather", "shuffle"} => t.deal[1] = 0 /\ t.reverse[1] = 0 /\ t.cue[1] = Full
      /\ t.card[1] = IF p = "shuffle" \/ (p = "gather" /\ rm) THEN 0 ELSE Full
      /\ p = "shuffle" => t.card[2] = crossfadeMs
      /\ rm => t.card[2] = crossfadeMs /\ t.cue[2] = crossfadeMs
  BY TargetsAre
<1>4. /\ ~rm /\ p # "gather" => t.gather[1] = Full /\ t.gather[2] = 0
      /\ ~rm /\ p = "gather" => t.card[2] = 0
      /\ ~rm /\ p \in {"gather", "shuffle"} => t.cue[2] = 0
      /\ ~rm /\ p = "deal" => t.card[2] = dealMs /\ t.cue[2] = dealMs
      /\ ~rm /\ p = "reverse" => t.card[2] = reverseDealMs /\ t.cue[2] = reverseDealMs
      /\ ~rm /\ p # "deal" => t.deal[1] = 0 /\ t.deal[2] = 0
      /\ ~rm /\ p # "reverse" => t.reverse[1] = 0 /\ t.reverse[2] = 0
  BY TargetsAre
<1> HIDE DEF t
<1>5. \A number \in Numbers :
        /\ IsAnimated(anim'[number])
        /\ anim'[number].to = t[number][1] /\ anim'[number].left = t[number][2]
        /\ anim'[number].at = IF t[number][2] = 0 THEN t[number][1] ELSE Was(number, rm).at
        /\ t[number][2] = 0 => anim'[number] = Reshuffle!Still(t[number][1])
  BY <1>1, <1>2, WasIs, GoesIs
<1>6. anim'.riffle.at \in Int /\ anim'.riffle.to \in Int /\ anim'.riffle.left \in Nat
  BY <1>1 DEF CueTypes, Reshuffle!Still
<1>7. p \in {"gather", "shuffle"} =>
        /\ anim'.deal.at = 0 /\ anim'.deal.to = 0
        /\ anim'.reverse.at = 0 /\ anim'.reverse.to = 0 /\ anim'.cue.to = Full
  <2> SUFFICES ASSUME p \in {"gather", "shuffle"}
               PROVE  /\ anim'.deal.at = 0 /\ anim'.deal.to = 0
                      /\ anim'.reverse.at = 0 /\ anim'.reverse.to = 0 /\ anim'.cue.to = Full
    OBVIOUS
  <2>1. Was("deal", rm).at = 0 /\ Was("reverse", rm).at = 0
    <3>1. CASE phase = None
      BY <3>1, WasIs DEF Numbers
    <3>2. CASE phase # None
      BY <3>2 DEF Was, CuePhases
    <3> QED
      BY <3>1, <3>2
  <2> QED
    BY <1>3, <1>5, <2>1 DEF Numbers
<1>8. /\ anim'.card.to = 0 => p = "shuffle" \/ (p = "gather" /\ rm)
      /\ anim'.card.to \in {0, Full}
  BY <1>3, <1>5, CueTimes DEF Numbers
<1>9. /\ p \notin {None, "gather"} /\ ~rm => anim'.gather = Reshuffle!Still(Full)
      /\ p = "gather" /\ ~rm => anim'.card = Reshuffle!Still(Full)
  BY <1>3, <1>4, <1>5 DEF Numbers
<1>10. ASSUME Smooth
       PROVE  /\ anim'.card.left <= Full /\ anim'.cue.left <= Full
              /\ anim'.card.at = 0 => /\ p # None /\ anim'.cue.at > 0
                                      /\ anim'.deal.at = 0 /\ anim'.reverse.at = 0
  <2>1. crossfadeMs <= Full /\ dealMs <= Full /\ reverseDealMs <= Full /\ 0 <= Full
    BY <1>10, CueTimes DEF Smooth
  <2>2. t.card[2] <= Full /\ t.cue[2] <= Full
    BY <1>3, <1>4, <2>1 DEF Reshuffle!Phase
  <2>3. ASSUME anim'.card.at = 0
        PROVE  p # None /\ anim'.cue.at > 0 /\ anim'.deal.at = 0 /\ anim'.reverse.at = 0
    <3>1. /\ t.card[2] = 0 => t.card[1] = 0
          /\ t.card[2] # 0 => Was("card", rm).at = 0
      BY <1>5, <2>3 DEF Numbers
    <3>2. t.card[2] # 0
      BY <1>3, <1>4, <3>1, CueTimes DEF Reshuffle!Phase
    <3>3. phase # None /\ anim.card.at = 0
      BY <3>1, <3>2, WasIs, CueTimes DEF Numbers, Was
    <3>4. anim.cue.at > 0 /\ anim.deal.at = 0 /\ anim.reverse.at = 0
      BY <1>10, <3>3 DEF CuePhases
    <3>5. /\ Was("cue", rm) = anim.cue /\ Was("deal", rm) = anim.deal
          /\ Was("reverse", rm) = anim.reverse
      BY <3>3 DEF Was
    <3>6. anim'.cue.at > 0
      <4>1. t.cue[2] = 0 => t.cue[1] = Full
        BY <1>3, <1>4, CueTimes DEF Reshuffle!Phase
      <4> QED
        BY <1>5, <3>4, <3>5, <4>1, CueTimes DEF Numbers
    <3>7. anim'.deal.at = 0 /\ anim'.reverse.at = 0
      <4>1. /\ rm => t.deal[1] = 0 /\ t.reverse[1] = 0
            /\ ~rm /\ p = "deal" => t.deal[2] = dealMs
            /\ ~rm /\ p = "reverse" => t.reverse[2] = reverseDealMs
        BY TargetsAre DEF t
      <4>2. /\ t.deal[2] = 0 => t.deal[1] = 0
            /\ t.reverse[2] = 0 => t.reverse[1] = 0
        BY <1>4, <4>1, CueTimes
      <4> QED
        BY <1>5, <3>4, <3>5, <4>2 DEF Numbers
    <3> QED
      BY <3>6, <3>7, CueTimes
  <2> QED
    BY <1>5, <2>2, <2>3 DEF Numbers
<1> QED
  BY <1>1, <1>5, <1>6, <1>7, <1>8, <1>9, <1>10 DEF CuePhases

(* At the start the card lies still, and there is no cue.                  *)
LEMMA AtRestIs ==
    ASSUME NEW rm \in BOOLEAN, NEW a,
           a = [Reshuffle!AtRest(rm) EXCEPT !.cue = Reshuffle!Still(0)]
    PROVE  /\ DOMAIN a = Parts /\ \A number \in Numbers : IsAnimated(a[number])
           /\ a.riffle.at \in Int /\ a.riffle.to \in Int /\ a.riffle.left \in Nat
           /\ a.card.to = Full /\ a.card.at = Full /\ a.card.left = 0 /\ a.cue.left = 0
<1>1. /\ DOMAIN a = Parts
      /\ a.card = Reshuffle!Still(Full) /\ a.cue = Reshuffle!Still(0)
      /\ a.gather = Reshuffle!Still(0) /\ a.deal = Reshuffle!Still(0)
      /\ a.reverse = Reshuffle!Still(0) /\ a.riffle = Reshuffle!Still(0)
  BY DEF Reshuffle!AtRest, Parts
<1>2. 0 \in 0..Full /\ Full \in 0..Full
  BY CueTimes
<1>3. /\ IsAnimated(Reshuffle!Still(0)) /\ Reshuffle!Still(0).left = 0
      /\ Reshuffle!Still(0).at = 0 /\ Reshuffle!Still(0).to = 0
  BY <1>2, StillIs
<1>4. /\ IsAnimated(Reshuffle!Still(Full)) /\ Reshuffle!Still(Full).left = 0
      /\ Reshuffle!Still(Full).at = Full /\ Reshuffle!Still(Full).to = Full
  BY <1>2, StillIs
<1> QED
  BY <1>1, <1>3, <1>4 DEF Numbers

(* Between two swaps all is at rest.                                       *)
LEMMA CueRests ==
    ASSUME NEW rm \in BOOLEAN, live \in BOOLEAN, changed \in BOOLEAN,
           anim = [Reshuffle!AtRest(rm) EXCEPT !.cue = Reshuffle!Still(0)],
           phase = None, cueSwap = None
    PROVE  CueInv
<1>1. /\ DOMAIN anim = Parts /\ \A number \in Numbers : IsAnimated(anim[number])
      /\ anim.riffle.at \in Int /\ anim.riffle.to \in Int /\ anim.riffle.left \in Nat
      /\ anim.card.to = Full /\ anim.card.at = Full /\ anim.card.left = 0 /\ anim.cue.left = 0
  BY AtRestIs
<1>2. phase \notin {"gather", "shuffle"}
  BY CueTimes DEF Reshuffle!Phase
<1> QED
  BY <1>1, <1>2, CueTimes DEF CueInv, CueTypes, CuePhases, CueRuns

(* Init: no swap, and all is at rest.                                      *)
LEMMA CueStarts == ClientInit => CueInv
<1>1. ASSUME ClientInit
      PROVE  /\ live \in BOOLEAN /\ changed \in BOOLEAN /\ phase = None /\ cueSwap = None
             /\ anim = [Reshuffle!AtRest(live) EXCEPT !.cue = Reshuffle!Still(0)]
  BY <1>1 DEF ClientInit, Reshuffle!Init
<1> QED
  BY <1>1, CueRests

(* A swap is a record, and None is none.                                   *)
LEMMA SwapIs == None \notin Swaps
  BY ClientAssumption DEF Swaps

(* A swap begins, and its card is gathered.                                *)
LEMMA CueBegins == ASSUME CueInv, Reshuffle!Begin PROVE CueInv'
<1>1. /\ cueSwap = None /\ phase = None /\ live' = live /\ live \in BOOLEAN
      /\ cueSwap' = [age |-> 0, reduced |-> live, answer |-> None, settle |-> None]
      /\ changed' = FALSE /\ Reshuffle!PhaseEffect("gather", live)
  BY DEF CueInv, CueTypes, Reshuffle!Begin
<1>2. /\ phase' = "gather" /\ DOMAIN anim' = Parts
      /\ \A number \in Numbers : IsAnimated(anim'[number])
      /\ anim'.riffle.at \in Int /\ anim'.riffle.to \in Int /\ anim'.riffle.left \in Nat
      /\ CuePhases'
  BY <1>1, PhaseBegun DEF CueInv, Reshuffle!Phase
<1>3. /\ cueSwap' \in Swaps /\ cueSwap'.age = 0 /\ cueSwap'.reduced = live
      /\ cueSwap'.settle = None
  BY <1>1 DEF Swaps
<1>4. CueTypes'
  BY <1>1, <1>2, <1>3, SwapIs, CueTimes DEF CueTypes, Reshuffle!Phase
<1>5. 0 <= Reshuffle!reshuffleGatherMs(live)'
  BY <1>1, CueTimes DEF Reshuffle!reshuffleGatherMs
<1>6. CueRuns'
  BY <1>1, <1>2, <1>3, <1>5 DEF CueRuns
<1> QED
  BY <1>2, <1>4, <1>6 DEF CueInv

(* The card is gathered, and the shuffle begins.                           *)
LEMMA CueShuffles == ASSUME CueInv, Reshuffle!GatherTimer PROVE CueInv'
<1>1. /\ cueSwap # None /\ phase = "gather" /\ live' = live /\ live \in BOOLEAN
      /\ cueSwap.age = Reshuffle!reshuffleGatherMs(cueSwap.reduced)
      /\ cueSwap' = cueSwap /\ changed' = changed /\ Reshuffle!PhaseEffect("shuffle", live)
  BY DEF CueInv, CueTypes, Reshuffle!GatherTimer
<1>2. /\ phase' = "shuffle" /\ DOMAIN anim' = Parts
      /\ \A number \in Numbers : IsAnimated(anim'[number])
      /\ anim'.riffle.at \in Int /\ anim'.riffle.to \in Int /\ anim'.riffle.left \in Nat
      /\ CuePhases'
  BY <1>1, PhaseBegun, CueTimes DEF CueInv, Reshuffle!Phase
<1>3. CueTypes'
  BY <1>1, <1>2, CueTimes DEF CueInv, CueTypes, Reshuffle!Phase
<1>4. cueSwap.settle = None
  BY <1>1 DEF CueInv, CueRuns
<1>5. anim'.card.to = 0 /\ anim'.card.left = crossfadeMs
  <2> DEFINE t == Reshuffle!reshufflePhaseTargets("shuffle", live)
  <2>1. "shuffle" \in Reshuffle!Phase /\ "card" \in Numbers
    BY DEF Reshuffle!Phase, Numbers
  <2>2. t.card[1] = 0 /\ t.card[2] = crossfadeMs
    BY <1>1, <2>1, TargetsAre
  <2>3. anim'.card = Reshuffle!Goes(Was("card", live), t.card[1], t.card[2])
    BY <1>1, <2>1, PhaseMakes
  <2> HIDE DEF t
  <2>4. IsAnimated(Was("card", live))
    BY <1>1, <2>1, WasIs DEF CueInv
  <2> QED
    BY <2>2, <2>3, <2>4, GoesIs, CueTimes
<1>6. cueSwap.age \in Nat /\ cueSwap.age <= gatherMs
  BY <1>1, CueTimes DEF CueInv, CueTypes, Swaps, Reshuffle!reshuffleGatherMs
<1>7. CueRuns'
  BY <1>1, <1>2, <1>4, <1>5, <1>6, CueTimes DEF CueInv, CueRuns
<1> QED
  BY <1>2, <1>3, <1>7 DEF CueInv

(* The cue deals, or reverses, for as long as the swap was asked to.       *)
LEMMA CueRises ==
    ASSUME CueInv, NEW p \in {"deal", "reverse"}, NEW within \in Nat,
           Reshuffle!BeginCue(p), live' = live, changed' = changed,
           cueSwap' = [cueSwap EXCEPT !.settle = within],
           within = IF p = "deal" THEN Reshuffle!reshuffleDealMs(cueSwap.reduced)
                    ELSE Reshuffle!reshuffleReverseMs(cueSwap.reduced)
    PROVE  CueInv'
<1>1. /\ cueSwap # None /\ live \in BOOLEAN /\ cueSwap \in Swaps /\ phase # None
      /\ cueSwap.settle = None /\ Reshuffle!PhaseEffect(p, live) /\ p \in Reshuffle!Phase
  BY DEF CueInv, CueTypes, Reshuffle!BeginCue, Reshuffle!Phase
<1>2. /\ phase' = p /\ DOMAIN anim' = Parts
      /\ \A number \in Numbers : IsAnimated(anim'[number])
      /\ anim'.riffle.at \in Int /\ anim'.riffle.to \in Int /\ anim'.riffle.left \in Nat
      /\ CuePhases'
  BY <1>1, PhaseBegun DEF CueInv
<1>3. /\ cueSwap' \in Swaps /\ cueSwap'.settle = within /\ cueSwap'.reduced = cueSwap.reduced
  BY <1>1 DEF Swaps
<1>4. CueTypes'
  BY <1>1, <1>2, <1>3, SwapIs, CueTimes DEF CueInv, CueTypes
<1>5. within # None
  BY ClientAssumption
<1>6. ASSUME ~changed PROVE cueSwap.reduced = live /\ Rising(within)'
  <2> DEFINE t == Reshuffle!reshufflePhaseTargets(p, live)
  <2>1. cueSwap.reduced = live
    BY <1>1, <1>6 DEF CueInv, CueRuns
  <2>2. within = IF live THEN crossfadeMs ELSE IF p = "deal" THEN dealMs ELSE reverseDealMs
    BY <2>1 DEF Reshuffle!reshuffleDealMs, Reshuffle!reshuffleReverseMs
  <2>3. \A number \in Numbers :
          /\ t[number][1] \in 0..Full /\ t[number][2] \in Nat
          /\ anim'[number] = Reshuffle!Goes(Was(number, live), t[number][1], t[number][2])
          /\ IsAnimated(Was(number, live))
    BY <1>1, TargetsAre, PhaseMakes, WasIs DEF CueInv
  <2>4. /\ t.card[1] = Full /\ t.cue[1] = 0
        /\ live => t.card[2] = crossfadeMs /\ t.cue[2] = crossfadeMs
        /\ ~live /\ p = "deal" =>
             /\ t.card[2] = dealMs /\ t.cue[2] = dealMs
             /\ t.deal[1] = Full /\ t.deal[2] = dealMs
             /\ t.reverse[1] = 0 /\ t.reverse[2] = 0
        /\ ~live /\ p = "reverse" =>
             /\ t.card[2] = reverseDealMs /\ t.cue[2] = reverseDealMs
             /\ t.reverse[1] = Full /\ t.reverse[2] = reverseDealMs
             /\ t.deal[1] = 0 /\ t.deal[2] = 0
    BY <1>1, TargetsAre
  <2> HIDE DEF t
  <2>5. \A number \in Numbers :
          /\ anim'[number].to = t[number][1] /\ anim'[number].left = t[number][2]
          /\ t[number][2] = 0 => anim'[number] = Reshuffle!Still(t[number][1])
    BY <2>3, GoesIs
  <2>6. /\ anim'.card.to = Full /\ anim'.card.left = within
        /\ anim'.cue.to = 0 /\ anim'.cue.left = within
    BY <2>2, <2>4, <2>5 DEF Numbers
  <2>7. ~live /\ p = "deal" => Rises(anim'.deal, anim'.reverse, within)
    BY <2>2, <2>4, <2>5 DEF Numbers, Rises
  <2>8. ~live /\ p = "reverse" => Rises(anim'.reverse, anim'.deal, within)
    BY <2>2, <2>4, <2>5 DEF Numbers, Rises
  <2> QED
    BY <2>1, <2>6, <2>7, <2>8 DEF Rising
<1>7. CueRuns'
  BY <1>2, <1>3, <1>5, <1>6 DEF CueRuns
<1> QED
  BY <1>2, <1>4, <1>7 DEF CueInv

(* The swap is over.                                                       *)
LEMMA CueEnds == ASSUME CueInv, Reshuffle!EndSwap PROVE CueInv'
<1>1. /\ cueSwap' = None /\ live' = live /\ live \in BOOLEAN /\ changed' = changed
      /\ changed \in BOOLEAN
      /\ phase' = None /\ anim' = [Reshuffle!AtRest(live) EXCEPT !.cue = Reshuffle!Still(0)]
  BY DEF CueInv, CueTypes, Reshuffle!EndSwap, Reshuffle!PhaseEffect
<1>2. /\ DOMAIN anim' = Parts /\ \A number \in Numbers : IsAnimated(anim'[number])
      /\ anim'.riffle.at \in Int /\ anim'.riffle.to \in Int /\ anim'.riffle.left \in Nat
      /\ anim'.card.to = Full /\ anim'.card.at = Full /\ anim'.card.left = 0
      /\ anim'.cue.left = 0
  BY <1>1, AtRestIs
<1>3. phase' \notin {"gather", "shuffle"}
  BY <1>1, CueTimes DEF Reshuffle!Phase
<1> QED
  BY <1>1, <1>2, <1>3, CueTimes DEF CueInv, CueTypes, CuePhases, CueRuns

(* The setting of motion changes, and with it the phase begins anew.       *)
LEMMA CueTurns == ASSUME CueInv, Reshuffle!MotionChanges PROVE CueInv'
<1>0. /\ live \in BOOLEAN /\ live' = ~live /\ cueSwap' = cueSwap
      /\ changed \in BOOLEAN /\ changed' = (changed \/ cueSwap # None)
      /\ (cueSwap = None) <=> (phase = None)
  BY DEF CueInv, CueTypes, Reshuffle!MotionChanges
<1>1. CASE phase = None
  <2>1. phase' = phase /\ anim' = anim
    BY <1>1 DEF Reshuffle!MotionChanges
  <2>2. phase \notin {"gather", "shuffle"}
    BY <1>1, CueTimes DEF Reshuffle!Phase
  <2>3. CueTypes' /\ CueRuns'
    BY <1>0, <1>1, <2>1 DEF CueInv, CueTypes, CueRuns
  <2>4. CuePhases'
    BY <1>1, <2>1, <2>2 DEF CueInv, CuePhases
  <2> QED
    BY <2>3, <2>4 DEF CueInv
<1>2. CASE phase # None
  <2>1. /\ Reshuffle!PhaseEffect(phase, live') /\ phase \in Reshuffle!Phase
        /\ live' \in BOOLEAN
    BY <1>0, <1>2 DEF CueInv, CueTypes, Reshuffle!MotionChanges
  <2>2. /\ phase' = phase /\ DOMAIN anim' = Parts
        /\ \A number \in Numbers : IsAnimated(anim'[number])
        /\ anim'.riffle.at \in Int /\ anim'.riffle.to \in Int /\ anim'.riffle.left \in Nat
        /\ CuePhases'
    BY <1>2, <2>1, PhaseBegun DEF CueInv
  <2>3. CueTypes' /\ CueRuns'
    BY <1>0, <1>2, <2>2 DEF CueInv, CueTypes, CueRuns
  <2> QED
    BY <2>2, <2>3 DEF CueInv
<1> QED
  BY <1>1, <1>2

(* A tick takes every number a frame on, and the riffle over and over.     *)
LEMMA TickFrames ==
    ASSUME CueInv, Reshuffle!Tick
    PROVE  /\ DOMAIN anim' = Parts
           /\ \A number \in Numbers : anim'[number] = Reshuffle!Frame(anim[number])
           /\ anim'.riffle.at \in Int /\ anim'.riffle.to \in Int /\ anim'.riffle.left \in Nat
<1> DEFINE framed == [number \in DOMAIN anim |-> Reshuffle!Frame(anim[number])]
           r == framed["riffle"]
           round == Reshuffle!Goes(r, r.at + Full, riffleMoveMs)
<1>1. anim' = IF every = 1 THEN [framed EXCEPT !.riffle = round] ELSE framed
  BY DEF Reshuffle!Tick
<1>2. DOMAIN anim = Parts
  BY DEF CueInv, CueTypes
<1>3. /\ DOMAIN framed = Parts /\ r = Reshuffle!Frame(anim["riffle"])
      /\ \A number \in Numbers : framed[number] = Reshuffle!Frame(anim[number])
  BY <1>2 DEF Parts, Numbers
<1>4. r.at \in Int /\ r.to \in Int /\ r.left \in Nat
  <2> DEFINE b == anim["riffle"]
             by == (b.to - b.at) \div b.left
  <2>1. b.at \in Int /\ b.to \in Int /\ b.left \in Nat
    BY DEF CueInv, CueTypes
  <2>2. CASE b.left = 0
    BY <1>3, <2>1, <2>2 DEF Reshuffle!Frame
  <2>3. CASE b.left # 0
    <3>1. by \in Int
      BY <2>1, <2>3
    <3>2. r.at \in {b.at, b.at + by} /\ r.to = b.to /\ r.left \in {b.left, b.left - 1}
      <4>1. r = [b EXCEPT !.at = b.at + by, !.left = b.left - 1]
        BY <1>3, <2>3 DEF Reshuffle!Frame
      <4> HIDE DEF by, b, r
      <4> QED
        BY <4>1
    <3> HIDE DEF by, b, r
    <3> QED
      BY <2>1, <2>3, <3>1, <3>2
  <2> QED
    BY <2>2, <2>3
<1> HIDE DEF framed, r
<1>5. round.at \in Int /\ round.to \in Int /\ round.left \in Nat
  BY <1>4, CueTimes DEF Reshuffle!Goes, Reshuffle!Still
<1> HIDE DEF round
<1>6. "riffle" \notin Numbers /\ Numbers \subseteq Parts /\ "riffle" \in Parts
  BY DEF Numbers, Parts
<1>7. CASE every = 1
  <2>1. anim' = [framed EXCEPT !["riffle"] = round]
    BY <1>1, <1>7
  <2>2. DOMAIN anim' = Parts /\ anim'["riffle"] = round
    BY <1>3, <1>6, <2>1
  <2>3. \A number \in Numbers : anim'[number] = framed[number]
    BY <1>3, <1>6, <2>1
  <2> QED
    BY <1>3, <1>5, <2>2, <2>3
<1>8. CASE every # 1
  BY <1>1, <1>3, <1>4, <1>8 DEF r
<1> QED
  BY <1>7, <1>8

(* A tick.                                                                 *)
LEMMA CueTicks == ASSUME CueInv, Reshuffle!Tick PROVE CueInv'
<1>1. /\ DOMAIN anim' = Parts
      /\ \A number \in Numbers : anim'[number] = Reshuffle!Frame(anim[number])
      /\ anim'.riffle.at \in Int /\ anim'.riffle.to \in Int /\ anim'.riffle.left \in Nat
  BY TickFrames
<1>2. /\ cueSwap \in Swaps /\ cueSwap # None /\ phase # None
      /\ cueSwap.settle # 0 /\ phase' = phase /\ live' = live /\ changed' = changed
      /\ ~(phase = "gather" /\ cueSwap.age = Reshuffle!reshuffleGatherMs(cueSwap.reduced))
      /\ live \in BOOLEAN
  BY DEF CueInv, CueTypes, Reshuffle!Tick
<1>3. /\ cueSwap' \in Swaps /\ cueSwap'.reduced = cueSwap.reduced
      /\ cueSwap'.age \in {cueSwap.age, cueSwap.age + 1}
      /\ cueSwap.settle = None => cueSwap'.settle = None
      /\ cueSwap.settle # None => /\ cueSwap'.settle = cueSwap.settle - 1
                                  /\ cueSwap.settle \in Nat \ {0}
  <2> DEFINE age0 == IF cueSwap.age > timeoutMs THEN cueSwap.age ELSE cueSwap.age + 1
             settle0 == IF cueSwap.settle = None THEN None ELSE cueSwap.settle - 1
  <2>1. cueSwap' = [cueSwap EXCEPT !.age = age0, !.settle = settle0]
    BY DEF Reshuffle!Tick
  <2>2. /\ cueSwap.age \in Nat /\ cueSwap.settle \in Nat \cup {None}
        /\ cueSwap.reduced \in BOOLEAN /\ cueSwap.answer \in {None, "deal", "nothing"}
    BY <1>2 DEF Swaps
  <2>3. age0 \in {cueSwap.age, cueSwap.age + 1} /\ age0 \in Nat
    BY <2>2
  <2>4. settle0 \in Nat \cup {None}
    BY <1>2, <2>2
  <2> HIDE DEF age0, settle0
  <2>5. /\ cueSwap' \in Swaps /\ cueSwap'.reduced = cueSwap.reduced
        /\ cueSwap'.age = age0 /\ cueSwap'.settle = settle0
    BY <1>2, <2>1, <2>2, <2>3, <2>4 DEF Swaps
  <2> QED
    BY <1>2, <2>2, <2>3, <2>5 DEF settle0
<1>4. \A number \in Numbers :
        /\ IsAnimated(anim[number]) /\ IsAnimated(anim'[number])
        /\ anim'[number].to = anim[number].to
        /\ anim'[number].left = IF anim[number].left = 0 THEN 0 ELSE anim[number].left - 1
        /\ anim[number].to = anim[number].at => anim'[number].at = anim[number].at
        /\ anim[number].at <= anim[number].to => anim[number].at <= anim'[number].at
        /\ anim[number].left # 0 /\ anim[number].left <= anim[number].to - anim[number].at =>
             anim[number].at < anim'[number].at
        /\ anim[number].left = 0 => anim'[number] = anim[number]
  BY <1>1, FrameIs DEF CueInv, CueTypes
<1>5. \A number \in Numbers :
        /\ anim[number].at \in 0..Full /\ anim'[number].at \in 0..Full
        /\ anim[number].to \in 0..Full /\ anim[number].left \in Nat
        /\ anim[number].left = 0 => anim[number].at = anim[number].to
  BY <1>4 DEF IsAnimated
<1>6. CueTypes'
  BY <1>1, <1>2, <1>3, <1>4, SwapIs DEF CueInv, CueTypes
<1>7. CuePhases'
  <2>1. phase \in {"gather", "shuffle"} =>
          /\ anim'.deal.at = 0 /\ anim'.deal.to = 0
          /\ anim'.reverse.at = 0 /\ anim'.reverse.to = 0 /\ anim'.cue.to = Full
    BY <1>4 DEF CueInv, CuePhases, Numbers
  <2>2. /\ anim'.card.to = anim.card.to
        /\ phase \notin {None, "gather"} /\ ~live => anim'.gather = Reshuffle!Still(Full)
        /\ phase = "gather" /\ ~live => anim'.card = Reshuffle!Still(Full)
    <3>1. Reshuffle!Still(Full).left = 0
      BY DEF Reshuffle!Still
    <3> QED
      BY <1>4, <3>1 DEF CueInv, CuePhases, Numbers
  <2>3. ASSUME Smooth
        PROVE  /\ anim'.card.left <= Full /\ anim'.cue.left <= Full
               /\ anim'.card.at = 0 => /\ anim'.cue.at > 0
                                       /\ anim'.deal.at = 0 /\ anim'.reverse.at = 0
    <3>1. /\ anim.card.left <= Full /\ anim.cue.left <= Full
          /\ anim.card.at = 0 => /\ anim.cue.at > 0
                                 /\ anim.deal.at = 0 /\ anim.reverse.at = 0
          /\ anim.card.to \in {0, Full}
          /\ anim.card.to = 0 => phase = "shuffle" \/ phase = "gather"
      BY <2>3 DEF CueInv, CuePhases
    <3>2. anim'.card.left <= Full /\ anim'.cue.left <= Full
      BY <1>4, <1>5, <3>1, CueTimes DEF Numbers
    <3>3. ASSUME anim'.card.at = 0
          PROVE  anim'.cue.at > 0 /\ anim'.deal.at = 0 /\ anim'.reverse.at = 0
      <4>1. anim.card.to = 0
        <5>1. SUFFICES ASSUME anim.card.to = Full PROVE FALSE
          BY <3>1
        <5>2. anim.card.at <= anim'.card.at
          BY <1>4, <1>5, <5>1 DEF Numbers
        <5>3. anim.card.at = 0
          BY <1>5, <3>3, <5>2, CueTimes DEF Numbers
        <5>4. anim.card.left # 0
          BY <1>5, <5>1, <5>3, CueTimes DEF Numbers
        <5>5. anim.card.left <= anim.card.to - anim.card.at
          BY <1>5, <3>1, <5>1, <5>3, CueTimes DEF Numbers
        <5> QED
          BY <1>4, <3>3, <5>3, <5>4, <5>5 DEF Numbers
      <4>2. phase \in {"gather", "shuffle"}
        BY <3>1, <4>1
      <4>3. anim.cue.to = Full
        BY <4>2 DEF CueInv, CuePhases
      <4>4. anim.cue.at <= anim'.cue.at
        BY <1>4, <1>5, <4>3 DEF Numbers
      <4>5. CASE anim.cue.at = 0
        <5>1. anim.cue.left # 0 /\ anim.cue.left <= anim.cue.to - anim.cue.at
          BY <1>5, <3>1, <4>3, <4>5, CueTimes DEF Numbers
        <5> QED
          BY <1>4, <2>1, <4>2, <4>5, <5>1 DEF Numbers
      <4>6. CASE anim.cue.at # 0
        BY <1>5, <2>1, <4>2, <4>4, <4>6, CueTimes DEF Numbers
      <4> QED
        BY <4>5, <4>6
    <3> QED
      BY <3>2, <3>3
  <2> QED
    BY <1>2, <2>1, <2>2, <2>3 DEF CueInv, CuePhases
<1>8. CueRuns'
  <2>1. cueSwap'.settle # None => cueSwap.settle # None
    BY <1>3
  <2>2. cueSwap'.settle # None => phase' \in {"deal", "reverse"}
    BY <1>2, <2>1 DEF CueInv, CueRuns
  <2>3. ASSUME ~changed, cueSwap.settle # None PROVE Rising(cueSwap.settle)'
    <3> DEFINE within == cueSwap.settle
    <3>1. /\ Rising(within) /\ within \in Nat \ {0} /\ cueSwap'.settle = within - 1
      BY <1>2, <1>3, <2>3 DEF CueInv, CueRuns
    <3> HIDE DEF within
    <3>2. /\ anim'.card.to = Full /\ anim'.card.left <= within - 1
          /\ anim'.cue.to = 0 /\ anim'.cue.left <= within - 1
      BY <1>4, <1>5, <3>1 DEF Numbers, Rising
    <3>3. ASSUME NEW a \in {"deal", "reverse"}, NEW b \in {"deal", "reverse"},
                 Rises(anim[a], anim[b], within)
          PROVE  Rises(anim'[a], anim'[b], within - 1)
      <4>1. a \in Numbers /\ b \in Numbers /\ Reshuffle!Still(0).left = 0
        BY DEF Numbers, Reshuffle!Still
      <4>2. anim'[b] = anim[b]
        BY <1>4, <3>3, <4>1 DEF Rises
      <4>3. anim'[a].to = Full /\ anim'[a].left <= within - 1
        BY <1>4, <1>5, <3>1, <3>3, <4>1 DEF Rises
      <4> QED
        BY <3>3, <4>2, <4>3 DEF Rises
    <3>4. ~live => \/ Rises(anim'["deal"], anim'["reverse"], within - 1)
                   \/ Rises(anim'["reverse"], anim'["deal"], within - 1)
      BY <3>1, <3>3 DEF Rising
    <3> QED
      BY <1>2, <3>1, <3>2, <3>4 DEF Rising
  <2>4. ASSUME ~changed, cueSwap.settle = None
        PROVE  /\ phase \in {"gather", "shuffle"}
               /\ phase = "gather" => cueSwap'.age <= Reshuffle!reshuffleGatherMs(live)
               /\ phase = "shuffle" =>
                    /\ anim'.card.to = 0
                    /\ anim'.card.left = 0
                         \/ cueSwap'.age + anim'.card.left <= gatherMs + crossfadeMs
    <3>1. /\ cueSwap.reduced = live /\ phase \in {"gather", "shuffle"}
          /\ phase = "gather" => cueSwap.age <= Reshuffle!reshuffleGatherMs(live)
          /\ phase = "shuffle" =>
               /\ anim.card.to = 0
               /\ anim.card.left = 0
                    \/ cueSwap.age + anim.card.left <= gatherMs + crossfadeMs
      BY <1>2, <2>4 DEF CueInv, CueRuns
    <3>2. cueSwap.age \in Nat /\ Reshuffle!reshuffleGatherMs(live) \in Nat
      BY <1>2, CueTimes DEF Swaps, Reshuffle!reshuffleGatherMs
    <3>3. phase = "gather" => cueSwap'.age <= Reshuffle!reshuffleGatherMs(live)
      BY <1>2, <1>3, <3>1, <3>2
    <3>4. phase = "shuffle" =>
            /\ anim'.card.to = 0
            /\ anim'.card.left = 0
                 \/ cueSwap'.age + anim'.card.left <= gatherMs + crossfadeMs
      BY <1>3, <1>4, <1>5, <3>1, <3>2, CueTimes DEF Numbers
    <3> QED
      BY <3>1, <3>3, <3>4
  <2>5. ~changed => cueSwap'.reduced = live
    BY <1>2, <1>3 DEF CueInv, CueRuns
  <2>6. Reshuffle!reshuffleGatherMs(live)' = Reshuffle!reshuffleGatherMs(live)
    BY <1>2 DEF Reshuffle!reshuffleGatherMs
  <2>7. ~changed /\ cueSwap'.settle # None => Rising(cueSwap.settle)'
    BY <2>1, <2>3
  <2>8. cueSwap'.settle = None => cueSwap.settle = None
    <3>1. cueSwap.settle # None => cueSwap'.settle \in Nat
      BY <1>3
    <3> QED
      BY <3>1, ClientAssumption
  <2> QED
    BY <1>2, <2>2, <2>4, <2>5, <2>6, <2>7, <2>8 DEF CueRuns
<1> QED
  BY <1>6, <1>7, <1>8 DEF CueInv

(* Every step keeps the invariant of the cue.                              *)
LEMMA CueStep == ASSUME CueInv, [ClientNext]_clientVars PROVE CueInv'
<1>1. CASE UNCHANGED reshuffleVars
  <2>1. UNCHANGED <<live, phase, cueSwap, anim, changed>>
    BY <1>1 DEF reshuffleVars
  <2>2. CueTypes' /\ CuePhases'
    BY <2>1 DEF CueInv, CueTypes, CuePhases
  <2>3. CueRuns'
    BY <2>1 DEF CueInv, CueRuns, Rising, Reshuffle!reshuffleGatherMs
  <2> QED
    BY <2>2, <2>3 DEF CueInv
<1>2. CASE Reshuffle!StatusTimer
  <2>1. UNCHANGED <<live, phase, cueSwap, anim, changed>>
    BY <1>2 DEF Reshuffle!StatusTimer
  <2>2. CueTypes' /\ CuePhases'
    BY <2>1 DEF CueInv, CueTypes, CuePhases
  <2>3. CueRuns'
    BY <2>1 DEF CueInv, CueRuns, Rising, Reshuffle!reshuffleGatherMs
  <2> QED
    BY <2>2, <2>3 DEF CueInv
<1>3. ASSUME NEW what \in {"deal", "nothing"}, Reshuffle!Answered(what) PROVE CueInv'
  <2>1. /\ UNCHANGED <<live, phase, anim, changed>>
        /\ cueSwap # None /\ cueSwap' = [cueSwap EXCEPT !.answer = what]
    BY <1>3 DEF Reshuffle!Answered
  <2>2. cueSwap \in Swaps /\ phase # None
    BY <2>1 DEF CueInv, CueTypes
  <2>3. /\ cueSwap' \in Swaps /\ cueSwap'.age = cueSwap.age
        /\ cueSwap'.reduced = cueSwap.reduced /\ cueSwap'.settle = cueSwap.settle
    BY <2>1, <2>2 DEF Swaps
  <2>4. CueTypes' /\ CuePhases'
    BY <2>1, <2>2, <2>3, SwapIs DEF CueInv, CueTypes, CuePhases
  <2>5. CueRuns'
    BY <2>1, <2>3 DEF CueInv, CueRuns, Rising, Reshuffle!reshuffleGatherMs
  <2> QED
    BY <2>4, <2>5 DEF CueInv
<1>4. CASE Reshuffle!DealBegins
  <2> DEFINE within == Reshuffle!reshuffleDealMs(cueSwap.reduced)
  <2>1. within \in Nat
    BY CueTimes DEF Reshuffle!reshuffleDealMs
  <2>2. /\ Reshuffle!BeginCue("deal") /\ live' = live /\ changed' = changed
        /\ cueSwap' = [cueSwap EXCEPT !.settle = within]
    BY <1>4 DEF Reshuffle!DealBegins
  <2> QED
    BY <2>1, <2>2, CueRises
<1>5. CASE Reshuffle!ReverseBegins
  <2> DEFINE within == Reshuffle!reshuffleReverseMs(cueSwap.reduced)
  <2>1. within \in Nat
    BY CueTimes DEF Reshuffle!reshuffleReverseMs
  <2>2. /\ Reshuffle!BeginCue("reverse") /\ live' = live /\ changed' = changed
        /\ cueSwap' = [cueSwap EXCEPT !.settle = within]
    BY <1>5 DEF Reshuffle!ReverseBegins
  <2> QED
    BY <2>1, <2>2, CueRises
<1> QED
  BY <1>1, <1>2, <1>3, <1>4, <1>5, CueBegins, CueShuffles, CueEnds, CueTurns, CueTicks,
     CueSteps DEF Reshuffle!Next

(* The one to the left is always above: by how far the fan has swung.      *)
LEMMA FanIs == CueInv => Reshuffle!FanIsOrdered
<1> SUFFICES ASSUME CueInv PROVE Reshuffle!FanIsOrdered
  OBVIOUS
<1> DEFINE n == Reshuffle!reshuffleSilhouetteCount(live)
           mix == Reshuffle!riffleFanMix
<1>1. n \in Nat \ {0}
  BY CueTimes DEF Reshuffle!reshuffleSilhouetteCount
<1>2. mix \in Int
  <2> DEFINE r == anim.riffle.at % (2 * Full)
  <2>1. anim.riffle.at \in Int
    BY DEF CueInv, CueTypes
  <2>2. r \in Int
    BY <2>1, CueTimes
  <2> HIDE DEF r
  <2>3. mix = IF r <= Full THEN r ELSE 2 * Full - r
    BY DEF Reshuffle!riffleFanMix, r
  <2> QED
    BY <2>2, <2>3, CueTimes
<1> HIDE DEF n, mix
<1> SUFFICES ASSUME NEW i \in 0..(n - 1), NEW j \in 0..(n - 1)
             PROVE  LET z(k) == IF 2 * mix < Full THEN n - k ELSE k + 1 IN
                    /\ i # j => z(i) # z(j)
                    /\ (i - 1) * (Full - 2 * mix) < (j - 1) * (Full - 2 * mix) => z(i) > z(j)
  BY DEF Reshuffle!FanIsOrdered, Reshuffle!Silhouettes, Reshuffle!riffleStackZ,
         Reshuffle!riffleFanOffset, n, mix
<1> DEFINE swing == Full - 2 * mix
<1>3. swing \in Int /\ (2 * mix < Full <=> swing > 0) /\ i \in Int /\ j \in Int
  BY <1>1, <1>2, CueTimes
<1> HIDE DEF swing
<1>4. (i - 1) * swing < (j - 1) * swing => IF swing > 0 THEN i < j ELSE j < i
  <2>1. (j - 1) * swing - (i - 1) * swing = (j - i) * swing
    BY <1>3
  <2>2. j <= i /\ swing > 0 => (j - i) * swing <= 0
    BY <1>3
  <2>3. i <= j /\ swing <= 0 => (j - i) * swing <= 0
    BY <1>3
  <2> QED
    BY <1>3, <2>1, <2>2, <2>3
<1> QED
  BY <1>1, <1>3, <1>4 DEF swing

(* Something is seen at any time, where each tick of an animation is.      *)
LEMMA NeverDarkIs == CueInv /\ Smooth => Reshuffle!NeverDark
<1> SUFFICES ASSUME CueInv, Smooth, ~(anim.card.at > 0)
             PROVE  /\ anim.cue.at > 0
                    /\ \E i \in Reshuffle!Silhouettes : Reshuffle!reshuffleSilhouetteOpacity(i) > 0
  BY DEF Reshuffle!NeverDark
<1>1. anim.card.at \in 0..Full /\ anim.card.to \in 0..Full
      /\ (anim.card.left = 0 => anim.card.at = anim.card.to)
  BY DEF CueInv, CueTypes, IsAnimated, Numbers
<1>2. anim.card.at = 0
  BY <1>1, CueTimes
<1>3. phase # None /\ anim.cue.at > 0 /\ anim.deal.at = 0 /\ anim.reverse.at = 0
  BY <1>2 DEF CueInv, CuePhases
<1>4. 0 \in Reshuffle!Silhouettes
  BY CueTimes DEF Reshuffle!Silhouettes, Reshuffle!reshuffleSilhouetteCount
<1>5. CASE live
  BY <1>3, <1>4, <1>5, CueTimes DEF Reshuffle!reshuffleSilhouetteOpacity
<1>6. CASE ~live
  <2>0. phase # "gather"
    BY <1>2, <1>6, CueTimes DEF CueInv, CuePhases, Reshuffle!Still
  <2>1. anim.gather = Reshuffle!Still(Full)
    BY <1>3, <1>6, <2>0 DEF CueInv, CuePhases
  <2>2. anim.gather.at = Full
    BY <2>1 DEF Reshuffle!Still
  <2>3. Reshuffle!reshuffleSilhouetteOpacity(0) = Full * Full
    BY <1>3, <1>6, <2>2, CueTimes DEF Reshuffle!reshuffleSilhouetteOpacity
  <2>4. Full * Full > 0
    BY CueTimes
  <2> QED
    BY <1>3, <1>4, <2>3, <2>4
<1> QED
  BY <1>5, <1>6

(* A swap ends as the card has risen in full, and the cue has gone.        *)
LEMMA CueLands ==
    ASSUME CueInv, Reshuffle!Next, cueSwap # None, cueSwap' = None, ~changed
    PROVE  anim.card.at = Full /\ anim.cue.at = 0 /\ Reshuffle!reshuffleCardDrop = 0
<1>1. cueSwap \in Swaps
  BY DEF CueInv, CueTypes
<1>2. cueSwap.settle = 0
  <2>1. CASE Reshuffle!EndSwap
    BY <2>1 DEF Reshuffle!EndSwap
  <2>2. CASE Reshuffle!Tick
    BY <2>2, CueTicks DEF Reshuffle!Tick, CueInv, CueTypes
  <2>3. ASSUME NEW what \in {"deal", "nothing"}, Reshuffle!Answered(what) PROVE FALSE
    <3>1. cueSwap' = [cueSwap EXCEPT !.answer = what]
      BY <2>3 DEF Reshuffle!Answered
    <3>2. cueSwap' \in Swaps
      BY <1>1, <3>1 DEF Swaps
    <3> QED
      BY <3>2, SwapIs
  <2>4. ASSUME Reshuffle!DealBegins \/ Reshuffle!ReverseBegins PROVE FALSE
    <3>1. PICK within \in Nat : cueSwap' = [cueSwap EXCEPT !.settle = within]
      BY <2>4, CueTimes DEF Reshuffle!DealBegins, Reshuffle!ReverseBegins,
                            Reshuffle!reshuffleDealMs, Reshuffle!reshuffleReverseMs
    <3>2. cueSwap' \in Swaps
      BY <1>1, <3>1 DEF Swaps
    <3> QED
      BY <3>2, SwapIs
  <2> QED
    BY <2>1, <2>2, <2>3, <2>4 DEF Reshuffle!Next, Reshuffle!Begin, Reshuffle!GatherTimer,
       Reshuffle!StatusTimer, Reshuffle!MotionChanges
<1>3. Rising(0) /\ live \in BOOLEAN
  BY <1>2, ClientAssumption DEF CueInv, CueTypes, CueRuns
<1>4. \A number \in Numbers :
        /\ anim[number].at \in 0..Full /\ anim[number].left \in Nat
        /\ anim[number].left = 0 => anim[number].at = anim[number].to
  BY DEF CueInv, CueTypes, IsAnimated
<1>5. anim.card.at = Full /\ anim.cue.at = 0
  BY <1>3, <1>4 DEF Rising, Numbers
<1>6. CASE live
  BY <1>5, <1>6 DEF Reshuffle!reshuffleCardDrop
<1>7. CASE ~live
  <2>1. \/ anim.deal.at = Full /\ anim.reverse.at = 0
        \/ anim.reverse.at = Full /\ anim.deal.at = 0
    BY <1>3, <1>4, <1>7 DEF Rising, Rises, Numbers, Reshuffle!Still
  <2>2. Reshuffle!Lift = Full
    BY <2>1, CueTimes DEF Reshuffle!Lift
  <2>3. anim.gather.at * (Full - Full) = 0
    BY <1>4, CueTimes DEF Numbers
  <2> QED
    BY <1>5, <1>7, <2>2, <2>3 DEF Reshuffle!reshuffleCardDrop
<1> QED
  BY <1>6, <1>7

(* The deck changes while the old card is out of sight: where a card has   *)
(* the time to go before an answer may be shown.                           *)
LEMMA CueHides ==
    ASSUME CueInv, Reshuffle!Next, dealt' /\ ~dealt, ~changed,
           gatherMs + crossfadeMs <= minCueMs
    PROVE  anim.card.at = 0 /\ anim.card.to = 0
<1>1. Reshuffle!DealBegins
  BY DEF Reshuffle!Next, Reshuffle!Begin, Reshuffle!GatherTimer, Reshuffle!StatusTimer,
         Reshuffle!Answered, Reshuffle!ReverseBegins, Reshuffle!EndSwap,
         Reshuffle!MotionChanges, Reshuffle!Tick
<1>2. /\ cueSwap # None /\ cueSwap \in Swaps /\ cueSwap.settle = None
      /\ cueSwap.age >= minCueMs /\ cueSwap.age \in Nat
  BY <1>1 DEF Reshuffle!DealBegins, Reshuffle!BeginCue, CueInv, CueTypes, Swaps
<1>3. /\ phase \in {"gather", "shuffle"}
      /\ phase = "gather" => cueSwap.age <= Reshuffle!reshuffleGatherMs(live)
      /\ phase = "shuffle" =>
           /\ anim.card.to = 0
           /\ anim.card.left = 0 \/ cueSwap.age + anim.card.left <= gatherMs + crossfadeMs
  BY <1>2 DEF CueInv, CueRuns
<1>4. Reshuffle!reshuffleGatherMs(live) \in 0..gatherMs
  BY CueTimes DEF Reshuffle!reshuffleGatherMs
<1>5. phase = "shuffle"
  BY <1>2, <1>3, <1>4, CueTimes
<1>6. anim.card.left \in Nat /\ (anim.card.left = 0 => anim.card.at = anim.card.to)
  BY DEF CueInv, CueTypes, IsAnimated, Numbers
<1> QED
  BY <1>2, <1>3, <1>5, <1>6, CueTimes

(* A swap ends without a jump as long as the setting of motion is left     *)
(* alone, and the silhouettes keep their order whatever it does -- for all *)
(* times and any number of silhouettes (LateralityReshuffle).              *)
THEOREM CueCorrect ==
    ClientSpec => []Reshuffle!FanIsOrdered /\ Reshuffle!LandsWithoutJump
<1> DEFINE Lands == cueSwap # None /\ cueSwap' = None /\ ~changed =>
                      anim.card.at = Full /\ anim.cue.at = 0 /\ Reshuffle!reshuffleCardDrop = 0
<1>1. CueInv => Reshuffle!FanIsOrdered
  BY FanIs
<1>2. CueInv /\ [ClientNext]_clientVars => CueInv'
  BY CueStep
<1>3. CueInv /\ [ClientNext]_clientVars => [Lands]_(Reshuffle!vars)
  BY CueSteps, CueLands DEF reshuffleVars, Reshuffle!vars
<1> QED
  BY <1>1, <1>2, <1>3, CueStarts, PTL DEF ClientSpec, Reshuffle!LandsWithoutJump

(* Something is seen of a reshuffle at any time, and the new deck takes    *)
(* its place while the old card is away -- for all steps that resolve an   *)
(* animation, and all times such that a card can go before an answer may   *)
(* be shown (LateralityReshuffle with lateralityReshuffle.ts).             *)
THEOREM CueIsSeen ==
    ASSUME Smooth, gatherMs + crossfadeMs <= minCueMs
    PROVE  ClientSpec => /\ []Reshuffle!NeverDark
                         /\ [][dealt' /\ ~dealt /\ ~changed =>
                                 anim.card.at = 0 /\ anim.card.to = 0]_reshuffleVars
<1> DEFINE Hides == dealt' /\ ~dealt /\ ~changed => anim.card.at = 0 /\ anim.card.to = 0
<1>1. CueInv => Reshuffle!NeverDark
  BY NeverDarkIs
<1>2. CueInv /\ [ClientNext]_clientVars => CueInv'
  BY CueStep
<1>3. CueInv /\ [ClientNext]_clientVars => [Hides]_reshuffleVars
  BY CueSteps, CueHides
<1> QED
  BY <1>1, <1>2, <1>3, CueStarts, PTL DEF ClientSpec

-----------------------------------------------------------------------------
(* What is said around the card: the tip offered is the first one that is  *)
(* not done with, at rest it is shown on its own card, and the next one    *)
(* has its timer; the line of the network ends on what was last heard; the *)
(* grade of the URL is announced once and no cue stays -- for every number *)
(* of cards, messages, grades and cues (discoveryCoaching.ts,              *)
(* useConnectivity, DeckStatusLine, ComplexityCue and index.tsx).          *)
THEOREM MessagesCorrect == ClientSpec => []MessagesAreSound
<1> DEFINE Inv == CoachInv /\ NetworkInv /\ ChromeInv
<1>1. ClientInit => Inv
  BY CoachStarts, NetworkStarts, ChromeStarts
<1>2. Inv /\ [ClientNext]_clientVars => Inv'
  BY CoachStep, NetworkStep, ChromeStep
<1>3. Inv => MessagesAreSound
  BY NetworkSettles, ChromeSettles DEF CoachInv, MessagesAreSound
<1> QED
  BY <1>1, <1>2, <1>3, PTL DEF ClientSpec
==============================================================================
