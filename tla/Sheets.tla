------------------------------- MODULE Sheets -------------------------------
(* The two bottom sheets of the practice screen: the Laterality sheet and the *)
(* app menu.  Both are a Sheet (components/Sheet.tsx), which keeps itself     *)
(* mounted while it slides out, hands the focus back when the slide ends, and *)
(* can be opened again before it has ended.  While it slides out its backdrop *)
(* and rows can still be pressed.  The app menu shows one view at a time      *)
(* (components/AppMenuSheet.tsx); the screen (app/index.tsx) opens and        *)
(* dismisses them, and plays the sound of a closing sheet, which the row of a *)
(* new laterality grade plays by itself, 80 ms late.                          *)
EXTENDS Naturals

CONSTANT MaxCloses      \* sounds of a closing sheet counted in one opening

Sheet == {"laterality", "menu"}
View == {"root", "language", "complexity", "motion", "sound", "about"}
Opener == {"menuButton", "complexityLabel", "lateralityLabel"}
Host == Opener \cup {"sheet"}

VARIABLES
    byKeyboard,     \* Platform.OS is 'web': keys and no modal accessibility layer
    shown,          \* [Sheet -> BOOLEAN]: the prop visible
    mounted,        \* [Sheet -> BOOLEAN]: the panel is in the tree
    slide,          \* [Sheet -> still | in | out]: the timing progress runs
    titleFocused,   \* [Sheet -> BOOLEAN]: focusedTitleThisOpenRef
    title,          \* [Sheet -> hidden | early | measured]: the title host
    view,           \* what the app menu shows
    initialView,    \* what it was opened on
    returnTo,       \* [Sheet -> Opener]: returnFocusRef
    rowFocus,       \* a focus on a menu row was asked for and has not been given
    focus,          \* the last host the focus was moved to
    swapping,       \* a laterality swap is running
    skipNextClose,  \* skipNextSheetCloseRef
    mixClose,       \* the row's own sheet_close is scheduled
    heard           \* [Sheet -> 0..MaxCloses]: sheet_close sounds since it was opened

sheetVars == <<byKeyboard, shown, mounted, slide, titleFocused, title, view,
               initialView, returnTo, rowFocus, focus, swapping, skipNextClose,
               mixClose, heard>>

TypeOK ==
    /\ byKeyboard \in BOOLEAN /\ skipNextClose \in BOOLEAN /\ mixClose \in BOOLEAN
    /\ swapping \in BOOLEAN /\ rowFocus \in BOOLEAN
    /\ shown \in [Sheet -> BOOLEAN] /\ mounted \in [Sheet -> BOOLEAN]
    /\ slide \in [Sheet -> {"still", "in", "out"}]
    /\ titleFocused \in [Sheet -> BOOLEAN]
    /\ title \in [Sheet -> {"hidden", "early", "measured"}]
    /\ view \in View /\ initialView \in {"root", "complexity"}
    /\ returnTo \in [Sheet -> Opener] /\ focus \in Host
    /\ heard \in [Sheet -> 0..MaxCloses]

Init ==
    /\ byKeyboard \in BOOLEAN
    /\ shown = [s \in Sheet |-> FALSE] /\ mounted = [s \in Sheet |-> FALSE]
    /\ slide = [s \in Sheet |-> "still"] /\ titleFocused = [s \in Sheet |-> FALSE]
    /\ title = [s \in Sheet |-> "hidden"]
    /\ view = "root" /\ initialView = "root"
    /\ returnTo = [s \in Sheet |-> IF s = "menu" THEN "menuButton" ELSE "lateralityLabel"]
    /\ rowFocus = FALSE /\ focus = "menuButton"
    /\ swapping = FALSE /\ skipNextClose = FALSE /\ mixClose = FALSE
    /\ heard = [s \in Sheet |-> 0]

Heard(count, s) == IF count[s] < MaxCloses THEN [count EXCEPT ![s] = @ + 1] ELSE count

---------------------------------------------------------------------------
(* Opening and dismissing *)

(* The mutant of Opens: the slide out goes on and takes the sheet away.       *)
OpensBesideSlide(s) ==
    /\ shown' = [shown EXCEPT ![s] = TRUE]
    /\ mounted' = [mounted EXCEPT ![s] = TRUE]
    /\ slide' = IF mounted[s] THEN slide ELSE [slide EXCEPT ![s] = "in"]
    /\ titleFocused' = [titleFocused EXCEPT ![s] = byKeyboard]
    /\ focus' = IF byKeyboard THEN "sheet" ELSE focus
    /\ heard' = [heard EXCEPT ![s] = 0]

(* A sheet becomes visible: it mounts, slides in, and on the web takes the    *)
(* focus at once; a slide out that still runs is replaced and never finishes. *)
Opens(s) ==
    /\ shown' = [shown EXCEPT ![s] = TRUE]
    /\ mounted' = [mounted EXCEPT ![s] = TRUE]
    /\ slide' = [slide EXCEPT ![s] = "in"]
    /\ titleFocused' = [titleFocused EXCEPT ![s] = byKeyboard]
    /\ focus' = IF byKeyboard THEN "sheet" ELSE focus
    /\ heard' = [heard EXCEPT ![s] = 0]

(* A control outside the sheets can be used: none is visible, and by touch or *)
(* with a screen reader none is on screen.                                    *)
Reachable == \A s \in Sheet : ~shown[s] /\ (byKeyboard \/ ~mounted[s])

OpenLateralitySheet ==
    /\ Reachable /\ ~swapping
    /\ Opens("laterality")
    /\ UNCHANGED <<byKeyboard, title, view, initialView, returnTo, rowFocus,
                   swapping, skipNextClose, mixClose>>

OpenMenu(from, first) ==
    /\ Reachable
    /\ Opens("menu")
    /\ returnTo' = [returnTo EXCEPT !["menu"] = from]
    /\ initialView' = first /\ view' = first
    /\ UNCHANGED <<byKeyboard, title, rowFocus, swapping, skipNextClose, mixClose>>

(* dismissLateralitySheet and dismissAppMenu, with what the Sheet does when   *)
(* visible turns false.  On a sheet that already slides out only the sound is *)
(* played again.                                                              *)
Dismissed(s, skip) ==
    /\ shown' = [shown EXCEPT ![s] = FALSE]
    /\ slide' = IF shown[s] THEN [slide EXCEPT ![s] = "out"] ELSE slide
    /\ titleFocused' = [titleFocused EXCEPT ![s] = FALSE]
    /\ heard' = IF skip THEN heard ELSE Heard(heard, s)
    /\ skipNextClose' = (s = "menu" /\ skipNextClose)
    /\ IF s = "menu"
         THEN view' = (IF shown[s] THEN "root" ELSE view) /\ initialView' = "root"
         ELSE UNCHANGED <<view, initialView>>
    /\ UNCHANGED <<byKeyboard, mounted, title, returnTo, focus>>

(* The backdrop, the close button, Escape, and hardware back on a root view.  *)
Dismiss(s) ==
    /\ mounted[s]
    /\ Dismissed(s, s = "laterality" /\ skipNextClose)
    /\ UNCHANGED <<rowFocus, swapping, mixClose>>

---------------------------------------------------------------------------
(* The slide, the title *)

Closed(s) ==
    /\ mounted' = [mounted EXCEPT ![s] = FALSE]
    /\ slide' = [slide EXCEPT ![s] = "still"]
    /\ title' = [title EXCEPT ![s] = "hidden"]
    /\ focus' = returnTo[s]
    /\ UNCHANGED titleFocused

(* The timing ends: a native sheet now moves the focus to its title, unless   *)
(* it already has; a sheet that slid out leaves the tree and gives it back.   *)
SlideEnds(s) ==
    /\ \/ /\ slide[s] = "in"
          /\ slide' = [slide EXCEPT ![s] = "still"]
          /\ titleFocused' = [titleFocused EXCEPT ![s] = TRUE]
          /\ focus' = IF titleFocused[s] THEN focus ELSE "sheet"
          /\ UNCHANGED <<mounted, title>>
       \/ slide[s] = "out" /\ Closed(s)
    /\ UNCHANGED <<byKeyboard, shown, view, initialView, returnTo, rowFocus,
                   swapping, skipNextClose, mixClose, heard>>

(* The header is laid out, or 100 ms pass first; the first of the two fixes   *)
(* the width the title is set in, until the sheet leaves.                     *)
MeasureTitle(s) ==
    /\ mounted[s] /\ title[s] = "hidden"
    /\ \E how \in {"early", "measured"} : title' = [title EXCEPT ![s] = how]
    /\ UNCHANGED <<byKeyboard, shown, mounted, slide, titleFocused, view,
                   initialView, returnTo, rowFocus, focus, swapping,
                   skipNextClose, mixClose, heard>>

---------------------------------------------------------------------------
(* The views of the app menu *)

ViewOnly == UNCHANGED <<byKeyboard, shown, mounted, slide, titleFocused, title,
                        initialView, returnTo, swapping, skipNextClose,
                        mixClose, heard>>

(* A menu row opens its view, whose title takes the focus while the menu is   *)
(* visible.                                                                   *)
OpenView(v) ==
    /\ mounted["menu"] /\ view = "root" /\ v # "root"
    /\ view' = v
    /\ focus' = IF shown["menu"] THEN "sheet" ELSE focus
    /\ rowFocus' = FALSE
    /\ ViewOnly

(* goBackToRoot and the picks that end a view: the row of that view is given  *)
(* the focus in the next frame or after the interactions.                     *)
BackToRoot ==
    /\ mounted["menu"] /\ view # "root"
    /\ ~(initialView = "complexity" /\ view = "complexity")
    /\ view' = "root" /\ rowFocus' = (view # "about")
    /\ ViewOnly /\ UNCHANGED focus

(* The header's back, and a picked grade, when the menu was opened on its     *)
(* Complexity view.                                                           *)
BackOutOfPicker ==
    /\ mounted["menu"] /\ view = "complexity" /\ initialView = "complexity"
    /\ Dismissed("menu", FALSE)
    /\ UNCHANGED <<rowFocus, swapping, mixClose>>

(* The frame that was asked for comes, at whatever time: the row is in the    *)
(* tree only while the menu is.                                               *)
FocusRow ==
    /\ rowFocus /\ rowFocus' = FALSE
    /\ focus' = IF mounted["menu"] /\ view = "root" THEN "sheet" ELSE focus
    /\ UNCHANGED view /\ ViewOnly

(* Replay gesture tips, then dismiss.                                         *)
ReplayTips ==
    /\ mounted["menu"] /\ view = "root"
    /\ Dismissed("menu", FALSE)
    /\ UNCHANGED <<rowFocus, swapping, mixClose>>

---------------------------------------------------------------------------
(* Laterality rows and the sound of the sheet they close *)

(* A row is pressed: onSelectLaterality, then onDismiss.  A new grade starts  *)
(* a swap and schedules its three sounds, and only then the close is skipped; *)
(* during a swap, or for the same grade, the select returns at once.          *)
PressLateralityRow(same) ==
    /\ mounted["laterality"]
    /\ LET starts == ~same /\ ~swapping
       IN  /\ swapping' = (swapping \/ starts)
           /\ mixClose' = (mixClose \/ starts)
           /\ Dismissed("laterality", IF starts THEN shown["laterality"] ELSE skipNextClose)
    /\ UNCHANGED rowFocus

(* The rail starts a swap too; there is no sheet to close then.               *)
PickOnRail ==
    /\ Reachable /\ ~swapping
    /\ swapping' = TRUE /\ mixClose' = TRUE
    /\ skipNextClose' = shown["laterality"]
    /\ UNCHANGED <<byKeyboard, shown, mounted, slide, titleFocused, title, view,
                   initialView, returnTo, rowFocus, focus, heard>>

MixCloseDue ==
    /\ mixClose /\ mixClose' = FALSE
    /\ heard' = Heard(heard, "laterality")
    /\ UNCHANGED <<byKeyboard, shown, mounted, slide, titleFocused, title, view,
                   initialView, returnTo, rowFocus, focus, swapping, skipNextClose>>

(* The swap is over long after the stagger.                                   *)
SwapEnds ==
    /\ swapping /\ ~mixClose
    /\ swapping' = FALSE
    /\ UNCHANGED <<byKeyboard, shown, mounted, slide, titleFocused, title, view,
                   initialView, returnTo, rowFocus, focus, skipNextClose,
                   mixClose, heard>>

---------------------------------------------------------------------------
Next ==
    \/ OpenLateralitySheet
    \/ OpenMenu("menuButton", "root") \/ OpenMenu("complexityLabel", "complexity")
    \/ \E s \in Sheet : Dismiss(s) \/ SlideEnds(s) \/ MeasureTitle(s)
    \/ \E v \in View : OpenView(v)
    \/ BackToRoot \/ BackOutOfPicker \/ FocusRow \/ ReplayTips
    \/ \E same \in BOOLEAN : PressLateralityRow(same)
    \/ PickOnRail \/ MixCloseDue \/ SwapEnds

Spec == Init /\ [][Next]_sheetVars

---------------------------------------------------------------------------
(* A sheet that is open is on screen; one that is closing is still sliding    *)
(* out and will leave; once both have left, the focus is back on the control  *)
(* the last of them was opened from; and no close goes unheard: a dismissed   *)
(* sheet has played its sound, or the row's own is still to come.             *)
SheetsAreSound ==
    /\ \A s \in Sheet : shown[s] => mounted[s] /\ slide[s] # "out"
    /\ \A s \in Sheet : mounted[s] /\ ~shown[s] => slide[s] = "out"
    /\ (\A s \in Sheet : ~mounted[s]) => focus \in {returnTo[s] : s \in Sheet}
    /\ \A s \in Sheet : mounted[s] /\ ~shown[s] =>
          heard[s] > 0 \/ (s = "laterality" /\ mixClose)
    /\ ~skipNextClose

(* Not so after a double press: one opening ends in one sound of a closing    *)
(* sheet.  "Sheet dismiss after row select must not double-play sheet_close"  *)
(* (app/index.tsx:1026) is kept by a flag that the second press sets again.   *)
ClosesOnce == \A s \in Sheet : heard[s] <= 1
=============================================================================
