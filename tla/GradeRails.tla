----------------------------- MODULE GradeRails -----------------------------
(* The two rails of five grades on the practice screen, Laterality and        *)
(* Complexity: components/LateralityControl.tsx, ComplexityControl.tsx.  A    *)
(* finger is followed on the UI thread; every touch callback is posted to the *)
(* JavaScript thread with the callbacks of the render the gesture was built   *)
(* in, and run there later, in order.  While a laterality reshuffle runs the  *)
(* rails are disabled, which cancels the fingers on them; a pick made before  *)
(* the first cards have come reshuffles nothing.                              *)
EXTENDS Integers, Sequences, FiniteSetsExt

CONSTANTS
    RailWidth,      \* laid out width of a rail
    TouchAt,        \* horizontal positions a finger touches, some outside of it
    MaxCalls        \* callbacks that wait for the JavaScript thread

Rail == {"laterality", "complexity"}
NoPreview == 0

VARIABLES
    grades,         \* [Rail -> 1..5]: what the screen holds
    settled,        \* committedLateralityRef
    preview,        \* [Rail -> 1..5 or NoPreview]: previewGrade
    width,          \* [Rail -> 0 or RailWidth]: railWidthRef
    finger,         \* [Rail -> off | down | moving]
    calls,          \* callbacks posted and not yet run
    reshuffling,    \* a laterality swap is running
    landed,         \* it has dealt or given the grade back; its cue settles
    dealt           \* the deck has cards

swapVars == <<grades, settled, reshuffling, landed, dealt>>
railVars == <<preview, width, finger, calls, swapVars>>

Init ==
    /\ grades = [r \in Rail |-> 3] /\ settled = 3
    /\ preview = [r \in Rail |-> NoPreview]
    /\ width = [r \in Rail |-> 0]
    /\ finger = [r \in Rail |-> "off"]
    /\ calls = <<>>
    /\ reshuffling = FALSE /\ landed = FALSE /\ dealt = FALSE

(* The fifth of the rail a position is in, its ends included; 3 before the    *)
(* rail is laid out.                                                          *)
stepFromX(x, w) ==
    IF w = 0 THEN 3
    ELSE LET within == Min({Max({x, 0}), w})
         IN  Min({4, (within * 5) \div w}) + 1

clampGrade(g) == Min({5, Max({1, g})})

(* A grade of laterality is picked: with cards a swap begins, without it is   *)
(* committed at once.                                                         *)
Pick(g) ==
    /\ grades' = [grades EXCEPT !["laterality"] = g]
    /\ reshuffling' = dealt
    /\ settled' = IF dealt THEN settled ELSE g
    /\ UNCHANGED <<landed, dealt>>

PickComplexity(g) ==
    /\ grades' = [grades EXCEPT !["complexity"] = g]
    /\ UNCHANGED <<settled, reshuffling, landed, dealt>>

(* The mutant of Selected trusts the render in both.                          *)
SelectedAsRendered(r, g, gate) ==
    IF gate \/ g = grades[r] THEN UNCHANGED swapVars
    ELSE IF r = "laterality" THEN Pick(g) ELSE PickComplexity(g)

(* onSelectLaterality and onSelectComplexity: the first knows by a ref that a *)
(* swap runs, the second by the render its caller was built in.               *)
Selected(r, g, gate) ==
    IF g = grades[r] \/ (IF r = "laterality" THEN reshuffling ELSE gate)
      THEN UNCHANGED swapVars
      ELSE IF r = "laterality" THEN Pick(g) ELSE PickComplexity(g)

---------------------------------------------------------------------------
(* The fingers *)

Post(new) == calls' = calls \o new /\ Len(calls') <= MaxCalls

Call(what, r, x) == <<[what |-> what, rail |-> r, x |-> x, gate |-> reshuffling]>>

(* onBegin of the pan previews at once, before it is known whether the touch  *)
(* is a tap.                                                                  *)
TouchDown(r) ==
    /\ finger[r] = "off" /\ ~reshuffling
    /\ finger' = [finger EXCEPT ![r] = "down"]
    /\ \E x \in TouchAt : Post(Call("preview", r, x))
    /\ UNCHANGED <<preview, width, swapVars>>

Move(r) ==
    /\ finger[r] # "off"
    /\ finger' = [finger EXCEPT ![r] = "moving"]
    /\ \E x \in TouchAt : Post(Call("preview", r, x))
    /\ UNCHANGED <<preview, width, swapVars>>

(* A pan commits and is finalized; a touch that never moved fails the pan,    *)
(* which is finalized, and is a tap.                                          *)
Lift(r) ==
    /\ finger[r] # "off"
    /\ finger' = [finger EXCEPT ![r] = "off"]
    /\ \E x \in TouchAt :
          Post(IF finger[r] = "moving" THEN Call("commit", r, x) \o Call("end", r, 0)
               ELSE Call("end", r, 0) \o Call("commit", r, x))
    /\ UNCHANGED <<preview, width, swapVars>>

(* The gesture is cancelled, by the system or because the rail is disabled.   *)
Cancel(r) ==
    /\ finger[r] # "off"
    /\ finger' = [finger EXCEPT ![r] = "off"]
    /\ Post(Call("end", r, 0))
    /\ UNCHANGED <<preview, width, swapVars>>

---------------------------------------------------------------------------
(* The JavaScript thread *)

(* The mutant of RunCall: a disabled rail does not end its preview either.     *)
RunCallForgetting ==
    /\ calls # <<>>
    /\ LET c == Head(calls)
           at == stepFromX(c.x, width[c.rail])
       IN  /\ preview' = [preview EXCEPT ![c.rail] =
                  IF c.gate THEN @ ELSE IF c.what = "preview" THEN at ELSE NoPreview]
           /\ IF c.what = "commit" /\ ~c.gate
                THEN Selected(c.rail, at, c.gate)
                ELSE UNCHANGED swapVars
    /\ calls' = Tail(calls)
    /\ UNCHANGED <<width, finger>>

(* previewAt, commitAt, endPreview: the first and the second do nothing when  *)
(* the rail was disabled in the render they are of.                           *)
RunCall ==
    /\ calls # <<>>
    /\ LET c == Head(calls)
           at == stepFromX(c.x, width[c.rail])
       IN  /\ preview' = [preview EXCEPT ![c.rail] =
                  IF c.what = "preview" THEN (IF c.gate THEN @ ELSE at) ELSE NoPreview]
           /\ IF c.what = "commit" /\ ~c.gate
                THEN Selected(c.rail, at, c.gate)
                ELSE UNCHANGED swapVars
    /\ calls' = Tail(calls)
    /\ UNCHANGED <<width, finger>>

(* An arrow key or an accessibility action steps by one and stops at the ends.*)
Step(r) ==
    /\ ~reshuffling
    /\ \E by \in {-1, 1} :
          LET next == clampGrade(grades[r] + by)
          IN  next # grades[r] /\ Selected(r, next, reshuffling)
    /\ UNCHANGED <<preview, width, finger, calls>>

(* The rail is laid out: the first positive width, and any other one after it.*)
Layout(r) ==
    /\ width[r] = 0
    /\ width' = [width EXCEPT ![r] = RailWidth]
    /\ UNCHANGED <<preview, finger, calls, swapVars>>

(* The first batch of cards has come.                                         *)
FirstCards ==
    /\ ~dealt
    /\ dealt' = TRUE
    /\ UNCHANGED <<preview, width, finger, calls, grades, settled, reshuffling, landed>>

(* The mutant of SwapLands leaves the grade that was tried when it fails.     *)
SwapLandsAnyhow ==
    /\ reshuffling /\ ~landed
    /\ landed' = TRUE
    /\ \/ settled' = grades["laterality"]
       \/ UNCHANGED settled
    /\ UNCHANGED <<preview, width, finger, calls, grades, reshuffling, dealt>>

(* Its plan is dealt and the grade committed, or it has failed and the old    *)
(* grade is given back.  The cue is still to settle.                          *)
SwapLands ==
    /\ reshuffling /\ ~landed
    /\ landed' = TRUE
    /\ \/ settled' = grades["laterality"] /\ UNCHANGED grades
       \/ grades' = [grades EXCEPT !["laterality"] = settled] /\ UNCHANGED settled
    /\ UNCHANGED <<preview, width, finger, calls, reshuffling, dealt>>

(* endSwap(), once the cue has settled.                                       *)
SwapEnds ==
    /\ landed
    /\ reshuffling' = FALSE /\ landed' = FALSE
    /\ UNCHANGED <<preview, width, finger, calls, grades, settled, dealt>>

Next ==
    \/ \E r \in Rail : TouchDown(r) \/ Move(r) \/ Lift(r) \/ Cancel(r) \/ Step(r) \/ Layout(r)
    \/ RunCall \/ FirstCards \/ SwapLands \/ SwapEnds

Spec == Init /\ [][Next]_railVars

---------------------------------------------------------------------------
(* A rail shows the grade it holds once no finger is on it and every callback *)
(* has run, however touches, swaps and late callbacks interleave: no preview  *)
(* is left standing.                                                          *)
NoPreviewStays ==
    [][calls' = <<>> =>
          \A r \in Rail : finger'[r] = "off" => preview'[r] = NoPreview]_railVars

(* While a swap runs the grade changes at most once, when the swap fails, and *)
(* to the grade that is committed, whatever commits were already posted; and  *)
(* the grade is the committed one from when the swap has landed or failed     *)
(* until the next swap begins.                                                *)
SwapKeepsItsGrade ==
    [][/\ reshuffling =>
            \/ grades'["laterality"] = grades["laterality"]
            \/ ~landed /\ landed' /\ grades'["laterality"] = settled
       /\ ~reshuffling' \/ landed' => grades'["laterality"] = settled']_railVars

(* Both.                                                                      *)
RailsAreSound == NoPreviewStays /\ SwapKeepsItsGrade

(* Not so when two fingers are lifted together: "Menu / vertical swipe must   *)
(* not rewrite the deck mid-reshuffle" (lib/laterality.ts).                   *)
ComplexityWaits ==
    [][reshuffling /\ reshuffling' => grades'["complexity"] = grades["complexity"]]_railVars
=============================================================================
