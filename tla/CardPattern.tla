---------------------------- MODULE CardPattern ----------------------------
(***************************************************************************)
(* The pattern on a card's front: which of its motifs give way to the      *)
(* measured title, and the glow that breathes on one connector between two *)
(* motifs while the card lies still (PatternLayer, useConnectorPulse).     *)
(*                                                                         *)
(* The layer belongs to a slot of the stack and is rendered again with     *)
(* another card, another title box or another gate; the effect that starts *)
(* the breathing runs after the render, and the breathing itself goes on   *)
(* in the UI thread meanwhile.                                             *)
(***************************************************************************)
EXTENDS Integers, Sequences, FiniteSets, Functions

CONSTANTS
    Hashes,     \* hashConceptKey of the concepts in play
    Faces,      \* sizes <<width, height>> of a card's face, in pixels
    TitleBoxes, \* measured titles <<x1, y1, x2, y2>>, in pixels of the face
    NoTitle

VARIABLES
    layer,     \* what the layer shows: [hash, face, title]
    connector, \* the memoised pick: a number of Connectors, or 0
    gate,      \* [settled, dragging, blocked, scrolling]: blocked stands for
               \* a turned card, a sheet, locks, the background, the loading
               \* face and reduced motion
    breathOf,  \* the gate and the connector the last effect saw
    breath,    \* "off", "delayed", "breathing", "pausing"
    calm       \* the gate has been open for the first delay (history)

layerVars == <<layer, connector>>
cardPatternVars == <<layerVars, gate, breathOf, breath, calm>>

-----------------------------------------------------------------------------
(* PATTERN_VARIANT_PLACEMENTS: of every motif its bounding box and its     *)
(* centre, in whole card units; the connectors between motifs; the area    *)
(* that is kept clear of a title not measured yet.                         *)
Motifs == <<
    <<<<9, 21, 73, 88, 40, 52>>, <<78, 17, 142, 84, 111, 48>>, <<147, 64,
      204, 124, 174, 91>>, <<81, 112, 143, 176, 113, 141>>, <<209, 65,
      263, 121, 237, 90>>, <<147, 157, 198, 210, 172, 181>>, <<267, 107,
      326, 169, 295, 135>>, <<174, 4, 235, 66, 206, 34>>, <<206, 155, 260,
      211, 234, 180>>, <<263, 198, 312, 248, 286, 221>>, <<19, 464, 78,
      525, 48, 492>>, <<79, 475, 140, 536, 111, 504>>>>,
    <<<<10, 180, 81, 252, 44, 214>>, <<66, 142, 134, 211, 98, 174>>,
      <<115, 92, 173, 152, 143, 119>>, <<176, 65, 238, 129, 206, 94>>,
      <<234, 24, 292, 84, 263, 52>>, <<292, 11, 360, 81, 326, 43>>, <<244,
      84, 311, 152, 276, 116>>, <<187, 136, 249, 200, 219, 165>>, <<250,
      472, 308, 532, 280, 500>>, <<292, 418, 356, 483, 322, 449>>>>,
    <<<<155, 15, 207, 69, 180, 40>>, <<214, 19, 282, 88, 250, 52>>, <<283,
      78, 335, 132, 308, 103>>, <<262, 137, 330, 207, 298, 170>>, <<276,
      211, 341, 277, 310, 242>>, <<279, 282, 351, 355, 314, 317>>, <<285,
      360, 347, 422, 317, 389>>, <<283, 428, 344, 491, 312, 457>>, <<263,
      495, 328, 561, 297, 526>>>> >>
Connectors == <<
    <<<<1, 2>>, <<2, 3>>, <<3, 4>>, <<3, 5>>, <<4, 6>>, <<5, 7>>, <<5,
      8>>, <<6, 9>>, <<9, 10>>, <<11, 12>>>>,
    <<<<1, 2>>, <<2, 3>>, <<3, 4>>, <<4, 5>>, <<5, 6>>, <<4, 7>>, <<7,
      8>>, <<9, 10>>>>,
    <<<<1, 2>>, <<2, 3>>, <<3, 4>>, <<4, 5>>, <<5, 6>>, <<6, 7>>, <<7,
      8>>, <<8, 9>>>> >>
TitleClear == <<
    <<20, 250, 338, 410>>,
    <<20, 260, 338, 410>>,
    <<20, 236, 240, 404>> >>

CARD_W == 358
CARD_H == 560
MARGIN == 16
variantFor(l) == (l.hash % 3) + 1

(* sliceScale is ScaleNum / ScaleDen.                                      *)
Wide(l) == l.face[1] * CARD_H >= l.face[2] * CARD_W
ScaleNum(l) == IF Wide(l) THEN l.face[1] ELSE l.face[2]
ScaleDen(l) == IF Wide(l) THEN CARD_W ELSE CARD_H

(* faceRectToCardUnits, times Fine: the slice is centred on the face.      *)
Fine(l) == 2 * ScaleNum(l)
faceRectToCardUnits(r, l) ==
    [k \in 1..4 |->
       LET side == IF k \in {1, 3} THEN l.face[1] ELSE l.face[2]
           card == IF k \in {1, 3} THEN CARD_W ELSE CARD_H
       IN 2 * r[k] * ScaleDen(l) - side * ScaleDen(l) + card * ScaleNum(l)]

expandRect(r) == <<r[1] - MARGIN, r[2] - MARGIN, r[3] + MARGIN, r[4] + MARGIN>>

defaultTitleClear(l) == [k \in 1..4 |-> TitleClear[variantFor(l)][k] * Fine(l)]

(* resolvePatternClearArea, times Fine                                     *)
clearArea(l) ==
    IF l.title = NoTitle THEN defaultTitleClear(l)
    ELSE faceRectToCardUnits(expandRect(l.title), l)

rectsIntersect(box, clear, fine) ==
    /\ box[1] * fine < clear[3] /\ box[3] * fine > clear[1]
    /\ box[2] * fine < clear[4] /\ box[4] * fine > clear[2]

hiddenMotifs(l) ==
    LET clear == clearArea(l) IN
    {m \in DOMAIN Motifs[variantFor(l)] :
       rectsIntersect(Motifs[variantFor(l)][m], clear, Fine(l))}

(* listVisiblePulseConnectors, after hideMotifsInPatternSvg                *)
listVisiblePulseConnectors(l) ==
    LET hidden == hiddenMotifs(l) IN
    {c \in DOMAIN Connectors[variantFor(l)] :
       Range(Connectors[variantFor(l)][c]) \cap hidden = {}}

(* pickPulseConnectorId: of the eight that are farthest from the title the *)
(* one the hash says; 0 when there is none.                                *)
DistanceOf(c, l, clear) ==
    LET start == Motifs[variantFor(l)][Connectors[variantFor(l)][c][1]]
        dx == start[5] - (clear[1] + clear[3]) \div (2 * Fine(l))
        dy == start[6] - (clear[2] + clear[4]) \div (2 * Fine(l))
    IN dx * dx + dy * dy

pickPulseConnectorId(l) ==
    LET S == listVisiblePulseConnectors(l)
        clear == clearArea(l)
        dist == [c \in S |-> DistanceOf(c, l, clear)]
        Farther(c, d) == dist[c] > dist[d] \/ (dist[c] = dist[d] /\ c < d)
        top == IF Cardinality(S) > 8 THEN 8 ELSE Cardinality(S)
    IN IF top = 0 THEN 0
       ELSE CHOOSE c \in S :
              Cardinality({d \in S : Farther(d, c)}) = l.hash % top

connectorPulseAllowed ==
    gate.settled /\ ~(gate.dragging \/ gate.blocked \/ gate.scrolling)

(* What the effect of useConnectorPulse depends on.                        *)
Deps == <<connectorPulseAllowed, connector>>

-----------------------------------------------------------------------------
Still == [settled |-> TRUE, dragging |-> FALSE, blocked |-> FALSE,
          scrolling |-> FALSE]

Init ==
    /\ layer = [hash |-> CHOOSE h \in Hashes : TRUE,
                face |-> CHOOSE f \in Faces : TRUE, title |-> NoTitle]
    /\ connector = pickPulseConnectorId(layer)
    /\ gate = Still /\ breathOf = <<FALSE, 0>> /\ breath = "off"
    /\ calm = FALSE

(* A render; the effects of the one before it have run.                    *)
Caught == breathOf = Deps
Rendered ==
    /\ Caught
    /\ calm' = (calm /\ connectorPulseAllowed')
    /\ UNCHANGED <<breathOf, breath>>

(* useMemo of what the layer shows.                                        *)
Shows(l) == layer' = l /\ connector' = pickPulseConnectorId(l)

(* The stack moves to another card: it is not settled, nor dragged; the    *)
(* settling takes deckSettleDurationMs.                                    *)
Deals(h) ==
    /\ Shows([layer EXCEPT !.hash = h, !.title = NoTitle])
    /\ gate' = [gate EXCEPT !.settled = FALSE, !.dragging = FALSE]
    /\ Rendered

(* The deck puts another card into the slot, as a swap of the tree does.   *)
Swaps(h) ==
    /\ Shows([layer EXCEPT !.hash = h, !.title = NoTitle])
    /\ UNCHANGED gate /\ Rendered

Settles ==
    /\ ~gate.settled /\ gate' = [gate EXCEPT !.settled = TRUE]
    /\ Rendered /\ UNCHANGED layerVars

GateMoves(flag) ==
    /\ gate' = [gate EXCEPT ![flag] = ~@]
    /\ Rendered /\ UNCHANGED layerVars

LaidOut(f, t) ==
    /\ Shows([layer EXCEPT !.face = f, !.title = t])
    /\ UNCHANGED gate /\ Rendered

(* The effect: what ran is cancelled, and the first breath waits.          *)
RunEffect ==
    /\ ~Caught /\ breathOf' = Deps
    /\ breath' = IF connectorPulseAllowed /\ connector # 0
                 THEN "delayed" ELSE "off"
    /\ UNCHANGED <<layerVars, gate, calm>>

(* The UI thread: after the first delay a breath, a pause, a breath ...    *)
Breathes ==
    /\ breath # "off"
    /\ breath' = IF breath = "breathing" THEN "pausing" ELSE "breathing"
    /\ calm' = (calm \/ (breath = "delayed" /\ connectorPulseAllowed))
    /\ UNCHANGED <<layerVars, gate, breathOf>>

Next ==
    \/ \E h \in Hashes : Deals(h) \/ Swaps(h)
    \/ \E f \in Faces, t \in TitleBoxes \cup {NoTitle} : LaidOut(f, t)
    \/ \E flag \in {"dragging", "blocked", "scrolling"} : GateMoves(flag)
    \/ Settles \/ RunEffect \/ Breathes

Spec == Init /\ [][Next]_cardPatternVars

-----------------------------------------------------------------------------
(* Properties.                                                             *)

(* armed: the overlay is mounted.                                          *)
Glowing == /\ connectorPulseAllowed /\ connector # 0
           /\ breath = "breathing"

(* A motif the title leaves room for: in pixels of the face its box keeps  *)
(* the margin to the measured title.                                       *)
KeepsMargin(m, l) ==
    LET box == Motifs[variantFor(l)][m]
        Px(at, side, card) ==   \* in pixels, times 2 * ScaleDen
            2 * at * ScaleNum(l) + side * ScaleDen(l) - card * ScaleNum(l)
        unit == 2 * ScaleDen(l)
    IN \/ Px(box[1], l.face[1], CARD_W) >= unit * (l.title[3] + MARGIN)
       \/ Px(box[3], l.face[1], CARD_W) <= unit * (l.title[1] - MARGIN)
       \/ Px(box[2], l.face[2], CARD_H) >= unit * (l.title[4] + MARGIN)
       \/ Px(box[4], l.face[2], CARD_H) <= unit * (l.title[2] - MARGIN)

(* The card glows only when it has lain still, uncovered and unturned for  *)
(* the first delay, whatever the renders, effects and timers in between;   *)
(* what glows joins two motifs that are seen, clear of the title; and when *)
(* the effects have caught up the glow is under way exactly if it may be.  *)
PatternIsSound ==
    /\ Glowing =>
         /\ calm
         /\ layer.title # NoTitle =>
              \A m \in Range(Connectors[variantFor(layer)][connector]) :
                KeepsMargin(m, layer)
    /\ Caught => (breath # "off" <=> connectorPulseAllowed
                                       /\ connector # 0)
=============================================================================
