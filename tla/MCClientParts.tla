---------------------------- MODULE MCClientParts ----------------------------
(* ClientParts with small constants for TLC. *)
EXTENDS ClientParts

(* A photograph of unknown purpose, one whose name says JPEG and that is   *)
(* none, and a dark portrait.                                              *)
MCPicture ==
    {[uri |-> "a", purpose |-> "unknown", dark |-> FALSE, jpegName |-> TRUE,
      jpegType |-> TRUE, w |-> 1200, h |-> 800],
     [uri |-> "b", purpose |-> "unknown", dark |-> FALSE, jpegName |-> TRUE,
      jpegType |-> FALSE, w |-> 100, h |-> 400],
     [uri |-> "c", purpose |-> "photo", dark |-> TRUE, jpegName |-> TRUE,
      jpegType |-> TRUE, w |-> 600, h |-> 900]}

MCTouchAt == {-1}

(* One word too wide for the narrow column, and titles of two and seven.   *)
MCTitles == {<<20, 3>>, <<4, 12, 4, 12, 4, 12, 9>>}

MCFaces == {<<358, 560>>, <<390, 700>>, <<500, 600>>}
MCChoice ==
    [motion |-> {"system", "reduced", "full"}, locale |-> {"en", "es"},
     laterality |-> {1, 4}, complexity |-> {2, 5},
     sound |-> {[sound |-> TRUE, music |-> m, effects |-> TRUE] :
                    m \in BOOLEAN}]
MCStored ==
    [motion |-> {None, Junk, "reduced"}, locale |-> {None, Junk, "es"},
     laterality |-> {None, Junk, 1, 9}, complexity |-> {None, Junk, 4, -3},
     sound |-> {None, Junk, [music |-> FALSE]}]

MCTitleBoxes == {<<20, 300, 220, 340>>, <<20, 60, 250, 430>>}

(* For CardPose, a card of 200 by 240.                                     *)
MCDragX == {-60, 0, 40, 60}
MCDragY == {0, 300}

(* A small phone, a notched one, one on its side and a tablet, and heights *)
(* at normal and at large text.                                            *)
MCScreens ==
    {[width |-> 3200, height |-> 5680, top |-> 200, bottom |-> 0],
     [width |-> 3900, height |-> 8440, top |-> 470, bottom |-> 340],
     [width |-> 8440, height |-> 3900, top |-> 0, bottom |-> 210],
     [width |-> 6000, height |-> 10240, top |-> 240, bottom |-> 0]}
MCHeight ==
    [normal |-> [complexity |-> 680, laterality |-> 680, nav |-> 480],
     large |-> [complexity |-> 880, laterality |-> 1080, nav |-> 1100]]
=============================================================================
