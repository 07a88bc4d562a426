------------------------------ MODULE CardWalk ------------------------------
(***************************************************************************)
(* What the deck of the client promises its reader, whatever the network   *)
(* does: the cards walked through stay where they are, in their order, up  *)
(* to and including the one on screen; only what lies ahead of it is ever  *)
(* added, exchanged or cut; no card comes twice and none is skipped.       *)
(***************************************************************************)
EXTENDS Integers, Sequences

CONSTANT Card

VARIABLES
    walk,   \* the cards in the order they are walked through
    at      \* walk[at + 1] is on screen

Distinct(s) == \A i, j \in DOMAIN s : s[i] = s[j] => i = j
IsDeck(s) == s \in Seq(Card) /\ Distinct(s)

Init == walk = <<>> /\ at = 0

(* The first batch is dealt.                                               *)
Deal == walk = <<>> /\ IsDeck(walk') /\ at' = 0

Forward == at + 1 < Len(walk) /\ at' = at + 1 /\ UNCHANGED walk
Back == at > 0 /\ at' = at - 1 /\ UNCHANGED walk

(* What lies ahead changes; the reader keeps his card or is shown the      *)
(* first one after it.                                                     *)
Ahead ==
    /\ walk # <<>> /\ IsDeck(walk')
    /\ SubSeq(walk', 1, at + 1) = SubSeq(walk, 1, at + 1)
    /\ at' \in {at, at + 1} /\ at' < Len(walk')

Next == Deal \/ Forward \/ Back \/ Ahead

Spec == Init /\ [][Next]_<<walk, at>>
=============================================================================
