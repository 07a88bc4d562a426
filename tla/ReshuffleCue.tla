---------------------------- MODULE ReshuffleCue ----------------------------
(***************************************************************************)
(* What is seen of a reshuffle (LateralityReshuffle.tsx with               *)
(* lateralityReshuffle.ts, prefetchLateralityTree in app/index.tsx): the   *)
(* card drops and gives way to silhouettes that riffle while the new deck  *)
(* is fetched, and then rises again, as the new card or as the old one.    *)
(* Timers of JavaScript choose the phase; animations on the UI thread      *)
(* follow it.  With reduced motion one silhouette fades in and out.        *)
(*                                                                         *)
(* A tick is 100 ms.  Timers are taken to run on time, and an animation to *)
(* begin with the timer that asks for it.                                  *)
(***************************************************************************)
EXTENDS Integers

CONSTANTS
    None,
    gatherMs, minCueMs, statusDelayMs, dealMs, reverseDealMs, crossfadeMs,
    riffleEveryMs, riffleMoveMs,
                    \* motion.reshuffle, in ticks: 3, 9, 3, 4, 3, 2, 12, 3
    timeoutMs,      \* 100 in the code
    silhouettes,    \* 3 in the code
    Full            \* the value 1 of an animated number, in steps

VARIABLES
    live,       \* useReducedMotion
    phase,      \* lateralitySwap?.phase, or None
    swap,       \* the call of prefetchLateralityTree: [age, reduced, answer,
                \* settle] -- ticks since it began, reduceMotion as captured,
                \* what was fetched and ticks of settleCue left, or None
    status,     \* lateralityStatusReady
    dealt,      \* the deck on screen is that of the latest request
    anim,       \* gather, deal, reverse, cardOpacity, cueOpacity and riffle, each
                \* [at, to, left]
    every,      \* ticks until the interval of the riffle, or None
    changed     \* the motion setting changed during this swap (history)

vars == <<live, phase, swap, status, dealt, anim, every, changed>>

Phase == {"gather", "shuffle", "deal", "reverse"}
Still(v) == [at |-> v, to |-> v, left |-> 0]
(* withTiming, or an assignment when the duration is 0.                    *)
Goes(a, to, ms) == IF ms = 0 THEN Still(to) ELSE [at |-> a.at, to |-> to, left |-> ms]

reshuffleGatherMs(rm) == IF rm THEN 0 ELSE gatherMs
reshuffleDealMs(rm) == IF rm THEN crossfadeMs ELSE dealMs
reshuffleReverseMs(rm) == IF rm THEN crossfadeMs ELSE reverseDealMs
reshuffleSilhouetteCount(rm) == IF rm THEN 1 ELSE silhouettes

(* Where a phase takes the card and the cue, and how long it may take:     *)
(* pairs of a target and a duration.                                       *)
reshufflePhaseTargets(p, rm) ==
    LET shows == p \in {None, "deal", "reverse"} IN
    IF rm THEN
        [gather |-> <<0, 0>>, deal |-> <<0, reshuffleDealMs(TRUE)>>,
         reverse |-> <<0, reshuffleReverseMs(TRUE)>>,
         card |-> <<IF shows THEN Full ELSE 0, crossfadeMs>>,
         cue |-> <<IF shows THEN 0 ELSE Full, crossfadeMs>>]
    ELSE
        [gather |-> <<IF p = None THEN 0 ELSE Full,
                      IF p = "gather" THEN gatherMs ELSE 0>>,
         deal |-> IF p = "deal" THEN <<Full, dealMs>> ELSE <<0, 0>>,
         reverse |-> IF p = "reverse" THEN <<Full, reverseDealMs>> ELSE <<0, 0>>,
         card |-> <<IF p = "shuffle" THEN 0 ELSE Full,
                    CASE p = "shuffle" -> crossfadeMs [] p = "deal" -> dealMs
                      [] p = "reverse" -> reverseDealMs [] OTHER -> 0>>,
         cue |-> <<IF p \in {"gather", "shuffle"} THEN Full ELSE 0,
                   CASE p = "deal" -> dealMs [] p = "reverse" -> reverseDealMs
                     [] OTHER -> 0>>]

(* The effect of useReshufflePhaseMotion, in the stack and in the cue,     *)
(* which is mounted with the first phase; and the interval of the riffle.  *)
AtRest(rm) == [gather |-> Still(0), deal |-> Still(0), reverse |-> Still(0),
               card |-> Still(Full), cue |-> Still(IF rm THEN 0 ELSE Full),
               riffle |-> Still(0)]
PhaseEffect(p, rm) ==
    LET from == IF phase = None THEN AtRest(rm) ELSE anim
        t == reshufflePhaseTargets(p, rm)
        a(key) == Goes(from[key], t[key][1], t[key][2]) IN
    /\ phase' = p
    /\ anim' = IF p = None THEN [AtRest(rm) EXCEPT !.cue = Still(0)]
               ELSE [gather |-> a("gather"), deal |-> a("deal"),
                     reverse |-> a("reverse"), card |-> a("card"),
                     cue |-> a("cue"), riffle |-> from.riffle]
    /\ every' = IF rm \/ p # "shuffle" THEN None ELSE riffleEveryMs

-----------------------------------------------------------------------------
Init ==
    /\ live \in BOOLEAN
    /\ phase = None /\ swap = None /\ status = FALSE /\ dealt = TRUE
    /\ anim = [AtRest(live) EXCEPT !.cue = Still(0)]
    /\ every = None /\ changed = FALSE

(* The beginning of prefetchLateralityTree.                                *)
Begin ==
    /\ swap = None
    /\ swap' = [age |-> 0, reduced |-> live, answer |-> None, settle |-> None]
    /\ status' = FALSE /\ dealt' = FALSE /\ changed' = FALSE
    /\ PhaseEffect("gather", live)
    /\ UNCHANGED live

GatherTimer ==
    /\ swap # None /\ phase = "gather"
    /\ swap.age = reshuffleGatherMs(swap.reduced)
    /\ PhaseEffect("shuffle", live)
    /\ UNCHANGED <<live, swap, status, dealt, changed>>

StatusTimer ==
    /\ swap # None /\ swap.settle = None /\ swap.age = statusDelayMs /\ ~status
    /\ status' = TRUE
    /\ UNCHANGED <<live, phase, swap, dealt, anim, every, changed>>

(* fetchBatch under withTimeout                                            *)
Answered(what) ==
    /\ swap # None /\ swap.answer = None
    /\ swap' = [swap EXCEPT !.answer = what]
    /\ UNCHANGED <<live, phase, status, dealt, anim, every, changed>>

(* Mutant: an answer is shown as soon as it is there.                      *)
BeginCueAtOnce(p) ==
    /\ swap # None /\ swap.answer # None /\ swap.settle = None
    /\ PhaseEffect(p, live)

(* beginCue: not before the cue has been seen for minCueMs.                *)
BeginCue(p) ==
    /\ swap # None /\ swap.answer # None /\ swap.settle = None
    /\ swap.age >= minCueMs
    /\ PhaseEffect(p, live)

(* A deck was fetched: it is shown, and the cue deals.                     *)
DealBegins ==
    /\ swap # None /\ swap.answer = "deal"
    /\ BeginCue("deal")
    /\ swap' = [swap EXCEPT !.settle = reshuffleDealMs(swap.reduced)]
    /\ dealt' = TRUE
    /\ UNCHANGED <<live, status, changed>>

(* Nothing matches, or the request failed: the old card comes back.        *)
ReverseBegins ==
    /\ swap # None /\ swap.answer = "nothing"
    /\ BeginCue("reverse")
    /\ swap' = [swap EXCEPT !.settle = reshuffleReverseMs(swap.reduced)]
    /\ UNCHANGED <<live, status, dealt, changed>>

(* endSwap                                                                 *)
EndSwap ==
    /\ swap # None /\ swap.settle = 0
    /\ swap' = None /\ status' = FALSE
    /\ PhaseEffect(None, live)
    /\ UNCHANGED <<live, dealt, changed>>

(* The setting of motion is changed.                                       *)
MotionChanges ==
    /\ live' = ~live
    /\ changed' = (changed \/ swap # None)
    /\ IF phase = None THEN UNCHANGED <<phase, anim, every>>
       ELSE PhaseEffect(phase, live')
    /\ UNCHANGED <<swap, status, dealt>>

-----------------------------------------------------------------------------
Frame(a) == IF a.left = 0 THEN a
            ELSE [a EXCEPT !.at = @ + (a.to - @) \div a.left, !.left = @ - 1]

(* Time passes when no timer is due.                                       *)
Tick ==
    LET riffles == every = 1
        framed == [key \in DOMAIN anim |-> Frame(anim[key])] IN
    /\ swap # None
    /\ ~(phase = "gather" /\ swap.age = reshuffleGatherMs(swap.reduced))
    /\ swap.age = statusDelayMs /\ swap.settle = None => status
    /\ swap.answer # None /\ swap.settle = None => swap.age < minCueMs
    /\ swap.answer = None => swap.age < timeoutMs
    /\ swap.settle # 0
    /\ swap' = [swap EXCEPT !.age = IF @ > timeoutMs THEN @ ELSE @ + 1,
                            !.settle = IF @ = None THEN @ ELSE @ - 1]
    /\ anim' = IF riffles
               THEN [framed EXCEPT !.riffle = Goes(@, @.at + Full, riffleMoveMs)]
               ELSE framed
    /\ every' = IF every = None THEN None
                ELSE IF riffles THEN riffleEveryMs ELSE every - 1
    /\ UNCHANGED <<live, phase, status, dealt, changed>>

Next ==
    \/ Begin \/ GatherTimer \/ StatusTimer \/ DealBegins \/ ReverseBegins
    \/ EndSwap \/ MotionChanges \/ Tick
    \/ \E what \in {"deal", "nothing"} : Answered(what)

Spec == Init /\ [][Next]_vars

-----------------------------------------------------------------------------
(* riffleFanMix: 0 is an even fan, Full an odd one.                        *)
riffleFanMix == LET r == anim.riffle.at % (2 * Full) IN
                IF r <= Full THEN r ELSE 2 * Full - r
(* Where a silhouette lies beside the middle, in units of the fan.         *)
riffleFanOffset(index) == (index - 1) * (Full - 2 * riffleFanMix)
riffleStackZ(index, count) ==
    IF 2 * riffleFanMix < Full THEN count - index ELSE index + 1

Lift == IF anim.deal.at > anim.reverse.at THEN anim.deal.at ELSE anim.reverse.at
(* reshuffleCardOffsetY and reshuffleCardScale are 0 and 1 with this.      *)
reshuffleCardDrop == IF live THEN 0 ELSE anim.gather.at * (Full - Lift)

(* reshuffleSilhouetteOpacity, of Full * Full.                             *)
reshuffleSilhouetteOpacity(index) ==
    IF live THEN Full * Full
    ELSE LET settle == Full - anim.deal.at - anim.reverse.at
             appear == IF index > 0 THEN anim.gather.at
                       ELSE IF anim.gather.at >= Full THEN Full ELSE 0 IN
         appear * IF settle < 0 THEN 0 ELSE settle

Silhouettes == 0..(reshuffleSilhouetteCount(live) - 1)

(* The old card is out of sight when the new deck takes its place, however *)
(* soon it was fetched (LateralityReshuffle.tsx:107-112).                  *)
DeckChangesUnseen ==
    [][dealt' /\ ~dealt => anim.card.at = 0 /\ anim.card.to = 0]_vars

(* The swap ends when the card has risen in full and the cue has gone, so  *)
(* that putting both at rest shows no jump (settleCue).                    *)
LandsWithoutJump ==
    [][swap # None /\ swap' = None /\ ~changed =>
         anim.card.at = Full /\ anim.cue.at = 0 /\ reshuffleCardDrop = 0]_vars

(* Something is seen at any time, the card or a silhouette.                *)
NeverDark ==
    \/ anim.card.at > 0
    \/ anim.cue.at > 0 /\ \E i \in Silhouettes : reshuffleSilhouetteOpacity(i) > 0

(* The silhouettes lie in a strict order at any point of the riffle, and   *)
(* change it only as they lie on each other: the one to the left is always *)
(* above.                                                                  *)
FanIsOrdered ==
    LET n == reshuffleSilhouetteCount(live)
        z(i) == riffleStackZ(i, n) IN
    \A i, j \in Silhouettes :
        /\ i # j => z(i) # z(j)
        /\ riffleFanOffset(i) < riffleFanOffset(j) => z(i) > z(j)

CueIsSound ==
    [](NeverDark /\ FanIsOrdered) /\ DeckChangesUnseen /\ LandsWithoutJump

(* Not so: a swap that began with reduced motion is over before the deal   *)
(* of full motion, if the setting changed meanwhile.                       *)
AlwaysLandsWithoutJump ==
    [][swap # None /\ swap' = None =>
         anim.card.at = Full /\ anim.cue.at = 0 /\ reshuffleCardDrop = 0]_vars
=============================================================================
