---------------------------- MODULE SoundEffects ----------------------------
(***************************************************************************)
(* The effects of the client's sound engine: a pool of players, at most    *)
(* two effects at a time, the oldest of which a new one cuts by a short    *)
(* fade, effects that carry meaning and are never cut, and big movements   *)
(* that fade out early under reduced motion.                               *)
(*                                                                         *)
(* A player is rewound before it plays, and the rewinding is awaited: the  *)
(* pool takes a player that does not play yet for an idle one.             *)
(***************************************************************************)
EXTENDS Integers, Sequences, FiniteSets, SequencesExt

CONSTANTS
    Effect,      \* events of the effects bus
    Meaning,     \* MEANING_CARRYING_EFFECTS
    Big,         \* BIG_MOVEMENT_SOUND_EVENTS
    Twice,       \* events with maxVoices = 2, the others have 1
    PoolSize,    \* EFFECTS_POOL_SIZE, 6 in the code
    MaxSeeks     \* bound: players being rewound at a time

VARIABLES
    pool,   \* players: [event, playing, cut, fade, stray]: what it was last
            \* taken for, whether its cut or its early fade is under way, and
            \* whether an early fade is that nobody can cancel
    oldest, \* indexes of pool by lastUsedAt
    seeks,  \* players being rewound: a set of [at, event, early]
    recent, \* events within EFFECT_RETRIGGER_IGNORE_MS
    active, \* the app is in the foreground, no screen reader, effects are on
    rushed  \* an event came while a player was rewound or a cut was under way
            \* (history)

vars == <<pool, oldest, seeks, recent, active, rushed>>

MAX_CONCURRENT_EFFECTS == 2

-----------------------------------------------------------------------------
Playing == {i \in DOMAIN pool : pool[i].playing}
Uncut == {i \in Playing : ~pool[i].cut}
countVoices(e) == Cardinality({i \in Playing : pool[i].event = e})

FirstOf(S) == oldest[CHOOSE k \in DOMAIN oldest :
                       /\ oldest[k] \in S
                       /\ \A j \in 1..(k - 1) : oldest[j] \notin S]

(* acquire: an idle player, a new one, or the one used longest ago.        *)
Acquired ==
    LET idle == DOMAIN pool \ Playing IN
    CASE idle # {} -> Min(idle)
      [] idle = {} /\ Len(pool) < PoolSize -> Len(pool) + 1
      [] OTHER -> Head(oldest)

(* Mutant of Cuttable: any effect may be cut.                              *)
CuttableAny == Playing

(* maybeCutOldestEffect                                                    *)
Cuttable == {i \in Playing : pool[i].event \notin Meaning}
MayPlay(e) ==
    Cardinality(Playing) < MAX_CONCURRENT_EFFECTS \/ Cuttable # {}
        \/ e \in Meaning
Cut == IF Cardinality(Playing) < MAX_CONCURRENT_EFFECTS \/ Cuttable = {}
       THEN pool
       ELSE [pool EXCEPT ![FirstOf(Cuttable)] =
               [@ EXCEPT !.cut = TRUE, !.fade = FALSE]]

(* playSource: the player is taken and its fades are cancelled; then it is *)
(* rewound.                                                                *)
Taken(e) ==
    LET i == Acquired
        was == IF i \in DOMAIN Cut THEN Cut[i].stray ELSE FALSE
        player == [event |-> e, cut |-> FALSE, fade |-> FALSE, stray |-> was,
                   playing |-> FALSE]
    IN IF i \in DOMAIN Cut THEN [Cut EXCEPT ![i] = player]
       ELSE Append(Cut, player)

Init ==
    /\ pool = <<>> /\ oldest = <<>> /\ seeks = {}
    /\ recent = {} /\ active = TRUE /\ rushed = FALSE

soundEvent(e, reduceMotion) ==
    /\ active
    /\ e \notin recent
    /\ countVoices(e) < (IF e \in Twice THEN 2 ELSE 1)
    /\ MayPlay(e)
    /\ Cardinality(seeks) < MaxSeeks
    /\ pool' = Taken(e)
    /\ oldest' = Append(RemoveFirst(oldest, Acquired), Acquired)
    /\ seeks' = seeks \cup {[at |-> Acquired, event |-> e,
                            early |-> reduceMotion /\ e \in Big]}
    /\ recent' = recent \cup {e}
    /\ rushed' = (rushed \/ seeks # {} \/ Playing # Uncut)
    /\ UNCHANGED active

(* playSafe: whoever the player was rewound for, it plays what it was last *)
(* taken for, and the early fade of this one is set on it.                 *)
Begun(x, early) ==
    [x EXCEPT !.playing = TRUE, !.stray = @ \/ (early /\ x.fade),
              !.fade = @ \/ early]

Rewound(s) ==
    /\ seeks' = seeks \ {s}
    /\ pool' = [pool EXCEPT ![s.at] = Begun(@, s.early)]
    /\ UNCHANGED <<oldest, recent, active, rushed>>

SoundEnds(i) ==
    /\ pool[i].playing
    /\ pool' = [pool EXCEPT ![i].playing = FALSE]
    /\ UNCHANGED <<oldest, seeks, recent, active, rushed>>

(* A cut or an early fade has come to its end and pauses the player.       *)
Faded(x, which) ==
    [x EXCEPT !.playing = FALSE, !.cut = @ /\ which # "cut",
              !.fade = @ /\ which # "fade", !.stray = @ /\ which # "stray"]

FadeEnds(i, which) ==
    /\ CASE which = "cut" -> pool[i].cut
         [] which = "fade" -> pool[i].fade
         [] OTHER -> pool[i].stray
    /\ pool' = [pool EXCEPT ![i] = Faded(@, which)]
    /\ UNCHANGED <<oldest, seeks, recent, active, rushed>>

(* The window of an event that has been played closes.                     *)
WindowCloses(e) ==
    /\ e \in recent
    /\ recent' = recent \ {e}
    /\ UNCHANGED <<pool, oldest, seeks, active, rushed>>

(* Into the background the pool is cleared; its players are released, also *)
(* those being rewound, which will not be heard.  A screen reader or the   *)
(* preference only closes the gate.                                        *)
GateCloses(background) ==
    /\ active /\ active' = FALSE
    /\ IF background
       THEN pool' = <<>> /\ oldest' = <<>> /\ seeks' = {}
       ELSE UNCHANGED <<pool, oldest, seeks>>
    /\ UNCHANGED <<recent, rushed>>

GateOpens ==
    /\ ~active /\ active' = TRUE
    /\ UNCHANGED <<pool, oldest, seeks, recent, rushed>>

Next ==
    \/ \E e \in Effect, reduceMotion \in BOOLEAN : soundEvent(e, reduceMotion)
    \/ \E e \in Effect : WindowCloses(e)
    \/ \E s \in seeks : Rewound(s)
    \/ \E i \in DOMAIN pool : SoundEnds(i) \/
         \E which \in {"cut", "fade", "stray"} : FadeEnds(i, which)
    \/ \E background \in BOOLEAN : GateCloses(background)
    \/ GateOpens

Spec == Init /\ [][Next]_vars

-----------------------------------------------------------------------------
(* Properties.                                                             *)

(* At most two effects that are not being cut, or else all of them carry   *)
(* meaning -- unless an event came while one before it was just beginning  *)
(* or being cut.                                                           *)
TwoAtATime ==
    rushed \/ Cardinality(Uncut) <= MAX_CONCURRENT_EFFECTS
    \/ \A i \in Uncut : pool[i].event \in Meaning

(* What carries meaning is heard out: no cut and no early fade silences    *)
(* it, also none that was begun for another sound of its player.           *)
MeaningIsHeard ==
    \A i \in Playing : pool[i].event \in Meaning =>
        ~pool[i].cut /\ (rushed \/ ~(pool[i].fade \/ pool[i].stray))

(* Not so for players that are being rewound: an effect that carries       *)
(* meaning does not lose its player to another.                            *)
MeaningKeepsItsPlayer ==
    \A s \in seeks : s.event \in Meaning => pool[s.at].event = s.event
=============================================================================
