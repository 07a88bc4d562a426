---------------------------- MODULE ClientSound ----------------------------
(***************************************************************************)
(* The sound of the client: the music with its lifecycle, the effects on   *)
(* native platforms, the adaptive layers, and the whole on the web.        *)
(*                                                                         *)
(* Each part is told by the others what to do through a few calls, which   *)
(* its own module lets come at any time.  So it is enough to look at one   *)
(* part at a time: a behaviour is one of the part chosen at its start.     *)
(***************************************************************************)
EXTENDS Integers, FiniteSets

CONSTANTS
    None,
    MaxPlayers, Grades, Interruptions,                     \* SoundMusic
    Effect, Meaning, Big, Twice, PoolSize, MaxSeeks,       \* SoundEffects
    Levels, Fragile, Unset,                                \* AdaptiveLayers
    Uri, MusicName, MaxTries                               \* WebSound

VARIABLES
    part,       \* the part that is looked at
    onWeb,      \* Platform.OS = "web"
    engine, layers, flags, intro, musicEffect, early, hurt,
    pool, oldest, seeks, recent, active, rushed,
    sched, clock, gains, pending, fade, timers, sources, ready, lazy, padding,
    failed,
    running, gestures, unlocked, musicAllowed, pendingMusic, flushes, layersOn,
    resolved, player, tries

Music == INSTANCE SoundMusic WITH effect <- musicEffect
Effects == INSTANCE SoundEffects
Layers == INSTANCE AdaptiveLayers WITH web <- onWeb
WebAudio == INSTANCE WebSound WITH decoded <- resolved

ASSUME SoundAssumption ==
    /\ MaxPlayers \in Nat /\ MaxPlayers >= 3
    /\ Grades # {} /\ Grades \subseteq (1..5) \X (1..5)
    /\ Interruptions \in BOOLEAN
    /\ Meaning \cup Big \cup Twice \subseteq Effect /\ Meaning \cap Big = {}
    /\ PoolSize \in Nat /\ PoolSize >= 2
    /\ Levels # {} /\ Levels \subseteq (1..5) \X (1..5)
    /\ Unset \notin Levels /\ Unset \notin [Layers!Role -> Int]
    /\ Uri # {} /\ MaxTries \in Nat

musicVars == <<engine, layers, flags, intro, musicEffect, early, hurt>>
effectsVars == <<pool, oldest, seeks, recent, active, rushed>>
layersVars == <<sched, clock, gains, pending, fade, timers, sources, ready,
                lazy, padding, failed>>
webVars == <<running, gestures, unlocked, musicAllowed, pendingMusic, flushes,
             layersOn, resolved, player, tries>>

-----------------------------------------------------------------------------
Part == {"music", "effects", "layers", "web"}

(* What may differ at the start matters to the chosen part alone.          *)
SoundInit ==
    /\ part \in Part
    /\ onWeb \in BOOLEAN /\ (onWeb => part = "layers")
    /\ Music!Init
    /\ part # "music" => engine.grade = CHOOSE g \in Grades : TRUE
    /\ Effects!Init
    /\ Layers!Init
    /\ part # "layers" => sched.level = CHOOSE l \in Levels : TRUE
    /\ WebAudio!Init
    /\ part # "web" => player.uri = CHOOSE u \in Uri : TRUE

SoundNext ==
    /\ UNCHANGED <<part, onWeb>>
    /\ \/ /\ part = "music" /\ Music!Next
          /\ UNCHANGED <<effectsVars, layersVars, webVars>>
       \/ /\ part = "effects" /\ Effects!Next
          /\ UNCHANGED <<musicVars, layersVars, webVars>>
       \/ /\ part = "layers" /\ Layers!Next
          /\ UNCHANGED <<musicVars, effectsVars, webVars>>
       \/ /\ part = "web" /\ WebAudio!Next
          /\ UNCHANGED <<musicVars, effectsVars, layersVars>>

soundVars == <<part, onWeb, musicVars, effectsVars, layersVars, webVars>>
SoundSpec == SoundInit /\ [][SoundNext]_soundVars

-----------------------------------------------------------------------------
(* Properties: several of a part together where one question is asked of   *)
(* it.  Only the chosen part moves, so that an invariant of another one    *)
(* holds as it did at the start.                                           *)

(* Music is heard only when it may be and as low as it must be: it is      *)
(* silent in the background and when it is off, low under a screen reader, *)
(* and a drop-in never plays over speech; one bed plays after the intro,   *)
(* no more textures than progress allows, and no timer that was cleared    *)
(* leaves a player behind (soundSystem.ts, soundMusic.ts).                 *)
MusicIsSound ==
    /\ Music!TypeOK /\ Music!SilentWhenOff /\ Music!ReaderIsHeard
    /\ Music!OneBedAfterIntro /\ Music!TexturesAreCapped
    /\ Music!PlayersHaveTimers

(* At most two effects sound that are not being cut, and those that carry  *)
(* meaning are heard out (soundEngine.ts).                                 *)
EffectsAreHeard == Effects!TwoAtATime /\ Effects!MeaningIsHeard

(* The adaptive layers settle on what complexity and laterality call for,  *)
(* and change only at a bar (soundLayers.ts).                              *)
LayersSettle == []Layers!LayersSettle /\ Layers!EntersAtBars

(* What sounds on the web is what was asked for last, and what waits for a *)
(* gesture is not forgotten (sound.web.ts).                                *)
WebSoundIsSound == WebAudio!WebSoundIsSound
=============================================================================
