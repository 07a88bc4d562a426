------------------------------ MODULE WebSound ------------------------------
(***************************************************************************)
(* Sound in the browser (sound.web.ts): nothing is heard before the first  *)
(* gesture, and no music before the first card; events of music that come  *)
(* before that are kept, the latest of each name.  The audio context may   *)
(* be suspended, by the browser's autoplay rules or by the system; a sound *)
(* started then would stay mute, so a player waits until it runs.          *)
(*                                                                         *)
(* One player of the pool stands for all: it is asked to play, to pause    *)
(* and to take another source while its buffer is still being decoded and  *)
(* while it waits for the context.                                         *)
(***************************************************************************)
EXTENDS Integers, FiniteSets

CONSTANTS
    Uri,        \* sources of the player
    MusicName,  \* events of the music bus
    MaxTries    \* bound: calls of play that are still under way

VARIABLES
    running,    \* ctx.state = "running"
    gestures,   \* the unlock listeners are attached
    unlocked, musicAllowed,
    pendingMusic,   \* pendingMusicByName
    flushes,    \* an unlock waits for the context
    layersOn,   \* webLayerGraph.ensureStarted has been called
    decoded,    \* resolvedBuffers
    player,     \* [uri, wants, node]: node is the uri that sounds, or 0
    tries       \* calls of play under way: [uri, current, at]; current until
                \* playToken moves on, at = "decode" or "wait"

webVars == <<running, gestures, unlocked, musicAllowed, pendingMusic, flushes,
             layersOn, decoded, player, tries>>
gate == <<gestures, unlocked, musicAllowed, pendingMusic, flushes, layersOn>>

NoNode == 0

Init ==
    /\ running = FALSE /\ gestures = TRUE
    /\ unlocked = FALSE /\ musicAllowed = FALSE
    /\ pendingMusic = {} /\ flushes = FALSE /\ layersOn = FALSE
    /\ decoded = {}
    /\ \E u \in Uri : player = [uri |-> u, wants |-> FALSE, node |-> NoNode]
    /\ tries = {}

-----------------------------------------------------------------------------
(* The gate.                                                               *)

(* flushPendingMusic, under the gates as they are now.                     *)
Flushed(u, m) == IF u /\ m THEN {} ELSE pendingMusic

(* unlockAudio, at a press of a pointer or a key.  When the context does   *)
(* not run yet, the pending events wait for it; the layers are not started *)
(* then.                                                                   *)
unlockAudio ==
    /\ gestures
    /\ unlocked' = TRUE
    /\ IF running
       THEN /\ pendingMusic' = Flushed(TRUE, musicAllowed)
            /\ gestures' = FALSE
            /\ layersOn' = (layersOn \/ musicAllowed)
            /\ UNCHANGED flushes
       ELSE /\ flushes' = TRUE
            /\ UNCHANGED <<pendingMusic, gestures, layersOn>>
    /\ UNCHANGED <<running, musicAllowed, decoded, player, tries>>

notifySoundFirstCardReady ==
    /\ ~musicAllowed /\ musicAllowed' = TRUE
    /\ pendingMusic' = Flushed(unlocked, TRUE)
    /\ layersOn' = (layersOn \/ unlocked)
    /\ UNCHANGED <<running, gestures, unlocked, flushes, decoded, player,
                   tries>>

(* soundEvent on the music bus.                                            *)
MusicEvent(name) ==
    /\ ~(unlocked /\ musicAllowed)
    /\ pendingMusic' = pendingMusic \cup {name}
    /\ UNCHANGED <<running, gestures, unlocked, musicAllowed, flushes,
                   layersOn, decoded, player, tries>>

-----------------------------------------------------------------------------
(* The player.                                                             *)

Stale == {[t EXCEPT !.current = FALSE] : t \in tries}

(* startFromBuffer, for the try t: the node of before is stopped; the new  *)
(* one starts if the context runs, or else waits for it.                   *)
Started(t, others) ==
    IF running
    THEN player' = [player EXCEPT !.node = t.uri] /\ tries' = others
    ELSE /\ player' = [player EXCEPT !.node = NoNode]
         /\ tries' = others \cup {[t EXCEPT !.at = "wait"]}

(* play, which only an event that passed the gate asks for.                *)
Play ==
    LET t == [uri |-> player.uri, current |-> TRUE, at |-> "decode"] IN
    /\ unlocked /\ Cardinality(tries) < MaxTries
    /\ IF player.uri \in decoded
       THEN /\ IF running THEN tries' = Stale
               ELSE tries' = Stale \cup {[t EXCEPT !.at = "wait"]}
            /\ player' = [player EXCEPT !.wants = TRUE, !.node =
                            IF running THEN player.uri ELSE NoNode]
       ELSE /\ tries' = Stale \cup {t}
            /\ player' = [player EXCEPT !.wants = TRUE]
    /\ UNCHANGED <<running, gate, decoded>>

Pause ==
    /\ player' = [player EXCEPT !.wants = FALSE, !.node = NoNode]
    /\ tries' = Stale
    /\ UNCHANGED <<running, gate, decoded>>

(* replace, with which the pool takes the player for another effect.       *)
Replace(u) ==
    /\ player' = [uri |-> u, wants |-> FALSE, node |-> NoNode]
    /\ tries' = Stale
    /\ UNCHANGED <<running, gate, decoded>>

(* decodeUri answers, whoever asked: preload, replace or play.  A call of  *)
(* play that is no longer the last one is dropped.                         *)
Warmed(u) ==
    /\ u \notin decoded /\ unlocked /\ decoded' = decoded \cup {u}
    /\ UNCHANGED <<running, gate, player, tries>>

TryDecoded(t) ==
    /\ t \in tries /\ t.at = "decode"
    /\ decoded' = decoded \cup {t.uri}
    /\ IF t.current /\ player.wants THEN Started(t, tries \ {t})
       ELSE tries' = tries \ {t} /\ UNCHANGED player
    /\ UNCHANGED <<running, gate>>

DecodeFails(t) ==
    /\ t \in tries /\ t.at = "decode"
    /\ tries' = tries \ {t}
    /\ UNCHANGED <<running, gate, decoded, player>>

(* Mutant: a try that has waited starts, whatever came since.              *)
RunsAnyway(t) ==
    /\ player' = [player EXCEPT !.node = t.uri] /\ tries' = tries \ {t}

(* run, from the promise of resume or from the context's statechange.      *)
Runs(t) ==
    /\ tries' = tries \ {t}
    /\ player' = IF t.current /\ player.wants
                 THEN [player EXCEPT !.node = t.uri] ELSE player

(* onended                                                                 *)
NodeEnds ==
    /\ player.node # NoNode
    /\ player' = [player EXCEPT !.node = NoNode]
    /\ UNCHANGED <<running, gate, decoded, tries>>

-----------------------------------------------------------------------------
(* The context.                                                            *)

(* It runs, because resume was granted or by itself; what waits is told    *)
(* one by one.                                                             *)
ContextRuns ==
    /\ ~running /\ unlocked /\ running' = TRUE
    /\ UNCHANGED <<gate, decoded, player, tries>>

ContextStops ==
    /\ running /\ running' = FALSE
    /\ UNCHANGED <<gate, decoded, player, tries>>

Told ==
    /\ running
    /\ \/ /\ flushes /\ flushes' = FALSE
          /\ pendingMusic' = Flushed(unlocked, musicAllowed)
          /\ gestures' = FALSE
          /\ UNCHANGED <<running, unlocked, musicAllowed, layersOn, decoded,
                         player, tries>>
       \/ /\ \E t \in tries : t.at = "wait" /\ Runs(t)
          /\ UNCHANGED <<running, gate, decoded>>

Next ==
    \/ unlockAudio \/ notifySoundFirstCardReady
    \/ \E name \in MusicName : MusicEvent(name)
    \/ Play \/ Pause \/ NodeEnds
    \/ \E u \in Uri : Replace(u) \/ Warmed(u)
    \/ \E t \in tries : TryDecoded(t) \/ DecodeFails(t)
    \/ ContextRuns \/ ContextStops \/ Told

Spec == Init /\ [][Next]_webVars

-----------------------------------------------------------------------------
(* Properties.                                                             *)

(* What sounds is what the player was asked for last, and it was asked     *)
(* for; what was asked for is on its way or sounds.                        *)
SoundsWhatWasAskedLast ==
    /\ player.node # NoNode => player.wants /\ player.node = player.uri
    /\ Cardinality({t \in tries : t.current}) <= 1
    /\ \A t \in tries : t.current => player.wants /\ t.uri = player.uri

(* Music that was asked for too early is not forgotten once it may play.   *)
NothingStaysPending ==
    unlocked /\ musicAllowed => pendingMusic = {} \/ flushes
WebSoundIsSound == SoundsWhatWasAskedLast /\ NothingStaysPending

(* Not so: once the first card is ready and a gesture has unlocked the     *)
(* sound, the layers start.  Their start is asked for before the context   *)
(* runs, and nobody asks again.                                            *)
LayersStart ==
    unlocked /\ musicAllowed /\ running /\ ~flushes => layersOn
=============================================================================
