--------------------------- MODULE AdaptiveLayers ---------------------------
(***************************************************************************)
(* The adaptive layers of the client's music: six loops on one clock of    *)
(* which each enters and leaves by its gain alone, at the next bar, with a *)
(* fade; complexity and laterality say which are heard.  One scheduler     *)
(* (soundLayers.ts) drives the native players (soundLayerPlayers.ts) and   *)
(* the sources of the web preview (soundLayerWebGraph.ts).                 *)
(*                                                                         *)
(* The pad comes with the first start, the other layers one by one in the  *)
(* background; a layer that cannot be made stays out until the next start. *)
(* The master gain, which ducks and web pauses set, is in SoundMusic.      *)
(***************************************************************************)
EXTENDS Integers, Sequences, FiniteSets, SequencesExt

CONSTANTS
    Levels,     \* pairs of complexity and laterality in play, each in 1..5
    Fragile,    \* layers whose player or decoding may fail
    Unset

VARIABLES
    web,     \* which of the two platforms
    sched,   \* the scheduler: [enabled, paused, level, loaded]
    clock,   \* t0 is set: the group has been started
    gains,   \* currentGains, in dB; Between inside a stepped fade
    pending, \* the level the next bar fades to
    fade,    \* the gains a fade under way leads to
    timers,  \* "bar", "fade" and the native "align"
    sources, \* [role -> "none", "seeking", "playing" or "still"]
    ready,   \* roles with a player made once, or with a decoded buffer
    lazy,    \* lazy loads done; 0 before startLazyLoads
    padding, \* the web graph decodes the pad
    failed   \* roles that could not be made (history)

scheduler == <<sched, clock, gains, pending, fade, timers>>
layersVars == <<web, scheduler, sources, ready, lazy, padding, failed>>

-----------------------------------------------------------------------------
LAZY_LAYER_ROLES == <<"pulse", "arp", "arp-bright", "rhythm", "extra">>
Role == {"pad"} \cup ToSet(LAZY_LAYER_ROLES)

Silent == -1000
Between == -500
LAYER_BASE_GAIN_DB(role) ==
    CASE role = "pad" -> -2 [] role = "pulse" -> -6
      [] role \in {"arp", "arp-bright"} -> -7 [] OTHER -> -9
LAYER_COMPLEXITY_MIN(role) ==
    CASE role = "pad" -> 1 [] role = "pulse" -> 2
      [] role \in {"arp", "arp-bright"} -> 3
      [] role = "rhythm" -> 4 [] OTHER -> 5

(* LATERALITY_MIX                                                          *)
arpOf(laterality) == IF laterality >= 4 THEN "arp-bright" ELSE "arp"
extraGainDb(laterality) == laterality - 4

layerTargets(level) ==
    [role \in Role |->
        IF \/ level[1] < LAYER_COMPLEXITY_MIN(role)
           \/ role \in {"arp", "arp-bright"} /\ role # arpOf(level[2])
        THEN Silent
        ELSE LAYER_BASE_GAIN_DB(role)
             + (IF role = "extra" THEN extraGainDb(level[2]) ELSE 0)]

audibleGains(level, loaded) ==
    [role \in Role |-> IF role \in loaded THEN layerTargets(level)[role]
                       ELSE Silent]

Mute == [role \in Role |-> Silent]

-----------------------------------------------------------------------------
Init ==
    /\ web \in BOOLEAN
    /\ \E l \in Levels :
         sched = [enabled |-> TRUE, paused |-> FALSE, level |-> l,
                  loaded |-> {"pad"}]
    /\ clock = FALSE /\ gains = Mute /\ pending = Unset /\ fade = Unset
    /\ timers = {} /\ sources = [role \in Role |-> "none"]
    /\ ready = {} /\ lazy = 0 /\ padding = FALSE /\ failed = {}

(* queueFromProgress, where s is the scheduler after the change.           *)
queueFromProgress(s) ==
    IF ~clock \/ ~s.enabled THEN UNCHANGED <<pending, timers>>
    ELSE /\ pending' = s.level
         /\ timers' = IF s.paused THEN timers ELSE timers \cup {"bar"}

setProgress(level) ==
    /\ sched' = [sched EXCEPT !.level = level]
    /\ queueFromProgress(sched')
    /\ UNCHANGED <<web, clock, gains, fade, sources, ready, lazy, padding,
                   failed>>

(* Mutant of fireBar: the gains are set at once.                           *)
fireBarAtOnce ==
    /\ "bar" \in timers /\ fade = Unset
    /\ gains' = audibleGains(pending, sched.loaded)
    /\ pending' = Unset /\ timers' = timers \ {"bar"}
    /\ UNCHANGED <<web, sched, clock, fade, sources, ready, lazy, padding,
                   failed>>

(* fireBar: while a fade runs it waits for the bar after.                  *)
fireBar ==
    /\ "bar" \in timers
    /\ IF fade # Unset THEN UNCHANGED <<timers, pending, fade>>
       ELSE /\ fade' = audibleGains(pending, sched.loaded)
            /\ pending' = Unset
            /\ timers' = (timers \ {"bar"}) \cup {"fade"}
    /\ UNCHANGED <<web, sched, clock, gains, sources, ready, lazy, padding,
                   failed>>

(* runStepFadeTick, which steps the gains, or the snap timer of the web    *)
(* path, whose fade the browser runs.                                      *)
FadeTick(last) ==
    /\ "fade" \in timers
    /\ web => last
    /\ IF last
       THEN gains' = fade /\ fade' = Unset /\ timers' = timers \ {"fade"}
       ELSE /\ gains' = [role \in Role |-> IF gains[role] = fade[role]
                                           THEN gains[role] ELSE Between]
            /\ UNCHANGED <<fade, timers>>
    /\ UNCHANGED <<web, sched, clock, pending, sources, ready, lazy, padding,
                   failed>>

-----------------------------------------------------------------------------
(* The group.                                                              *)

(* Every role that is there starts in one tick; native players are rewound *)
(* first, web sources need a buffer, and the pad's is fetched.             *)
ensureStarted(broken) ==
    LET wanted == IF web THEN sched.loaded \cap ready
                  ELSE {"pad"} \cup ready \cup sched.loaded
        made == wanted \ broken
    IN
    /\ sched.enabled /\ ~clock
    /\ broken \subseteq (IF web THEN {} ELSE wanted \cap Fragile)
    /\ clock' = TRUE
    /\ sched' = [sched EXCEPT !.paused = FALSE]
    /\ gains' = audibleGains(sched.level, sched.loaded)
    /\ pending' = Unset
    /\ sources' = [role \in Role |-> IF role \notin made THEN sources[role]
                                     ELSE IF web THEN "playing"
                                     ELSE "seeking"]
    /\ ready' = IF web THEN ready ELSE ready \cup made
    /\ timers' = IF web THEN timers ELSE {"align"}
    /\ padding' = web
    /\ failed' = (failed \ made) \cup broken
    /\ UNCHANGED <<web, fade, lazy>>

PadDecoded(ok) ==
    /\ padding /\ padding' = FALSE
    /\ ok \/ "pad" \in Fragile
    /\ ready' = IF ok THEN ready \cup {"pad"} ELSE ready
    /\ sources' = IF ok /\ clock /\ sources["pad"] = "none"
                  THEN [sources EXCEPT !["pad"] = "playing"] ELSE sources
    /\ failed' = IF ok \/ "pad" \in ready THEN failed \ {"pad"}
                 ELSE failed \cup {"pad"}
    /\ UNCHANGED <<web, scheduler, lazy>>

startLazyLoads == /\ lazy = 0 /\ lazy' = 1
                  /\ UNCHANGED <<web, scheduler, sources, ready, padding, failed>>

(* loadRole, and markLoaded: on the native side also of a layer whose      *)
(* player could not be made.                                               *)
LazyLoads(ok) ==
    LET role == LAZY_LAYER_ROLES[lazy] IN
    /\ lazy \in DOMAIN LAZY_LAYER_ROLES
    /\ ok \/ (role \in Fragile /\ (web \/ clock))
    /\ lazy' = lazy + 1
    /\ sources' = [sources EXCEPT ![role] =
                     CASE ~ok \/ ~clock -> @
                       [] ok /\ clock /\ web -> "playing"
                       [] OTHER -> "seeking"]
    /\ ready' = IF ok THEN ready \cup {role} ELSE ready
    /\ failed' = IF ok THEN failed ELSE failed \cup {role}
    /\ IF ok \/ ~web
       THEN /\ sched' = [sched EXCEPT !.loaded = @ \cup {role}]
            /\ queueFromProgress(sched')
       ELSE UNCHANGED <<sched, pending, timers>>
    /\ UNCHANGED <<web, clock, gains, fade, padding>>

(* A native player has been rewound; it plays, whatever came since.        *)
SeekDone(role) ==
    /\ sources[role] = "seeking"
    /\ sources' = [sources EXCEPT ![role] = "playing"]
    /\ UNCHANGED <<web, scheduler, ready, lazy, padding, failed>>

AllPlay == [role \in Role |-> IF sources[role] = "none" THEN "none"
                              ELSE "playing"]

(* reAlignToMaster, at every turn of the loop.                             *)
reAlignToMaster ==
    /\ "align" \in timers
    /\ sources' = AllPlay
    /\ UNCHANGED <<web, scheduler, ready, lazy, padding, failed>>

pause ==
    /\ sched' = [sched EXCEPT !.paused = TRUE]
    /\ timers' = {}
    /\ sources' = IF web THEN sources
                  ELSE [role \in Role |-> IF sources[role] = "playing"
                                          THEN "still" ELSE sources[role]]
    /\ UNCHANGED <<web, clock, gains, pending, fade, ready, lazy, padding,
                   failed>>

(* A fade goes on where it was; one of the web whose time is up has ended. *)
resume(late) ==
    LET ends == fade # Unset /\ web /\ late IN
    /\ web \/ sched.enabled
    /\ sources' = IF web THEN sources ELSE AllPlay
    /\ IF sched.paused
       THEN /\ sched' = [sched EXCEPT !.paused = FALSE]
            /\ IF ends THEN gains' = fade /\ fade' = Unset
               ELSE UNCHANGED <<gains, fade>>
            /\ timers' = {t \in {"bar", "fade", "align"} :
                            CASE t = "bar" -> pending # Unset /\ clock
                                              /\ sched.enabled
                              [] t = "fade" -> fade # Unset /\ ~ends
                              [] OTHER -> ~web /\ clock}
       ELSE UNCHANGED <<sched, gains, fade, timers>>
    /\ UNCHANGED <<web, clock, pending, ready, lazy, padding, failed>>

Stopped ==
    /\ clock' = FALSE /\ gains' = Mute /\ pending' = Unset /\ fade' = Unset
    /\ timers' = {} /\ sources' = [role \in Role |-> "none"]

stop == /\ Stopped
        /\ UNCHANGED <<web, sched, ready, lazy, padding, failed>>

setEnabled(on) ==
    /\ sched' = [sched EXCEPT !.enabled = on]
    /\ IF on THEN UNCHANGED <<clock, gains, pending, fade, timers, sources>>
       ELSE Stopped
    /\ UNCHANGED <<web, ready, lazy, padding, failed>>

Next ==
    \/ \E l \in Levels : setProgress(l)
    \/ fireBar \/ startLazyLoads \/ reAlignToMaster \/ pause \/ stop
    \/ \E last \in BOOLEAN : FadeTick(last)
    \/ \E broken \in SUBSET Fragile : ensureStarted(broken)
    \/ \E ok \in BOOLEAN : PadDecoded(ok) \/ LazyLoads(ok)
    \/ \E role \in Role : SeekDone(role)
    \/ \E late \in BOOLEAN : resume(late)
    \/ \E on \in BOOLEAN : setEnabled(on)

Spec == Init /\ [][Next]_layersVars

-----------------------------------------------------------------------------
(* Properties.                                                             *)

(* The layers settle on what complexity and laterality call for, of what   *)
(* has been loaded, and the two arps are heard together only in a fade;    *)
(* and what has been loaded plays, unless it could not be made.            *)
Running == clock /\ sched.enabled /\ ~sched.paused
LayersSettle ==
    /\ Running /\ {"bar", "fade"} \cap timers = {} =>
         fade = Unset /\ pending = Unset
         /\ gains = audibleGains(sched.level, sched.loaded)
    /\ fade = Unset => Silent \in {gains["arp"], gains["arp-bright"]}
    /\ clock => \A role \in sched.loaded \ failed :
         (role = "pad" /\ padding) \/ sources[role] # "none"

(* A gain changes in a fade, which a bar begins, or when all layers start  *)
(* or stop.                                                                *)
EntersAtBars ==
    [][gains' # gains => fade # Unset \/ clock' # clock]_layersVars
=============================================================================
