----------------------------- MODULE SoundMusic -----------------------------
(***************************************************************************)
(* The client's background music: an intro pad that gives way to a bed,    *)
(* textures over the bed, drop-ins while the reader is idle, a short duck  *)
(* after a reshuffle, and the adaptive layers, all under the lifecycle of  *)
(* the app: background and foreground, interruptions, a screen reader,     *)
(* announcements, and the Music preference.                                *)
(*                                                                         *)
(* Nothing loops by itself: each copy of a loop arms a timer that starts   *)
(* the next copy and fades the old one out.  Fades, loops, drop-ins and    *)
(* ducks are timers of one thread; here a timer is armed or not and fires  *)
(* whenever it is armed.                                                   *)
(***************************************************************************)
EXTENDS Integers, Sequences, FiniteSets, SequencesExt

CONSTANTS
    MaxPlayers,   \* MUSIC_MAX_PLAYERS, 5 in the code
    Grades,       \* pairs of complexity and laterality in play, each in 1..5
    Interruptions \* whether notifySoundInterruption is called; effects are
                  \* followed until it is

VARIABLES
    engine,   \* the music engine: [enabled, grade, random, reduceMotion, phase,
              \* paused, dropInsPaused, discovery, duck, timers], and slots, its
              \* players in order of creation
    layers,   \* the adaptive layers: [started, gain]
    flags,    \* SoundSystemFlags
    intro,    \* "none", "started" or "ready": events the screen has sent
    effect,   \* an effect on the other bus: [seeking, duck]
    early,    \* a bed was restarted before the intro was over (history)
    hurt      \* an interruption came (history)

vars == <<engine, layers, flags, intro, effect, early, hurt>>

-----------------------------------------------------------------------------
(* What progress calls for.                                                *)

(* computeMusicProgress in eighths.                                        *)
Eighths(e) == (e.grade[1] - 1) + (e.grade[2] - 1)

bedAsset(e) ==
    IF e.random \/ 100 * Eighths(e) >= 55 * 8 THEN "bright" ELSE "calm"

Tiers(e) == {t \in {25, 50, 75, 90} : 100 * Eighths(e) >= t * 8}
textureCount(e) ==
    LET n == Cardinality(Tiers(e)) IN
    IF n > 1 /\ (e.reduceMotion \/ e.grade[1] >= 4) THEN 1 ELSE n
(* scheduleTextureRotate does not ask for the cap of high complexities.    *)
rotates(e) == ~e.reduceMotion /\ Cardinality(Tiers(e)) > 1

(* resolvePlaybackGates                                                    *)
allowMusicStart(f) == engine.enabled /\ f.active /\ ~f.interrupted
allowEffects == flags.active /\ ~flags.reader /\ ~flags.announcing
dropInsGated(f) ==
    ~f.active \/ f.interrupted \/ f.reader \/ f.announcing \/ ~engine.enabled

-----------------------------------------------------------------------------
(* Players.                                                                *)

Slot(kind, asset, loop) ==
    [kind |-> kind, asset |-> asset, loop |-> loop,
     stopping |-> FALSE, fades |-> FALSE]

Loops(x) == x.kind \in {"intro", "bed", "texture"}
Live(e, kind) == {i \in DOMAIN e.slots :
                    e.slots[i].kind = kind /\ ~e.slots[i].stopping}

(* A set of numbers in their order.                                        *)
Ordered(S) ==
    CHOOSE f \in [1..Cardinality(S) -> S] :
        \A i, j \in 1..Cardinality(S) : i < j => f[i] < f[j]

Only(s, kept) ==
    [k \in 1..Cardinality(kept) |-> s[Ordered(kept)[k]]]
RemoveAll(s, gone) == Only(s, DOMAIN s \ gone)

(* ensureBudget(1): what fades out goes first, then drop-in, texture and   *)
(* arrival, the oldest of its kind.                                        *)
Expendable == <<"stopping", "dropin", "texture", "arrival">>
Worth(x) == IF x.stopping THEN "stopping" ELSE x.kind
Evicted(s) ==
    LET Of(w) == {i \in DOMAIN s : Worth(s[i]) = w}
        found == {k \in DOMAIN Expendable : Of(Expendable[k]) # {}}
    IN IF Len(s) < MaxPlayers \/ found = {} THEN {}
       ELSE {Min(Of(Expendable[Min(found)]))}
ensureBudget(s) == RemoveAll(s, Evicted(s))

createSlot(s, slot) ==
    LET room == ensureBudget(s) IN
    IF Len(room) < MaxPlayers THEN Append(room, slot) ELSE s

(* What leaves fades out and loops no more; what it was no longer matters. *)
Leaving == [kind |-> "leaving", asset |-> 0, loop |-> FALSE,
            stopping |-> TRUE, fades |-> TRUE]
FadeOut(s, leaving) ==
    [i \in DOMAIN s |->
        IF ~s[i].stopping /\ i \in leaving THEN Leaving ELSE s[i]]

stopKind(e, kind) ==
    [e EXCEPT !.slots = FadeOut(@, Live(e, kind))]

-----------------------------------------------------------------------------
(* Beds, textures and drop-ins.  can is what canStart answers.             *)

syncBed(e, can) ==
    LET bed == Live(e, "bed")
        bare == stopKind(e, "bed").slots
        slots == createSlot(bare, Slot("bed", bedAsset(e), TRUE))
    IN
    CASE ~can \/ e.phase = "intro" -> e
      [] can /\ e.phase # "intro" /\ bed # {}
           /\ e.slots[Min(bed)].asset = bedAsset(e) -> e
      [] OTHER ->
           IF slots = bare THEN [e EXCEPT !.slots = bare]
           ELSE [e EXCEPT !.slots = slots, !.phase = "bed"]

syncTextures(e) ==
    LET kept == FadeOut(e.slots, {i \in Live(e, "texture") :
                                     e.slots[i].asset > textureCount(e)})
        present == {e.slots[i].asset : i \in Live(e, "texture")}
        missing == (1..textureCount(e)) \ present
        room == MaxPlayers - Len(kept) - 1
        added == [i \in 1..Min({Cardinality(missing), Max({0, room})}) |->
                    Slot("texture", Ordered(missing)[i], TRUE)]
    IN IF e.phase # "bed" \/ ~e.enabled \/ e.paused THEN e
       ELSE [e EXCEPT !.slots = kept \o added]

scheduleDropIn(e) ==
    [e EXCEPT !.timers = (@ \ {"dropin"}) \cup
        (IF e.phase = "bed" /\ e.enabled /\ ~e.dropInsPaused
         THEN {"dropin"} ELSE {})]

scheduleTextureRotate(e) ==
    [e EXCEPT !.timers = (@ \ {"rotate"}) \cup
        (IF e.phase = "bed" /\ e.enabled /\ rotates(e) THEN {"rotate"} ELSE {})]

startIntro(e, can) ==
    LET bare == stopKind(e, "intro").slots IN
    IF ~can THEN e
    ELSE [e EXCEPT !.phase = "intro",
                   !.slots = createSlot(bare, Slot("intro", 0, TRUE))]

startArrivalAndBed(e, can) ==
    LET arrival == createSlot(e.slots, Slot("arrival", 0, FALSE))
        bed == createSlot(arrival, Slot("bed", bedAsset(e), TRUE))
        in == stopKind([e EXCEPT !.slots = bed, !.phase = "bed"], "intro")
    IN IF ~can THEN e
       ELSE scheduleTextureRotate(scheduleDropIn(syncTextures(in)))

onDiscoveryLanded(e) ==
    [stopKind(e, "texture") EXCEPT
        !.discovery = TRUE, !.timers = @ \cup {"discovery"}]

-----------------------------------------------------------------------------
(* Mutant: only beds are stopped.                                          *)
stopBeds(e) == [stopKind(e, "bed") EXCEPT !.phase = "stopped", !.timers = {}]

(* The hooks of the lifecycle.                                             *)

pauseDropIns(e) ==
    [stopKind(e, "dropin") EXCEPT
        !.dropInsPaused = TRUE, !.timers = @ \ {"dropin"}]

resumeDropIns(e) == scheduleDropIn([e EXCEPT !.dropInsPaused = FALSE])

(* Timers go; so do the players whose end was one of them.                 *)
pause(e) ==
    LET s == e.slots
        stays == {i \in DOMAIN s : ~s[i].stopping /\ Loops(s[i])}
        still == [i \in DOMAIN s |-> [s[i] EXCEPT !.loop = FALSE]]
    IN IF e.paused THEN e
       ELSE [e EXCEPT !.paused = TRUE, !.timers = {},
                      !.slots = Only(still, stays)]

(* Of two live copies of a loop one is kept; every loop is armed again.    *)
resume(e, can) ==
    LET s == e.slots
        kept == {i \in DOMAIN s : /\ ~s[i].stopping /\ Loops(s[i])
                                  /\ \A j \in 1..(i - 1) :
                                       ~s[j].stopping =>
                                         \/ s[j].kind # s[i].kind
                                         \/ s[j].asset # s[i].asset}
        armed == [i \in DOMAIN s |-> [s[i] EXCEPT !.loop = TRUE]]
        back == [e EXCEPT !.paused = FALSE, !.slots = Only(armed, kept)]
    IN IF ~can THEN e
       ELSE IF e.phase = "bed"
            THEN scheduleTextureRotate(scheduleDropIn(back)) ELSE back

stop(e) ==
    [e EXCEPT !.phase = "stopped", !.timers = {},
              !.slots = [i \in DOMAIN @ |-> Leaving]]

restartBed(e, can) ==
    LET bare == [e EXCEPT !.paused = FALSE, !.phase = "bed",
                   !.slots = FadeOut(@, DOMAIN @ \ Live(e, "bed"))]
    IN IF ~can THEN e
       ELSE scheduleTextureRotate(scheduleDropIn(
                syncTextures(syncBed(bare, can))))

-----------------------------------------------------------------------------
Init ==
    /\ \E g \in Grades :
         engine = [enabled |-> TRUE, grade |-> g, random |-> FALSE,
                   reduceMotion |-> FALSE, phase |-> "idle",
                   paused |-> FALSE, dropInsPaused |-> FALSE,
                   discovery |-> FALSE, duck |-> "full", timers |-> {},
                   slots |-> <<>>]
    /\ layers = [started |-> FALSE, gain |-> "full"]
    /\ flags = [active |-> TRUE, interrupted |-> FALSE, reader |-> FALSE,
                announcing |-> FALSE]
    /\ intro = "none"
    /\ effect = [seeking |-> FALSE, duck |-> FALSE]
    /\ early = FALSE /\ hurt = FALSE

-----------------------------------------------------------------------------
(* Timers.                                                                 *)

EngineOnly == UNCHANGED <<layers, flags, intro, effect, early, hurt>>

(* A faded player is released.                                             *)
FadeEnds(i) ==
    /\ engine.slots[i].fades
    /\ engine' = [engine EXCEPT !.slots = RemoveAll(@, {i})]
    /\ EngineOnly

(* An arrival or a drop-in is over.                                        *)
OneShotEnds(i) ==
    /\ ~Loops(engine.slots[i]) /\ ~engine.slots[i].stopping
    /\ engine' = [engine EXCEPT !.slots[i] = Leaving]
    /\ EngineOnly

(* scheduleCrossfadeLoop: the next copy starts and the old one fades out;  *)
(* without room the old one is tried again.  It may be the one to go.      *)
LoopTurns(i) ==
    LET s == engine.slots
        due == [s EXCEPT ![i].loop = FALSE]
    IN
    /\ s[i].loop
    /\ engine' = [engine EXCEPT !.slots =
         IF engine.paused \/ ~engine.enabled \/ engine.phase = "stopped" THEN due
         ELSE IF Len(s) = MaxPlayers /\ Evicted(due) = {} THEN s
         ELSE Append(RemoveAll([s EXCEPT ![i] = Leaving], Evicted(due)), s[i])]
    /\ EngineOnly

Fires(timer) == timer \in engine.timers
Fired(timer) == [engine EXCEPT !.timers = @ \ {timer}]

(* tryPlayDropIn; idle: no gesture just before.                            *)
DropInFires(idle) ==
    LET e == Fired("dropin") IN
    /\ Fires("dropin")
    /\ engine' = scheduleDropIn(
         IF /\ idle /\ e.phase = "bed" /\ ~e.paused /\ ~e.dropInsPaused
            /\ allowMusicStart(flags)
            /\ ~flags.reader /\ ~flags.announcing
         THEN [e EXCEPT !.slots = createSlot(@, Slot("dropin", 0, FALSE))]
         ELSE e)
    /\ EngineOnly

(* One texture is faded out, or none, and what is missing comes in.        *)
RotateFires(victims) ==
    LET e == Fired("rotate") IN
    /\ Fires("rotate")
    /\ victims # {} => textureCount(e) > 1
    /\ engine' = IF e.phase # "bed" \/ e.paused THEN e
                 ELSE scheduleTextureRotate(syncTextures([e EXCEPT !.slots =
                        FadeOut(@, {i \in Live(e, "texture") :
                                       @[i].asset \in victims})]))
    /\ EngineOnly

DiscoveryEnds ==
    /\ Fires("discovery")
    /\ engine' = syncTextures([Fired("discovery") EXCEPT !.discovery = FALSE])
    /\ EngineOnly

-----------------------------------------------------------------------------
(* Events of the screen.                                                   *)

IntroStarted ==
    /\ intro = "none"
    /\ intro' = "started"
    /\ engine' = startIntro(engine, allowMusicStart(flags))
    /\ UNCHANGED <<layers, flags, effect, early, hurt>>

IntroReady ==
    /\ intro = "started"
    /\ intro' = "ready"
    /\ engine' = startArrivalAndBed(engine, allowMusicStart(flags))
    /\ layers' = [layers EXCEPT !.started = @ \/ allowMusicStart(flags)]
    /\ UNCHANGED <<flags, effect, early, hurt>>

(* setProgressInputs, complexity_changed and laterality_step.              *)
SetProgress(g) ==
    LET e == [engine EXCEPT !.grade = g] IN
    /\ g # engine.grade
    /\ engine' = IF e.phase = "bed"
                 THEN syncTextures(syncBed(e, allowMusicStart(flags)))
                 ELSE e
    /\ EngineOnly

SetReducedMotion ==
    LET e == [engine EXCEPT !.reduceMotion = ~@] IN
    /\ engine' = IF e.phase = "bed" THEN syncTextures(e) ELSE e
    /\ EngineOnly

ReshuffleStarted(random) ==
    /\ engine' = [engine EXCEPT !.random = random]
    /\ EngineOnly

ReshuffleLanded(random) ==
    LET e == [engine EXCEPT !.random = random] IN
    /\ intro = "ready"
    /\ engine' = onDiscoveryLanded(
                    IF random THEN syncBed(e, allowMusicStart(flags)) ELSE e)
    /\ EngineOnly

(* setSoundPreferences, with what was stored or by the menu.               *)
SetMusic(on) ==
    LET e == [engine EXCEPT !.enabled = on] IN
    /\ on # engine.enabled /\ (on => intro # "none")
    /\ engine' = IF on THEN restartBed(e, flags.active /\ ~flags.interrupted)
                 ELSE pauseDropIns(stop(e))
    /\ layers' = [layers EXCEPT !.started = @ /\ on]
    /\ early' = (early \/ (on /\ intro # "ready"))
    /\ UNCHANGED <<flags, intro, effect, hurt>>

-----------------------------------------------------------------------------
(* Flags of the system: applyMusicLifecycleTransition with the hooks that  *)
(* sound.ts registers.  duck sets the engine's own gain for the reader and *)
(* the gain of the layers.                                                 *)

duckFor(f) == IF f.reader THEN "reader" ELSE "full"

gateDropIns(e, f) ==
    IF dropInsGated(f) THEN pauseDropIns(e) ELSE resumeDropIns(e)

AppActive(active) ==
    LET f == [flags EXCEPT !.active = active]
        can == allowMusicStart(f)
        back == gateDropIns(restartBed(engine, can), f)
    IN
    /\ active # flags.active
    /\ flags' = f
    /\ IF active
       THEN /\ engine' = [back EXCEPT !.duck = IF f.reader THEN "reader" ELSE @]
            /\ layers' = [started |-> layers.started \/ can, gain |->
                             IF f.reader THEN "reader" ELSE layers.gain]
            /\ early' = (early \/ (can /\ intro # "ready"))
       ELSE /\ engine' = pauseDropIns(stop(engine))
            /\ layers' = [layers EXCEPT !.started = FALSE]
            /\ UNCHANGED early
    /\ UNCHANGED <<intro, effect, hurt>>

Interruption(began) ==
    LET f == [flags EXCEPT !.interrupted = began]
        back == resume(engine, allowMusicStart(f))
    IN
    /\ Interruptions /\ began # flags.interrupted
    /\ ~effect.seeking /\ ~effect.duck
    /\ flags' = f
    /\ IF began
       THEN engine' = pauseDropIns(pause(engine)) /\ UNCHANGED layers
       ELSE /\ engine' = [IF dropInsGated(f) THEN back ELSE resumeDropIns(back)
                            EXCEPT !.duck = duckFor(f)]
            /\ layers' = [layers EXCEPT !.gain = duckFor(f)]
    /\ hurt' = TRUE
    /\ UNCHANGED <<intro, effect, early>>

ScreenReader(on) ==
    LET f == [flags EXCEPT !.reader = on]
        back == resume(engine, allowMusicStart(f))
    IN
    /\ on # flags.reader
    /\ flags' = f
    /\ engine' = [IF on THEN pauseDropIns(engine)
                  ELSE IF dropInsGated(f) THEN back ELSE resumeDropIns(back)
                  EXCEPT !.duck = duckFor(f)]
    /\ layers' = [layers EXCEPT !.gain = duckFor(f)]
    /\ UNCHANGED <<intro, effect, early, hurt>>

(* beginAnnouncement; it ends by itself or by endAnnouncement.             *)
Announcement(on) ==
    LET f == [flags EXCEPT !.announcing = on] IN
    /\ on # flags.announcing
    /\ flags' = f
    /\ engine' = IF dropInsGated(f) = dropInsGated(flags) THEN engine
                 ELSE gateDropIns(engine, f)
    /\ UNCHANGED <<layers, intro, effect, early, hurt>>

-----------------------------------------------------------------------------
(* The duck for effects of the other bus.  An effect allowed now starts    *)
(* when its player has been rewound; duckEffects sets a gain of the        *)
(* engine's own and the one gain of the layers.                            *)

EffectAllowed ==
    /\ allowEffects /\ ~effect.seeking /\ ~hurt
    /\ effect' = [effect EXCEPT !.seeking = TRUE]
    /\ UNCHANGED <<engine, layers, flags, intro, early, hurt>>

noteEffectStarted ==
    /\ effect.seeking
    /\ effect' = [seeking |-> FALSE, duck |-> TRUE]
    /\ layers' = [layers EXCEPT !.gain = IF effect.duck THEN @ ELSE "effect"]
    /\ UNCHANGED <<engine, flags, intro, early, hurt>>

(* The timer of the effect that started last, which is armed with the duck.*)
EffectEnds ==
    /\ effect.duck
    /\ effect' = [effect EXCEPT !.duck = FALSE]
    /\ layers' = [layers EXCEPT !.gain = "full"]
    /\ UNCHANGED <<engine, flags, intro, early, hurt>>

-----------------------------------------------------------------------------
Timers ==
    \/ \E i \in DOMAIN engine.slots :
         FadeEnds(i) \/ OneShotEnds(i) \/ LoopTurns(i)
    \/ \E idle \in BOOLEAN : DropInFires(idle)
    \/ \E victims \in {{}} \cup {{t} : t \in 1..4} : RotateFires(victims)
    \/ DiscoveryEnds

Screen ==
    \/ IntroStarted \/ IntroReady \/ SetReducedMotion
    \/ \E g \in Grades : SetProgress(g)
    \/ \E random \in BOOLEAN :
         ReshuffleStarted(random) \/ ReshuffleLanded(random)
    \/ \E on \in BOOLEAN : SetMusic(on)

System == \E on \in BOOLEAN : \/ AppActive(on) \/ Interruption(on)
                              \/ ScreenReader(on) \/ Announcement(on)

Effects == EffectAllowed \/ noteEffectStarted \/ EffectEnds

Next == Timers \/ Screen \/ System \/ Effects

Spec == Init /\ [][Next]_vars

-----------------------------------------------------------------------------
(* Properties.                                                             *)

Kind == {"leaving", "intro", "bed", "texture", "arrival", "dropin"}
TypeOK ==
    /\ Len(engine.slots) <= MaxPlayers
    /\ \A i \in DOMAIN engine.slots : engine.slots[i].kind \in Kind
    /\ engine.phase \in {"idle", "intro", "bed", "stopped"}
    /\ engine.timers \subseteq {"dropin", "rotate", "discovery"}

(* A loop that plays has its next turn armed, and one that leaves has its  *)
(* release armed: no timer that was cleared leaves a player behind.        *)
PlayersHaveTimers ==
    \A i \in DOMAIN engine.slots :
        LET x == engine.slots[i] IN
        /\ x.stopping => x.fades
        /\ ~x.stopping /\ Loops(x) /\ ~engine.paused => x.loop

(* Nothing plays on in the background or with Music off.                   *)
SilentWhenOff ==
    ~flags.active \/ ~engine.enabled =>
        /\ ~layers.started
        /\ \A i \in DOMAIN engine.slots : engine.slots[i].stopping

(* One bed after the intro, unless a bed was started before the intro was  *)
(* over; and one as soon as music may play again.                          *)
OneBedAfterIntro ==
    /\ ~early => Cardinality(Live(engine, "bed")) <= 1
    /\ intro = "ready" /\ allowMusicStart(flags) /\ ~hurt =>
         Live(engine, "bed") # {}

(* Not so for a bed started before the intro was over: at most one bed.    *)
AlwaysOneBed == Cardinality(Live(engine, "bed")) <= 1

(* Not so after music was off: drop-ins go on when nothing speaks against  *)
(* them.                                                                   *)
DropInsGoOn ==
    engine.phase = "bed" /\ ~dropInsGated(flags) => "dropin" \in engine.timers

(* As many textures as progress allows, at most one at high complexity.    *)
TexturesAreCapped ==
    engine.phase = "bed" /\ ~hurt =>
        Cardinality(Live(engine, "texture")) <= textureCount(engine)

(* What is read out is heard: music is low under a screen reader, and only *)
(* then, and no drop-in plays over one, an announcement or an              *)
(* interruption.                                                           *)
DropInsKeepQuiet ==
    dropInsGated(flags) =>
        engine.dropInsPaused /\ Live(engine, "dropin") = {}
ReaderIsHeard == engine.duck = duckFor(flags) /\ DropInsKeepQuiet

(* Not so: an effect that ends does not bring the layers back over a       *)
(* screen reader.                                                          *)
LayersStayDucked ==
    flags.reader /\ layers.started => layers.gain # "full"

(* Not so after a pause or a stop: the duck of a discovery passes.         *)
DiscoveryPasses == engine.discovery => "discovery" \in engine.timers
=============================================================================
