---------------------------- MODULE Preferences ----------------------------
(***************************************************************************)
(* One preference of the reader -- motion, sound, language, laterality or  *)
(* complexity -- from storage to the screen and back: how it is loaded at  *)
(* the start, when it can be changed, and what of it is stored.            *)
(*                                                                         *)
(* Storage is AsyncStorage: nobody waits for a write, it may fail without  *)
(* notice, and those not yet done are gone when the process is killed.     *)
(* Preferences touch each other only through the intro, which stays until  *)
(* all of them are loaded; so one is looked at, and the rest is a flag.    *)
(***************************************************************************)
EXTENDS Integers, Sequences, FiniteSetsExt

CONSTANTS
    Choice,     \* [Key -> values of it that the reader picks from]
    Stored,     \* [Key -> what storage may hold at the start]
    None,       \* nothing is stored; the URL does not name it
    Junk,       \* storage holds something else, or reading it fails
    MaxWrites   \* bound on the writes under way

VARIABLES
    key,        \* the preference
    stored,     \* what storage holds
    writes,     \* writes under way, in order
    pref,       \* what the screen holds, a state of HomeScreen
    hydrated,   \* it is loaded
    others,     \* the other preferences and the fonts are loaded
    intro,      \* the intro is on screen
    url,        \* [asks, live]: what the URL named at the start, and whether it
                \* still does
    swap,       \* laterality: [committed, running]
    motion,     \* motion: [os, seen, web, news]: the setting of the system, the two
                \* states of useReducedMotion, and whether a change is on its way
    settled,    \* what the reader settled for (history)
    session,    \* why pref may differ from it (history): "own", "url" or
                \* "fallback"
    lost        \* the last write was lost (history)

vars == <<key, stored, writes, pref, hydrated, others, intro, url, swap,
          motion, settled, session, lost>>

Key == {"motion", "sound", "locale", "laterality", "complexity"}
Graded == {"laterality", "complexity"}
Channel == {"sound", "music", "effects"}

-----------------------------------------------------------------------------
(* Reading what is stored.                                                 *)

clampLaterality(n) == Min({5, Max({1, n})})
clampComplexity(n) == Min({5, Max({1, n})})

loadStoredMotionPreference(raw) == IF raw \in {None, Junk} THEN "system" ELSE raw

(* Of an object each channel counts by itself; what is no Boolean is on.   *)
parseSoundPreferences(raw) ==
    [c \in Channel |-> IF raw \in {None, Junk} THEN TRUE
                       ELSE IF c \in DOMAIN raw THEN raw[c] ELSE TRUE]

loadStoredLocale(raw) == IF raw = Junk THEN None ELSE raw
loadStoredLaterality(raw) == IF raw \in {None, Junk} THEN 3 ELSE clampLaterality(raw)
loadStoredComplexity(raw) == IF raw \in {None, Junk} THEN 2 ELSE clampComplexity(raw)

(* The device speaks English.                                              *)
resolveLocalePreference(own, asked) ==
    IF own # None THEN own ELSE IF asked # None THEN asked ELSE "en"

(* The grades of the URL are remembered; its language is read again.       *)
rememberedWebSearch == url.asks
readWebLocaleParam == IF url.live THEN url.asks ELSE None

Own(raw) ==
    CASE key = "motion" -> loadStoredMotionPreference(raw)
      [] key = "sound" -> parseSoundPreferences(raw)
      [] key = "locale" -> resolveLocalePreference(loadStoredLocale(raw), None)
      [] key = "laterality" -> loadStoredLaterality(raw)
      [] key = "complexity" -> loadStoredComplexity(raw)

(* What a load yields: resolveInitialLaterality and its like.              *)
Loaded ==
    IF key \in Graded /\ rememberedWebSearch # None THEN rememberedWebSearch
    ELSE IF key = "locale"
         THEN resolveLocalePreference(loadStoredLocale(stored),
                                      readWebLocaleParam)
         ELSE Own(stored)

(* First paint: defaults; the language is resolved without storage.        *)
Initial ==
    IF key = "locale" THEN resolveLocalePreference(None, url.asks) ELSE Own(None)

-----------------------------------------------------------------------------
(* Nothing of the system's setting is known on native: reduced.            *)
initialPrefersReducedMotion(os, web) == web => os

StartOf(os, web) == [os |-> os, seen |-> initialPrefersReducedMotion(os, web),
                     web |-> web /\ os, news |-> FALSE, browser |-> web]

Started ==
    /\ hydrated' = FALSE /\ others' = FALSE /\ intro' = TRUE
    /\ session' = "own" /\ swap' = [committed |-> Own(None), running |-> FALSE]

Init ==
    /\ key \in Key
    /\ stored \in Stored[key]
    /\ writes = <<>>
    /\ \E asks \in {None} \cup (IF key \in Graded \cup {"locale"}
                                THEN Choice[key] ELSE {}) :
         url = [asks |-> asks, live |-> TRUE]
    /\ pref = Initial
    /\ hydrated = FALSE /\ others = FALSE /\ intro = TRUE
    /\ swap = [committed |-> Own(None), running |-> FALSE]
    /\ \E os, web \in BOOLEAN :
         /\ key # "motion" => ~os /\ ~web
         /\ motion = StartOf(os, web)
    /\ settled = Own(stored) /\ session = "own" /\ lost = FALSE

-----------------------------------------------------------------------------
(* Loading.                                                                *)

Hydrate ==
    /\ ~hydrated
    /\ hydrated' = TRUE
    /\ pref' = Loaded
    /\ swap' = [swap EXCEPT !.committed = Loaded]
    /\ session' = IF url.asks # None THEN "url" ELSE "own"
    /\ UNCHANGED <<key, stored, writes, others, intro, url, motion, settled,
                   lost>>

OthersReady ==
    /\ ~others
    /\ others' = TRUE
    /\ UNCHANGED <<key, stored, writes, pref, hydrated, intro, url, swap, motion,
                   settled, session, lost>>

(* The router replaces the URL by one without parameters.                  *)
UrlStripped ==
    /\ url.live /\ url.asks # None
    /\ url' = [url EXCEPT !.live = FALSE]
    /\ UNCHANGED <<key, stored, writes, pref, hydrated, others, intro, swap,
                   motion, settled, session, lost>>

(* Mutant of IntroEnds: the intro does not wait for storage.               *)
IntroEndsAlone ==
    /\ intro /\ others
    /\ intro' = FALSE
    /\ UNCHANGED <<key, stored, writes, pref, hydrated, others, url, swap,
                   motion, settled, session, lost>>

(* showIntroLogo                                                           *)
IntroEnds ==
    /\ intro /\ hydrated /\ others
    /\ intro' = FALSE
    /\ UNCHANGED <<key, stored, writes, pref, hydrated, others, url, swap,
                   motion, settled, session, lost>>

-----------------------------------------------------------------------------
(* Changing.                                                               *)

Persist(v) ==
    /\ writes' = Append(writes, v) /\ Len(writes') <= MaxWrites
    /\ settled' = v /\ session' = "own"

(* The menu's pages for motion, sound and language, which pick an item     *)
(* again too.                                                              *)
PickInMenu(v) ==
    /\ ~intro /\ key \in {"motion", "sound", "locale"}
    /\ pref' = v
    /\ Persist(v)
    /\ UNCHANGED <<key, stored, hydrated, others, intro, url, swap, motion,
                   lost>>

(* The menu, the rail, or a vertical swipe.                                *)
PickComplexity(v) ==
    /\ ~intro /\ key = "complexity" /\ v # pref
    /\ pref' = v
    /\ Persist(v)
    /\ UNCHANGED <<key, stored, hydrated, others, intro, url, swap, motion,
                   lost>>

(* fetchBatch: the server has nothing for this complexity, and is asked    *)
(* for the default.                                                        *)
FallBack ==
    /\ hydrated /\ key = "complexity" /\ pref # 2
    /\ pref' = 2
    /\ session' = "fallback"
    /\ UNCHANGED <<key, stored, writes, hydrated, others, intro, url, swap,
                   motion, settled, lost>>

(* onSelectLaterality: the screen shows the grade at once; it is stored    *)
(* now only if there is no deck to swap.                                   *)
PickLaterality(v, empty) ==
    /\ ~intro /\ key = "laterality" /\ ~swap.running /\ v # pref
    /\ pref' = v
    /\ IF empty
       THEN Persist(v) /\ swap' = [swap EXCEPT !.committed = v]
       ELSE /\ swap' = [swap EXCEPT !.running = TRUE]
            /\ UNCHANGED <<writes, settled, session>>
    /\ UNCHANGED <<key, stored, hydrated, others, intro, url, motion, lost>>

SwapSucceeds ==
    /\ swap.running
    /\ swap' = [committed |-> pref, running |-> FALSE]
    /\ Persist(pref)
    /\ UNCHANGED <<key, stored, pref, hydrated, others, intro, url, motion,
                   lost>>

SwapFails ==
    /\ swap.running
    /\ swap' = [swap EXCEPT !.running = FALSE]
    /\ pref' = swap.committed
    /\ UNCHANGED <<key, stored, writes, hydrated, others, intro, url, motion,
                   settled, session, lost>>

-----------------------------------------------------------------------------
(* Storage and the process.                                                *)

WriteEnds(done) ==
    /\ writes # <<>>
    /\ writes' = Tail(writes)
    /\ stored' = IF done THEN Head(writes) ELSE stored
    /\ lost' = ~done
    /\ UNCHANGED <<key, pref, hydrated, others, intro, url, swap, motion,
                   settled, session>>

(* The process is killed and starts again; what is not stored is forgotten.*)
Restart ==
    /\ hydrated
    /\ writes' = <<>> /\ lost' = FALSE
    /\ settled' = Own(stored)
    /\ url' = [asks |-> None, live |-> TRUE]
    /\ motion' = StartOf(motion.os, motion.browser)
    /\ pref' = IF key = "locale" THEN "en" ELSE Own(None)
    /\ Started
    /\ UNCHANGED <<key, stored>>

-----------------------------------------------------------------------------
(* The system's setting: on native it is asked for and listened to, and    *)
(* the answers come in their order; the browser's is listened to as well.  *)

OsChanges ==
    /\ key = "motion" /\ ~motion.news
    /\ motion' = [motion EXCEPT !.os = ~@, !.news = TRUE]
    /\ UNCHANGED <<key, stored, writes, pref, hydrated, others, intro, url,
                   swap, settled, session, lost>>

OsTold ==
    /\ key = "motion" /\ (motion.news \/ motion.seen # motion.os)
    /\ motion' = [motion EXCEPT !.seen = motion.os, !.news = FALSE,
                                !.web = motion.browser /\ motion.os]
    /\ UNCHANGED <<key, stored, writes, pref, hydrated, others, intro, url,
                   swap, settled, session, lost>>

resolveReducedMotion == motion.seen \/ motion.web \/ pref = "reduced"

(* The logo pulses once the preference is known; what follows moves.       *)
Moves == key = "motion" /\ (intro => hydrated) /\ ~resolveReducedMotion

-----------------------------------------------------------------------------
Next ==
    \/ Hydrate \/ OthersReady \/ UrlStripped \/ IntroEnds
    \/ \E v \in Choice[key] :
         \/ PickInMenu(v) \/ PickComplexity(v)
         \/ \E empty \in BOOLEAN : PickLaterality(v, empty)
    \/ FallBack \/ SwapSucceeds \/ SwapFails
    \/ \E done \in BOOLEAN : WriteEnds(done)
    \/ Restart \/ OsChanges \/ OsTold

Spec == Init /\ [][Next]_vars

-----------------------------------------------------------------------------
(* Storage ends on what the reader settled for, unless its last write was  *)
(* lost: no grade of a link, of a fallback or of a swap that failed gets   *)
(* there (shouldPersistLateralityAfterSwap, shouldPersistComplexity).      *)
OnlyPicksAreStored == writes = <<>> /\ ~lost => Own(stored) = settled

(* The screen holds what the reader settled for, but for a grade of the    *)
(* URL, of the fallback or of a swap under way: nothing that was loaded    *)
(* late overwrites it.                                                     *)
PicksStay ==
    /\ hydrated /\ ~swap.running /\ session = "own" => pref = settled
    /\ key = "laterality" /\ hydrated /\ ~swap.running => pref = swap.committed

(* Nothing moves when the system, the browser or the reader says reduced.  *)
MotionIsAskedFor ==
    Moves => /\ ~motion.news => ~motion.os
             /\ settled # "reduced"

PreferencesAreKept == OnlyPicksAreStored /\ PicksStay /\ MotionIsAskedFor

(* Not so when the router is faster than storage: the language of the URL  *)
(* is kept, as its grades are ("session params still apply").              *)
LocaleKeepsUrl ==
    key = "locale" /\ hydrated /\ session = "url" /\ stored \in {None, Junk} =>
        pref = url.asks
=============================================================================
