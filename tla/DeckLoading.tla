---------------------------- MODULE DeckLoading ----------------------------
(***************************************************************************)
(* The deck of the client's home screen: the first load, loading more at   *)
(* the end, the bounded retry of empty batches, exchanging what lies ahead *)
(* for another complexity, the reshuffle for another laterality, and the   *)
(* one status line that offers Retry or Adjust.                            *)
(*                                                                         *)
(* All of it runs in one JavaScript thread, but every fetch is awaited:    *)
(* swipes, picks, timers and other answers come in between.  The code      *)
(* guards an answer with a generation (fetchGenRef): an answer whose       *)
(* request is older than the last reload, complexity or laterality change  *)
(* is dropped.  Here a request carries current, which such a change        *)
(* clears; that is all the code ever asks of the generation.               *)
(***************************************************************************)
EXTENDS Integers, Sequences, FiniteSets

CONSTANTS
    Card,           \* concepts, by their case-folded name
    Complexity,     \* complexities in play, a set of neighbouring grades
    DefaultComplexity,
    Laterality,     \* laterality grades in play
    BatchSize,      \* bound: cards in an answer
    PrefetchAhead,  \* UNVISITED_AHEAD_PREFETCH_AT, 2 in the code
    MaxEmpty,       \* MAX_EMPTY_RETRY_ATTEMPTS, 3 in the code
    None

(* A request; load-more also says what it started from and whether its     *)
(* answer is still wanted.                                                 *)
Request == [cx : Complexity, lat : Laterality, tier : {"asked", "default"}]
MoreRequest == [cx : Complexity, lat : Laterality, tier : {"asked", "default"},
                step : {"seed", "unseeded", "cold"}, current : BOOLEAN]

ASSUME DeckAssumption ==
    /\ Complexity \subseteq Int /\ DefaultComplexity \in Complexity
    /\ {BatchSize, PrefetchAhead, MaxEmpty} \subseteq Nat
    /\ Laterality # {} /\ None \notin Laterality \cup MoreRequest

VARIABLES
    hydrated,    \* what has been read from storage or is ready
    deck,        \* concepts
    index,       \* currentIndex, from 0
    complexity,
    laterality,  \* the grade shown
    committed,   \* committedLateralityRef, what a failed reshuffle goes back to
    dealt,       \* the grade the cards ahead were last dealt for (history)
    error,       \* the first load failed
    first,       \* first load in flight
    superseded,  \* first loads in flight that a retry has overtaken
    early,       \* a grade was picked while a first load for another one was
                 \* in flight, which deals or has dealt the deck (history)
    more,        \* load-more in flight (loadMoreInFlightRef)
    tree,        \* complexity prefetch in flight that is still current: None,
                 \* "seed", or "unseeded" after nothing was found for the seed
    face,        \* [loadMoreError, noNextIdea, pending]
    cycle,       \* [empties, timer]: emptyRetryCycleRef, emptyRetryTimerRef
    swap,        \* laterality reshuffle
    snapshot,    \* lateralitySnapshotRef
    retryGrade,  \* lateralityRetryGradeRef
    swapFailed,  \* lateralityFetchFailed
    offline,
    due,         \* a render has changed what the prefetch effect depends on
    dropped,     \* the reader waits, and an answer he waits for was dropped
                 \* (history)
    meddled      \* Retry of the offline line was pressed while the cards were
                 \* reshuffled (history)

grades == <<complexity, laterality, committed, dealt>>
loads == <<error, first, superseded, early>>
ghosts == <<dropped, meddled>>
swapVars == <<swap, snapshot, retryGrade, swapFailed>>
vars == <<hydrated, deck, index, grades, loads, more, tree, face, cycle,
          swapVars, offline, due, ghosts>>

-----------------------------------------------------------------------------
(* Batches and decks.                                                      *)

Names(d) == {d[i] : i \in DOMAIN d}

(* What the server can answer with: different concepts, at least the one   *)
(* it started from.                                                        *)
Batch == {b \in UNION {[1..n -> Card] : n \in 1..BatchSize} :
            \A i, j \in DOMAIN b : b[i] = b[j] => i = j}

(* Mutant: the answer is appended as it comes.                             *)
mergeRelated(existing, related) == related

(* The cards that are not in the deck, in the order of the answer.         *)
mergeUniqueRelated(existing, related) ==
    LET new == {i \in DOMAIN related : related[i] \notin Names(existing)}
        before(i) == Cardinality({j \in new : j < i})
    IN [k \in 1..Cardinality(new) |->
           related[CHOOSE i \in new : before(i) = k - 1]]

(* Mutant: the card on screen counts as one ahead.                         *)
VisitedBefore == SubSeq(deck, 1, index)

Visited == SubSeq(deck, 1, index + 1)
IsLast == deck # <<>> /\ index = Len(deck) - 1

-----------------------------------------------------------------------------
(* Requests.                                                               *)

Ask(c, l) == [cx |-> c, lat |-> l, tier |-> "asked"]
Outcome == {"batch", "notFound", "failed"}

(* fetchBatch: a complexity nothing is prefetched for is asked for once    *)
(* more at the default complexity, and with the laterality of now.         *)
FallsBack(r, outcome) ==
    outcome = "notFound" /\ r.tier = "asked" /\ r.cx # DefaultComplexity
FellBack(r) == [r EXCEPT !.tier = "default", !.lat = laterality]

(* When that brings an answer the default becomes the complexity, whoever  *)
(* asked and whatever was picked since.                                    *)
ComplexityAfter(r, outcome) ==
    IF outcome = "batch" /\ r.tier = "default" THEN DefaultComplexity
    ELSE complexity

NoSwap == [phase |-> "none"]
Swapping == swap # NoSwap

(* ++fetchGenRef                                                           *)
Outdated(r) == IF r = None THEN None ELSE [r EXCEPT !.current = FALSE]

-----------------------------------------------------------------------------
(* Faces and status.                                                       *)

NoFace == [loadMoreError |-> FALSE, noNextIdea |-> FALSE, pending |-> FALSE]
FreshCycle == [empties |-> 0, timer |-> FALSE]

(* resolveDeckSlotState                                                    *)
deckSlotState ==
    CASE ~IsLast -> "card"
      [] IsLast /\ face.noNextIdea -> "noNextIdea"
      [] IsLast /\ ~face.noNextIdea /\ face.loadMoreError -> "failed"
      [] OTHER -> IF face.pending THEN "loading" ELSE "card"

(* resolveDeckChromeStatus, as far as it offers an action.                 *)
chromeStatus ==
    CASE offline -> "offline"
      [] ~offline /\ face.noNextIdea -> "noNextIdea"
      [] ~offline /\ ~face.noNextIdea /\ (face.loadMoreError \/ swapFailed)
            -> "fetchFailed"
      [] OTHER -> "none"

(* The deck is on screen, the intro and the error page are not.            *)
ToLoad == {"complexity", "laterality", "locale"}
Preference == ToLoad \cup {"screen"}
ErrorPage == error /\ deck = <<>>
showMainDeck == hydrated = Preference /\ ~ErrorPage

(* Gestures and keys reach the card stack; forward ones not on the loading *)
(* face.                                                                   *)
CanSwipe == showMainDeck /\ deck # <<>> /\ ~Swapping
CanSwipeForward == CanSwipe /\ deckSlotState # "loading"

-----------------------------------------------------------------------------
Init ==
    /\ hydrated = {} /\ deck = <<>> /\ index = 0
    /\ complexity = DefaultComplexity
    /\ laterality \in Laterality /\ committed = laterality /\ dealt = None
    /\ error = FALSE /\ first = None /\ superseded = {} /\ early = FALSE
    /\ more = None /\ tree = None
    /\ face = NoFace /\ cycle = FreshCycle
    /\ swap = NoSwap /\ snapshot = None
    /\ retryGrade = None /\ swapFailed = FALSE
    /\ offline = FALSE /\ due = FALSE
    /\ dropped = FALSE /\ meddled = FALSE

(* The prefetch effect runs after a render in which one of these changed.  *)
Watched == <<offline, first, Len(deck), index, face.loadMoreError,
             face.noNextIdea, swap.phase, swapFailed>>
Rendered == due' = (due \/ Watched' # Watched)

-----------------------------------------------------------------------------
(* The first load.                                                         *)

LoadConcepts(c, l) ==
    /\ first' = Ask(c, l)
    /\ error' = FALSE /\ early' = FALSE
    /\ face' = NoFace /\ cycle' = FreshCycle

(* A stored preference has been read; with the third of those a fetch      *)
(* needs, the deck is loaded.  The screen is ready with the rest of the    *)
(* preferences, the fonts and the intro.                                   *)
Hydrate(p) ==
    /\ p \notin hydrated
    /\ hydrated' = hydrated \cup {p}
    /\ IF p = "complexity" THEN complexity' \in Complexity
       ELSE UNCHANGED complexity
    /\ IF p \in ToLoad /\ ToLoad \subseteq hydrated'
       THEN LoadConcepts(complexity', laterality)
       ELSE UNCHANGED <<first, error, early, face, cycle>>
    /\ UNCHANGED <<deck, index, laterality, committed, dealt, superseded, more,
                   tree, swapVars, offline, ghosts>>
    /\ Rendered

FirstAnswered(outcome, b) ==
    /\ first # None
    /\ complexity' = ComplexityAfter(first, outcome)
    /\ IF FallsBack(first, outcome)
       THEN /\ first' = FellBack(first) /\ early' = FALSE
            /\ UNCHANGED <<deck, index, dealt, error, offline>>
       ELSE /\ first' = None
            /\ IF outcome = "batch"
               THEN /\ deck' = b /\ index' = 0 /\ dealt' = first.lat
                    /\ early' = (early /\ dealt' # laterality)
                    /\ offline' = FALSE       \* reportRetrySucceeded
                    /\ UNCHANGED error
               ELSE error' = TRUE /\ UNCHANGED <<deck, index, dealt, early, offline>>
    /\ UNCHANGED <<hydrated, laterality, committed, superseded, more, tree,
                   face, cycle, swapVars, ghosts>>
    /\ Rendered

(* The answer to a load that was overtaken is dropped, but its fallback    *)
(* has set the complexity.                                                 *)
SupersededAnswered(r, outcome) ==
    /\ r \in superseded
    /\ complexity' = ComplexityAfter(r, outcome)
    /\ superseded' = (superseded \ {r})
                     \cup (IF FallsBack(r, outcome) THEN {FellBack(r)} ELSE {})
    /\ UNCHANGED <<hydrated, deck, index, laterality, committed, dealt, error,
                   first, early, more, tree, face, cycle, swapVars, offline, due,
                   ghosts>>

(* Retry on the error page.                                                *)
Reload ==
    /\ hydrated = Preference /\ ErrorPage
    /\ LoadConcepts(complexity, laterality)
    /\ UNCHANGED <<hydrated, deck, index, grades, superseded, more, tree,
                   swapVars, offline, ghosts>>
    /\ Rendered

-----------------------------------------------------------------------------
(* Loading more.                                                           *)

(* loadMoreConcepts up to its first await, where f and c are the face and  *)
(* the cycle its caller leaves.                                            *)
LoadMore(f, c) ==
    IF more # None \/ deck = <<>>
    THEN /\ face' = f /\ cycle' = c
         /\ UNCHANGED more
    ELSE /\ more' = [cx |-> complexity, lat |-> laterality, tier |-> "asked",
                     step |-> "seed", current |-> TRUE]
         /\ face' = [f EXCEPT !.loadMoreError = FALSE]
         /\ cycle' = [c EXCEPT !.timer = FALSE]

(* The effect: two or fewer cards ahead.                                   *)
NearTheEnd ==
    /\ ~offline /\ first = None /\ deck # <<>>
    /\ ~face.loadMoreError /\ ~face.noNextIdea
    /\ ~Swapping /\ ~swapFailed
    /\ Len(deck) - 1 - index <= PrefetchAhead

PrefetchEffect ==
    /\ due
    /\ due' = FALSE
    /\ IF NearTheEnd THEN LoadMore(face, cycle)
       ELSE UNCHANGED <<more, face, cycle>>
    /\ UNCHANGED <<hydrated, deck, index, grades, loads, tree, swapVars,
                   offline, ghosts>>

RetryTimer ==
    /\ cycle.timer
    /\ LoadMore(face, [cycle EXCEPT !.timer = FALSE])
    /\ UNCHANGED <<hydrated, deck, index, grades, loads, tree, swapVars,
                   offline, ghosts>>
    /\ Rendered

(* applyAppendedBatch: whoever waits at the end is taken to the first new  *)
(* card.                                                                   *)
AppendBatch(add) ==
    /\ deck' = deck \o add
    /\ index' = IF face.pending THEN Len(deck) ELSE index
    /\ face' = [face EXCEPT !.noNextIdea = FALSE, !.pending = FALSE]
    /\ cycle' = FreshCycle
    /\ offline' = FALSE                       \* reportRetrySucceeded

(* Mutants: the last attempt schedules another one; it says nothing.       *)
EmptyBatchAlwaysRetried ==
    /\ cycle' = [empties |-> cycle.empties + 1, timer |-> TRUE]
    /\ face' = [face EXCEPT
                  !.noNextIdea = cycle.empties + 1 > MaxEmpty,
                  !.pending = @ /\ cycle.empties + 1 <= MaxEmpty]
    /\ UNCHANGED <<deck, index, offline>>

(* applyEmptyBatchToCycle: three more attempts, then No next idea.         *)
EmptyBatch ==
    /\ IF cycle.empties + 1 > MaxEmpty
       THEN /\ cycle' = [empties |-> cycle.empties + 1, timer |-> FALSE]
            /\ face' = [face EXCEPT !.pending = FALSE, !.noNextIdea = TRUE]
       ELSE /\ cycle' = [empties |-> cycle.empties + 1, timer |-> TRUE]
            /\ UNCHANGED face
    /\ UNCHANGED <<deck, index, offline>>

(* Every way an answer to load-more goes; the lock is free again unless    *)
(* another request follows.                                                *)
MoreAnswered(outcome, b) ==
    LET again(step) == more' = [more EXCEPT !.step = step, !.cx = complexity',
                                !.lat = laterality, !.tier = "asked"]
        add == mergeUniqueRelated(deck, b)
        unmoved == UNCHANGED <<deck, index, face, cycle, offline>>
    IN
    /\ more # None
    /\ complexity' = ComplexityAfter(more, outcome)
    /\ CASE FallsBack(more, outcome) -> more' = FellBack(more) /\ unmoved
         [] outcome = "notFound" /\ ~FallsBack(more, outcome)
              /\ more.step = "seed" -> again("unseeded") /\ unmoved
         [] outcome = "batch" /\ more.current /\ add # <<>> ->
              more' = None /\ AppendBatch(add)
         [] outcome = "batch" /\ more.current /\ add = <<>>
              /\ more.step = "seed" -> again("cold") /\ unmoved
         [] outcome = "batch" /\ more.current /\ add = <<>>
              /\ more.step # "seed" -> more' = None /\ EmptyBatch
         [] outcome = "batch" /\ ~more.current -> more' = None /\ unmoved
         [] OTHER ->                          \* the catch
              /\ more' = None
              /\ face' = [face EXCEPT !.loadMoreError =
                            @ \/ (more.current /\ ~offline)]
              /\ UNCHANGED <<deck, index, cycle, offline>>
    /\ dropped' = ((dropped \/ ~more.current) /\ face'.pending)
    /\ UNCHANGED <<hydrated, laterality, committed, dealt, loads, tree, swapVars,
                   meddled>>
    /\ Rendered

-----------------------------------------------------------------------------
(* The reader's hands.  An action that moves the reader or changes what is *)
(* waited for settles what dropped remembers.                              *)

Waits == dropped' = (dropped /\ face'.pending) /\ UNCHANGED meddled

(* resetEmptyRetryCycle, and setLoadMoreError(false), which goes with it.  *)
Calm(f) == [f EXCEPT !.noNextIdea = FALSE, !.loadMoreError = FALSE]

OnSwipeLeft ==
    /\ CanSwipeForward
    /\ IF ~IsLast
       THEN /\ index' = index + 1
            /\ face' = NoFace /\ cycle' = FreshCycle
            /\ UNCHANGED more
       ELSE /\ IF offline
               THEN face' = Calm(face) /\ cycle' = FreshCycle
                    /\ UNCHANGED more
               ELSE LoadMore([NoFace EXCEPT !.pending = TRUE], FreshCycle)
            /\ UNCHANGED index
    /\ UNCHANGED <<hydrated, deck, grades, loads, tree, swapVars, offline>>
    /\ Waits /\ Rendered

(* reduceSwipeRight: from the loading face back to the card under it.      *)
OnSwipeRight ==
    /\ CanSwipe /\ (index > 0 \/ deckSlotState = "loading")
    /\ index' = IF face.pending THEN index ELSE index - 1
    /\ face' = [face EXCEPT !.pending = FALSE]
    /\ UNCHANGED <<hydrated, deck, grades, loads, more, tree, cycle,
                   swapVars, offline>>
    /\ Waits /\ Rendered

(* prefetchComplexityTree up to its first await.                           *)
PrefetchComplexityTree ==
    IF deck = <<>> THEN UNCHANGED <<more, tree>>
    ELSE /\ more' = Outdated(more)
         /\ tree' = "seed"

OnSwipeVertical(c) ==
    /\ CanSwipeForward
    /\ c \in {complexity - 1, complexity + 1}
    /\ complexity' = c
    /\ index' = IF IsLast THEN index ELSE index + 1
    /\ face' = NoFace /\ cycle' = FreshCycle
    /\ PrefetchComplexityTree
    /\ UNCHANGED <<hydrated, deck, laterality, committed, dealt, loads,
                   swapVars, offline>>
    /\ Waits /\ Rendered

(* The menu's pick leaves the reader where he is, waiting or not.          *)
OnSelectComplexity(c) ==
    /\ showMainDeck /\ ~Swapping
    /\ c # complexity
    /\ complexity' = c
    /\ face' = Calm(face) /\ cycle' = FreshCycle
    /\ PrefetchComplexityTree
    /\ dropped' = (dropped \/ face.pending) /\ UNCHANGED meddled
    /\ UNCHANGED <<hydrated, deck, index, laterality, committed, dealt, loads,
                   swapVars, offline>>
    /\ Rendered

(* applyComplexityTreeSwap: the cards up to the one on screen stay.        *)
TreeAnswered(outcome, b) ==
    LET add == mergeUniqueRelated(Visited, b) IN
    /\ tree # None
    /\ IF outcome = "notFound" /\ tree = "seed"
       THEN /\ tree' = "unseeded"
            /\ UNCHANGED <<deck, face>>
       ELSE /\ tree' = None
            /\ IF outcome = "batch" /\ add # <<>>
               THEN /\ deck' = Visited \o add
                    /\ face' = [face EXCEPT !.pending = FALSE]
               ELSE UNCHANGED <<deck, face>>
    /\ UNCHANGED <<hydrated, index, grades, loads, more, cycle, swapVars,
                   offline>>
    /\ Waits /\ Rendered

-----------------------------------------------------------------------------
(* The reshuffle.                                                          *)

(* Mutant: a complexity prefetch in flight survives the pick.              *)
BeginSwapKeepsTree(g, f) ==
    /\ laterality' = g
    /\ swapFailed' = FALSE /\ retryGrade' = None
    /\ snapshot' = [deck |-> deck, index |-> index, lat |-> committed]
    /\ swap' = [phase |-> "gather", stage |-> "fetching", lat |-> g,
                plan |-> None]
    /\ more' = Outdated(more) /\ UNCHANGED tree
    /\ face' = Calm(f) /\ cycle' = FreshCycle
    /\ UNCHANGED <<committed, early>>

(* onSelectLaterality and prefetchLateralityTree up to its first await.    *)
(* Before the first cards the grade is committed at once, and the load in  *)
(* flight is not outdated: it deals the cards of the grade it was asked    *)
(* for.                                                                    *)
BeginSwap(g, f) ==
    /\ laterality' = g
    /\ swapFailed' = FALSE /\ retryGrade' = None
    /\ IF deck = <<>>
       THEN /\ committed' = g /\ early' = TRUE
            /\ UNCHANGED <<snapshot, swap, more, tree, face, cycle>>
       ELSE /\ snapshot' = [deck |-> deck, index |-> index, lat |-> committed]
            /\ swap' = [phase |-> "gather", stage |-> "fetching", lat |-> g,
                        plan |-> None]
            /\ more' = Outdated(more) /\ tree' = None
            /\ face' = Calm(f) /\ cycle' = FreshCycle
            /\ UNCHANGED <<committed, early>>

OnSelectLaterality(g) ==
    /\ showMainDeck /\ ~Swapping
    /\ g # laterality
    /\ BeginSwap(g, face)
    /\ UNCHANGED <<hydrated, deck, index, complexity, dealt, error, first,
                   superseded, offline>>
    /\ Waits /\ Rendered

GatherTimer ==
    /\ swap.phase = "gather"
    /\ swap' = [swap EXCEPT !.phase = "shuffle"]
    /\ UNCHANGED <<hydrated, deck, index, grades, loads, more, tree, face,
                   cycle, snapshot, retryGrade, swapFailed, offline, ghosts>>
    /\ Rendered

(* planLateralityReshuffle; a timeout counts as a failure.                 *)
SwapAnswered(outcome, b) ==
    LET add == mergeUniqueRelated(Visited, b)
        plan == CASE outcome = "failed" -> [kind |-> "fail"]
                  [] outcome = "batch" /\ add # <<>> ->
                       [kind |-> "deal", deck |-> Visited \o add,
                        index |-> index + 1]
                  [] OTHER -> [kind |-> "noMatch", deck |-> Visited,
                               index |-> index]
    IN
    /\ Swapping /\ swap.stage = "fetching"
    /\ swap' = [swap EXCEPT !.stage = "planned", !.plan = plan]
    /\ UNCHANGED <<hydrated, deck, index, grades, loads, more, tree, face,
                   cycle, snapshot, retryGrade, swapFailed, offline, due,
                   ghosts>>

(* Mutant: a failed reshuffle leaves the grade that was tried.             *)
SwapLandsKeepsGrade ==
    /\ swap.phase = "shuffle" /\ swap.stage = "planned"
    /\ swap' = [swap EXCEPT !.stage = "settling", !.phase =
                  IF swap.plan.kind = "deal" THEN "deal" ELSE "reverse"]
    /\ LET failed == swap.plan.kind = "fail"
           to == IF failed THEN snapshot ELSE swap.plan
       IN /\ deck' = to.deck /\ index' = to.index
          /\ committed' = IF failed THEN committed ELSE swap.lat
          /\ dealt' = IF failed THEN dealt ELSE swap.lat
          /\ early' = (early /\ failed)
          /\ retryGrade' = IF failed THEN swap.lat ELSE None
    /\ snapshot' = None
    /\ UNCHANGED <<hydrated, complexity, laterality, error, first, superseded,
                   more, tree, cycle, face, swapFailed, offline>>
    /\ Waits /\ Rendered

(* beginCue: once the cue has been up for its minimum, the plan is applied *)
(* or the deck of before is put back.                                      *)
SwapLands ==
    /\ swap.phase = "shuffle" /\ swap.stage = "planned"
    /\ swap' = [swap EXCEPT !.stage = "settling", !.phase =
                  IF swap.plan.kind = "deal" THEN "deal" ELSE "reverse"]
    /\ LET failed == swap.plan.kind = "fail"
           to == IF failed THEN snapshot ELSE swap.plan
       IN /\ deck' = to.deck /\ index' = to.index
          /\ laterality' = IF failed THEN snapshot.lat ELSE laterality
          /\ committed' = IF failed THEN committed ELSE swap.lat
          /\ dealt' = IF failed THEN dealt ELSE swap.lat
          /\ early' = (early /\ failed)
          /\ retryGrade' = IF failed THEN swap.lat ELSE None
          /\ snapshot' = None             \* never read again after a failure
    /\ face' = [face EXCEPT !.pending = FALSE, !.loadMoreError =
                  @ /\ swap.plan.kind # "deal"]
    /\ UNCHANGED <<hydrated, complexity, error, first, superseded, more, tree,
                   cycle, swapFailed, offline>>
    /\ Waits /\ Rendered

SwapEnds ==
    /\ Swapping /\ swap.stage = "settling"
    /\ swap' = NoSwap
    /\ swapFailed' = (swapFailed \/ swap.plan.kind = "fail")
    /\ face' = [face EXCEPT !.noNextIdea = @ \/ swap.plan.kind = "noMatch"]
    /\ UNCHANGED <<hydrated, deck, index, grades, loads, more, tree, cycle,
                   snapshot, retryGrade, offline, ghosts>>
    /\ Rendered

-----------------------------------------------------------------------------
(* The status line and the connection.                                     *)

RetryLoadMore ==
    /\ LoadMore(Calm(face), FreshCycle)
    /\ UNCHANGED <<deck, index, grades, loads, tree, swapVars, offline>>

OnOfflineRetry ==
    /\ showMainDeck /\ chromeStatus = "offline"
    /\ IF deck = <<>>
       THEN /\ superseded = {}               \* bound: one overtaken load
            /\ superseded' = IF first = None THEN {} ELSE {first}
            /\ LoadConcepts(complexity, laterality)
            /\ UNCHANGED <<deck, index, grades, more, tree, swapVars,
                           offline>>
       ELSE RetryLoadMore
    /\ meddled' = (meddled \/ Swapping)
    /\ UNCHANGED <<hydrated, dropped>>
    /\ Rendered

OnDeckStatusRetry ==
    /\ showMainDeck /\ chromeStatus = "fetchFailed"
    /\ IF retryGrade = None
       THEN RetryLoadMore
       ELSE /\ IF Swapping \/ retryGrade = laterality
               THEN /\ retryGrade' = None /\ swapFailed' = FALSE
                    /\ UNCHANGED <<laterality, committed, early, swap, snapshot,
                                   more, tree, face, cycle>>
               ELSE BeginSwap(retryGrade, face)
            /\ UNCHANGED <<deck, index, complexity, dealt, error, first,
                           superseded, offline>>
    /\ UNCHANGED hydrated
    /\ Waits /\ Rendered

OnAdjustNoNextIdea ==
    /\ showMainDeck /\ chromeStatus = "noNextIdea"
    /\ face' = Calm(face) /\ cycle' = FreshCycle
    /\ UNCHANGED <<hydrated, deck, index, grades, loads, more, tree,
                   swapVars, offline>>
    /\ Waits /\ Rendered

(* The offline line owns Retry: the error of load-more gives way to it.    *)
GoOffline ==
    /\ ~offline
    /\ offline' = TRUE
    /\ face' = [face EXCEPT !.loadMoreError = FALSE]
    /\ UNCHANGED <<hydrated, deck, index, grades, loads, more, tree, cycle,
                   swapVars, ghosts>>
    /\ Rendered

GoOnline ==
    /\ offline
    /\ offline' = FALSE
    /\ UNCHANGED <<hydrated, deck, index, grades, loads, more, tree, face,
                   cycle, swapVars, ghosts>>
    /\ Rendered

(* An answer that is no batch brings no cards.                             *)
Cards(outcome) == IF outcome = "batch" THEN Batch ELSE {<<>>}

Answered ==
    \E outcome \in Outcome : \E b \in Cards(outcome) :
        \/ FirstAnswered(outcome, b)
        \/ \E r \in superseded : SupersededAnswered(r, outcome)
        \/ MoreAnswered(outcome, b)
        \/ TreeAnswered(outcome, b)
        \/ SwapAnswered(outcome, b)

Timed == PrefetchEffect \/ RetryTimer \/ GatherTimer \/ SwapLands \/ SwapEnds

Reader ==
    \/ OnSwipeLeft \/ OnSwipeRight
    \/ \E c \in Complexity : OnSwipeVertical(c) \/ OnSelectComplexity(c)
    \/ \E g \in Laterality : OnSelectLaterality(g)
    \/ OnOfflineRetry \/ OnDeckStatusRetry \/ OnAdjustNoNextIdea \/ Reload

Next ==
    \/ \E p \in Preference : Hydrate(p)
    \/ Answered \/ Timed \/ Reader
    \/ GoOffline \/ GoOnline

Spec == Init /\ [][Next]_vars
-----------------------------------------------------------------------------
(* Properties.                                                             *)

Face == [loadMoreError : BOOLEAN, noNextIdea : BOOLEAN, pending : BOOLEAN]
Cycle == [empties : 0..(MaxEmpty + 1), timer : BOOLEAN]
Grade == Laterality \cup {None}
TypeOK ==
    /\ hydrated \subseteq Preference
    /\ deck \in Seq(Card)
    /\ index \in Nat /\ (deck = <<>> => index = 0)
    /\ complexity \in Complexity /\ {laterality, committed} \subseteq Laterality
    /\ first \in Request \cup {None} /\ superseded \subseteq Request
    /\ more \in MoreRequest \cup {None}
    /\ face \in Face /\ cycle \in Cycle
    /\ {retryGrade, dealt} \subseteq Grade
    /\ {error, early, swapFailed, offline, due, dropped} \subseteq BOOLEAN

(* The deck shows no concept twice, and the reader is on one of its cards. *)
WalkIsSound ==
    /\ TypeOK
    /\ Cardinality(Names(deck)) = Len(deck)
    /\ deck # <<>> => index < Len(deck)

(* The bounded retry of empty batches (emptyBatchRetry.ts): only at the    *)
(* end of the deck is a reader ever waiting, and never with No next idea   *)
(* said to him; a scheduled retry belongs to the running cycle and never   *)
(* to one that a swipe, a pick, an answer or No next idea has ended.       *)
RetryCycleIsSound ==
    /\ face.pending => IsLast /\ ~face.noNextIdea
    /\ cycle.timer => cycle.empties \in 1..MaxEmpty /\ more = None
    /\ cycle.timer /\ face.noNextIdea => meddled

(* Between reshuffles the grade shown is the committed one, which a failed *)
(* reshuffle would go back to.                                             *)
CommittedBetweenSwaps == ~Swapping => laterality = committed

(* Between reshuffles the cards ahead are those of the grade shown.  Not   *)
(* so when a grade was picked while the first load was in flight.          *)
DeckOfShownGrade == ~Swapping /\ deck # <<>> => dealt = laterality

(* They are in every other case, until the next reshuffle has landed.      *)
DeckOfShownGradeUnlessEarly == DeckOfShownGrade \/ early

(* After a failed reshuffle Retry is offered for the grade that was tried, *)
(* which is not the one shown.                                             *)
FailedSwapKeepsItsGrade ==
    ~Swapping /\ ~meddled => /\ swapFailed <=> retryGrade # None
                             /\ retryGrade # laterality

(* The grades agree whenever no reshuffle runs: the one shown, the         *)
(* committed one, that of the cards ahead and the one Retry is offered for.*)
GradesAgree ==
    CommittedBetweenSwaps /\ DeckOfShownGradeUnlessEarly /\ FailedSwapKeepsItsGrade

(* A reader on the loading face waits for something: for an answer that    *)
(* will be used, for the next retry, for the prefetch effect or for the    *)
(* network.  Not so in one case.                                           *)
SomethingComes ==
    \/ offline \/ due \/ cycle.timer \/ tree # None \/ Swapping
    \/ more # None /\ more.current
    \/ chromeStatus # "none"
LoadingFaceEnds == deckSlotState = "loading" => SomethingComes

(* The case: an answer he waited for was dropped as outdated, or its retry *)
(* cancelled, and nothing was asked in its place.                          *)
LoadingFaceEndsUnlessDropped ==
    deckSlotState = "loading" => SomethingComes \/ dropped \/ more # None

(* A reader who waits gets somewhere.                                      *)
WaitingIsSound == RetryCycleIsSound /\ LoadingFaceEndsUnlessDropped

(* While the cards are reshuffled only the reshuffle touches the deck.     *)
SwapOwnsDeck ==
    [][Swapping /\ deck' # deck => meddled \/ swap' # swap]_vars

(* What load-more appends was asked for with the grade that is shown.      *)
AppendsShownGrade ==
    [][more # None /\ more' # more /\ deck' # deck
         => meddled \/ more.lat = laterality]_vars

(* An answer changes only the deck that it was asked for: what load-more   *)
(* appends has the grade shown, and a reshuffle has the deck to itself.    *)
AnswersMeetTheirDeck == AppendsShownGrade /\ SwapOwnsDeck

(* What the reader sees of the deck: until a reshuffle lands, the deck it  *)
(* would be put back to.                                                   *)
Shown == IF Swapping /\ swap.stage # "settling"
         THEN [deck |-> snapshot.deck, index |-> snapshot.index]
         ELSE [deck |-> deck, index |-> index]
Walk == INSTANCE CardWalk WITH
            walk <- Shown.deck, at <- Shown.index
WalksLikeCards ==
    /\ Walk!Init
    /\ [][Walk!Next \/ meddled]_<<Shown.deck, Shown.index>>
=============================================================================
