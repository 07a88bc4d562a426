# Verification of lateralzr

TLA+ models of the stateful parts of lateralzr, TLC configurations that check
them on small instances, and TLAPS proofs of what matters most for every
instance. All paths below are paths of the repository (`src/...`).

## 1. The system

lateralzr is a Laravel back end that grows a graph of concepts with the help of
language-model providers, and an Expo/React Native client that deals the graph
out as a deck of swipeable cards.

| component | state it keeps | operations | what makes it correct |
|---|---|---|---|
| pipeline run (`app/Services/ConceptPipeline/ConceptPipelineDispatchService.php`, `app/Jobs/GeneratePipelineNodeJob.php`) | row in `concept_graph_runs` with budget counters in its JSON column `seeds`; rows in `concept_pipeline_nodes` | dispatch, reserve and settle the concept budget, limit a graph, create child nodes and their chains | budget kept, every slot given back, one node per key, every node gets its jobs |
| pipeline node (`app/Models/ConceptPipelineNode.php`, `app/Jobs/*PipelineNodeJob.php`, `app/Filament/Pages/GenerationProgress.php`) | three status columns and three error columns | chain of queued jobs, `failed()` hooks, operator's retry of a stage | a node is never left waiting for nobody; stages in order; what succeeded stays |
| batch jobs (`app/Jobs/LocalizeConceptBatchJob.php`, `CompleteConceptInfoBatchJob.php`, `Concerns/DeferredBatchFollowUp.php`) | tracking rows in `concept_graph_run_jobs`; batches in the run's `seeds` | run a batch, put deferred ids into a follow-up batch, retry a batch from the admin page | no id lost, follow-ups end |
| prefetch job (`app/Jobs/GenerateConceptGraphJob.php`) | tracking row | generate one graph | status tells the truth |
| scheduled tasks (`app/Services/ScheduledTasks`, `app/Models/ScheduledTask.php`) | task row (enabled, cadence, last and next run), history rows | run due tasks, run one by hand, configure, enable | a due task runs once per period; history closes |
| concept store (`app/Services/ConceptGraphStore.php`, `ConceptCanonicalizer.php`) | concepts, terms, edges under unique indexes | find or create, attach a term, store a graph, evidence counts | what another job has just stored is found again, counted once, told once |
| generated graph constraints (`app/Services/GeneratedGraphConstraints.php`) | none | drop the concepts of another complexity, the edges outside a laterality band and what is left unconnected | nothing outside the limits, no dangling edge, nothing dropped that fits |
| graph query (`app/Services/ConceptGraphQuery.php`) | none | bounded breadth-first search of the stored graph | bounded, no dangling edge |
| localisation, complete info, enrichment (`ConceptLocalizeService.php`, `ConceptCompleteInfoService.php`, `Enrichment/`) | none of their own | call providers, rank candidates | the outcome they report |
| AI support, media proxy, admin resources, console commands | none | error mapping, proxying, forms | - |
| client deck (`apps/client/app/index.tsx`, `lib/conceptDeck.ts`, `lib/emptyBatchRetry.ts`, `lib/deckSlotState.ts`) | deck, index, grades, fetch generation, load-more in flight, retry cycle, prefetched tree, snapshot of a reshuffle | load, load more, swipe, change complexity or laterality, retry | cards walked through stay; answers for an older deck are dropped; the reader does not wait for nothing |
| client card stack (`components/ConceptCardStack.tsx`, `lib/cardSwipe.ts`, `lib/cardFlip.ts`, `lib/flipSuppress.ts`) | shared animation values, locks, pinned cards, face of the card, view time | drag, spring, commit, cover, key, turn, press on a link | a motion ends where it was seen to go and comes to rest; the face seen is the one that answers |
| client card (`components/ConceptCard.tsx`, `lib/cardBack*.ts`, `lib/conceptFrontTitle.ts`, `brand/PatternLayer.tsx`) | picture, measured face and copy, measured title, motifs and glow | prefetch, load, time out, measure, lay out | what is shown stays readable and does not jump |
| client screen (`app/index.tsx`, `lib/cardLayout.ts`, `lib/practiceLayout.ts`, `components/ComplexityCue.tsx`, `components/LateralityReshuffle.tsx`) | measured heights, line of messages, cue of a reshuffle, row of buttons | measure, announce, hide, gather, shuffle, deal | one card size everywhere; a message comes when it is due and goes; the card changes unseen |
| client controls (`components/ComplexityControl.tsx`, `LateralityControl.tsx`, `Sheet.tsx`, `AppMenuSheet.tsx`) | fingers, previews, open sheets, focus | touch, settle, open, slide, close | a pick is that of the finger that made it; focus returns |
| client coaching and connectivity (`hooks/useDiscoveryCoaching.ts`, `hooks/useConnectivity.ts`, `components/DeckStatusLine.tsx`) | tips seen, idle timer, network state, debounce | offer, dismiss, probe, announce | the tip offered is the first not done with, on its own card; the line ends on what the network is |
| client preferences (`lib/*Storage.ts`, `lib/testQueryParams.ts`, `app/index.tsx`) | storage, writes under way, state of the screen | load, pick, store | what was picked stays picked and only that is stored |
| client sound (`lib/soundMusic.ts`, `soundSystem.ts`, `soundEngine.ts`, `soundLayers.ts`, `sound.web.ts`) | players, timers, fades, lifecycle flags, context | play, cut, fade, duck, pause, resume, unlock | heard only when it may be, as low as it must be; nothing left playing |

Interaction: an admin page or a console command dispatches a run; the run's jobs
go through the database queue and are executed by `queue:work` processes, which
call the services, which write the concept store; the API reads the store, and
the client reads the API. On the server the hard parts are where several workers
share one row (budget counters, status columns, batch lists, task rows), where
the queue delivers a job again, and where a process can die between two commits.
In the client there is one JavaScript thread, but everything in it is
asynchronous: answers, timers, renders and the effects they leave behind,
measurements, ends of animations on the UI thread, events of players and
storage all arrive later than what they were asked for. The hazards are listed,
line by line, in `PROJECT.json`.

## 2. Modules

| module | what it is |
|---|---|
| `ConceptPipelineNode` | one node: its row, the chain of jobs on it, workers, operator |
| `ConceptPipelineRun` | one run: tree of nodes, concepts, budget |
| `ScheduledTasks` | task rows, dispatchers, operators who run or edit a task |
| `DeferredBatches` | one localize or complete-info run: batches, follow-ups, retries |
| `ConceptStore` | the tables of concepts, terms and edges under jobs that write them at once |
| `JobsAndStore` | the two modules above, composed: a behaviour is one of the part chosen at its start |
| `DeckLoading`, `CardWalk` | the client's deck with everything asynchronous around it; what it promises the reader, which it implements |
| `CardStack`, `CardPose`, `CardFlip` | the stack of cards: its motions, how they are drawn, how a card is turned |
| `CardMedia`, `FrontTitle`, `CardPattern` | the picture and copy on a back; the title and the pattern on a front |
| `CardLayout`, `ReshuffleCue`, `HomeChrome` | the room for the card; what is seen of a reshuffle; the messages and buttons around |
| `Coaching`, `Connectivity`, `Sheets`, `GradeRails`, `Preferences` | tips, status line, sheets, grade controls, stored preferences |
| `ClientParts` | the fourteen modules above that start from one screen, composed |
| `SoundMusic`, `SoundEffects`, `AdaptiveLayers`, `WebSound`, `ClientSound` | the parts of the sound, and their composition |
| `MC<module>` | values and symmetry of the model-checked instances |
| `<module>_proofs` | theorems and proofs |

The modules of the server meet only in tables none of them shares: a pipeline run and
its nodes live in `concept_pipeline_nodes` and `concept_graph_runs`, a batch run
in its own row of `concept_graph_runs` and in `concept_graph_run_jobs`. The
first two are two views of one system. `ConceptPipelineNode` follows a single
node through all jobs of its chain and treats what generate does to the run as
one step; `ConceptPipelineRun` follows generate over all nodes and leaves the
later jobs out. Jobs of all kinds write through `ConceptStore`; to a job its
calls are one step each (`ConceptPipelineRun` stores a graph at once).

Proofs are in `ConceptPipelineNode_proofs`, `ConceptPipelineRun_proofs`,
`ScheduledTasks_proofs`, `ConceptStore_proofs`, `JobsAndStore_proofs` (which also
holds those about `DeferredBatches`), `DeckLoading_proofs`, `ClientParts_proofs`
and `ClientSound_proofs`; the last two take the parts of their composition one
after the other.

`ClientParts` and `ClientSound` are compositions by choice: the parts touch each
other through a few props and callbacks, which each module lets come at any time
(a card may be replaced, the network may change, an effect may be asked for
whenever the code around could do so). A behaviour of the composition is one of
the part chosen at its start; interleaving parts that share nothing would
multiply states and add no behaviour of any of them.

Definitions named after a mistake (`DefersWithoutEnd`, `ClaimEnabled`, ...) are
variants of the definition that follows them, as a plausible bug would have it.
`PROJECT.json` says which property notices which of them.

### ConceptPipelineNode

`row` is the node's `*_status` and `*_error` columns. An error is kept as far as
it tells cases apart: none, the failure of a stage, "Skipped because an earlier
pipeline stage failed." (`Cut`), or one of the texts for a stage with nothing to
do. `queue` counts the copies of each queued job; a job is a position in the
chain, the end of its chain and the attempts already made, so a whole chain is
an interval, as `Bus::chain` dispatches the next job only when one has returned.
`pc`, `job`, `mem` and `known` are what a worker process has in memory; `mem`
is the Eloquent model, and `Written` is `save()`, which writes only the columns
that differ from what was loaded. That is where two handlers of one node can
overwrite one another.

| actions | code |
|---|---|
| `Pop`, `Release`, `DispatchNext`, `Ack`, `FailJob`, `FailedHookSkips`, `Timeout`, `Kill` | Laravel's worker loop as `config/queue.php` and the jobs' `$tries`, `$timeout`, `$failOnTimeout` configure it, and the jobs' `failed()` |
| `GenerateStart` ... `GenerateFails`, `CutRest` | `GeneratePipelineNodeJob::handle` |
| `LocalizeStart` ... `LocalizeFails` | `LocalizePipelineNodeJob::handle` |
| `CompleteStart` ... `CompleteRethrown` | `CompleteInfoPipelineNodeJob::handle` |
| `RetryStage`, `DispatchRetry`, `LoseRetry` | `ConceptPipelineDispatchService::retryStage` and its caller |

`FailJob` merges deleting the job with the first statement of `failed()`; the
window between the two lies inside the framework. A timeout is modelled in the
long external call, where the code spends its time.

### ConceptPipelineRun

`created` and `reserved` are `seeds.conceptsCreated` and
`seeds.conceptsReserved`; `nodes`, `depth`, `parent`, `linked` (`concept_id` is
set) and `generate` are the node rows; `concepts` is the concept table, with a
concept identified with its canonical key. `held`, `got`, `before` and `todo`
are the local variables of a running handler: slots reserved, limited graph,
labels that existed, children to dispatch. Each action is one transaction or one
queue operation: `Reserve` (`reserveConceptBudget`), `Answer` (provider call
and `limitNewConcepts`), `Lookup` (`existingConceptIds`), `Store`
(`storeGraph`), `Settle` (`settleConceptBudget`), `Link`, `CreateChildren`
(`enqueueChildren`), `DispatchChild`, `Succeed`. A provider error unwinds
through `Unwind` to `Release` or `MarkFailed`, a database error only to
`MarkFailed`. The localize and complete-info jobs of a chain do not touch this
state: they are left out, as are their failures, and `Return` stands for the
hand-over.

### ScheduledTasks

`row` is `scheduled_tasks` (enabled, cadence, `last_run_at`, `next_run_at`),
`history` is `scheduled_task_runs`. A handler is what it does to the history:
it succeeds or throws.

| actions | code |
|---|---|
| `StartBySchedule`, `EndDispatch`, `MutexExpires` | `routes/console.php` (every minute, `withoutOverlapping(10)`) and the start and end of `ScheduledTaskRunner::dispatchDue` |
| `StartByHand` | `php artisan concepts:schedule:dispatch` |
| `ClaimDue` | `claimDue()`: lock, look again, history row, `markRan()`, one transaction |
| `Finish` | `finish()` |
| `RunByHand` | `run()` |
| `LoadForEdit`, `Save` | `setEnabled()`, `configure()`, the list's toggle and the edit form; `EditedNext` is the model's `saving` hook, `SavedRow` the columns Eloquent writes |
| `Kill` | death of a dispatcher or of a manual run |

The loop goes through the tasks in the order of their ids. The mutex may expire
at any time: ten minutes may or may not suffice for a handler. `OnAtStart` are the
tasks enabled in the beginning; the others wait for an edit. `MaxEvents` bounds
edits, manual starts (of a task or of the command) and deaths together. `clash` and
`orphans` are history variables that only properties read.

### DeferredBatches

`status` holds the rows of `concept_graph_run_jobs`, `batches` the entry of that
name in the run's `seeds`; a key `<<b, n>>` is the job key of batch `b` with the
suffix `+n`. `left` is what the service of a running job has not worked on,
`copy` the seeds it has read.

| actions | code |
|---|---|
| `Dispatch`, `DieDispatching` | `dispatch()` of `ConceptLocalizeDispatchService` and `ConceptCompleteInfoDispatchService` |
| `Pop`, `FailJob`, `Ack`, `Timeout`, `Kill` | the worker loop and `failed()` |
| `Start`, `Work`, `Finish`, `Throw` | `handle()` and the service it calls |
| `LoadSeeds`, `SaveSeeds`, `Remember`, `Reset`, `Send` | `requeueDeferred()` and `rememberFollowUpJob()`, one statement each |
| `RetryBatch`, `DispatchRetry`, `LoseRetry` | "Retry batch" of `RunJobsRelationManager` |

Simplifications: a service may stop before any id, also the first; the update of
the run's provider and model is left out; the branch in which the existing
follow-up row has been deleted is left out, because no code deletes single rows;
marking a row after an exception and giving the job back are one step, as is
reading the seeds and marking the row in a retry. Complete-info retries after
every exception, localize after some: `Throw` may do either.

### ConceptStore

`keys` are the concepts (a concept is its canonical key), `terms` the rows of
`concept_terms`, `edges` the counter of each row of `concept_relationships`,
`evidence` how many rows of evidence it has. `tx` holds the open transaction of each job:
the snapshot of its plain reads, what it has written, its locks. `named` is a
history variable: the concept that the last graph with a label stored it for.

| actions | code |
|---|---|
| `Start`, `Find`, `Commit` | `storeGraph()`, `resolveOrCreate()` up to the first write |
| `Enrich`, `Create` | the two other ways of `resolveOrCreate()` |
| `LookUp`, `LockPreferred`, `Rename`, `Insert` | `attachPreferredTerm()`, one statement each, with `resolveOwnedTerm()` and `resolveUniqueConflict()` |
| `Recover`, `RecoverKey`, `LockConcept` | `recoverFromUniqueRace()` |
| `InsertEdge`, `CountEdge` | `upsertEdge()` and the evidence |
| `Localize` | the call of `attachLocalizedTerm()` in `ConceptLocalizeService` |
| `Deadlock` | the database undoes a transaction of a cycle of waits |

The database is external and modelled as the code uses it: MySQL with InnoDB and
REPEATABLE READ (the comment in `upsertEdge()` says as much). Locks are on rows, on
entries of unique indexes, and on the gap of each key that was looked for and
not found; InnoDB's gaps may span several keys, which makes more jobs wait and no
more of them go on. A savepoint keeps its locks, except those on rows that are
undone. Description, wiki and media of a term are one field that is filled in
once, its complexity one that is overwritten; strength and laterality of an edge
are left out. All terms are preferred ones, since nothing else is created.

### DeckLoading and CardWalk

Each `await` splits a handler: what is asked is a variable (`first`, `more`,
`tree`, `swap`), and the answer is an action of its own that the reader's swipes
and picks, timers, a lost network and other answers may precede. An answer is a
batch of cards, an empty batch, a 404, an error, a timeout. The code drops
answers whose generation is not the latest; the model keeps `current` with each
request, all that is ever asked of the generation. Effects that depend on
rendered values are `due` until they have run. A card is its case-folded name.
A pick of laterality begins a reshuffle, but on an empty deck `onSelectLaterality`
commits the grade at once and leaves a first load in flight as it is: its cards are
of the older grade.

| actions | code (`app/index.tsx`) |
|---|---|
| `Hydrate`, `LoadConcepts`, `FirstAnswered`, `Reload` | first load with its 404 fallback |
| `LoadMore`, `MoreAnswered`, `EmptyBatch`, `RetryTimer`, `PrefetchEffect` | load-more, `emptyBatchRetry.ts` |
| `OnSwipeLeft`, `OnSwipeRight`, `OnSwipeVertical`, `OnSelectComplexity`, `TreeAnswered` | the reader, and the exchange of what lies ahead |
| `BeginSwap`, `GatherTimer`, `SwapAnswered`, `SwapLands`, `SwapEnds` | `prefetchLateralityTree` |
| `OnOfflineRetry`, `OnDeckStatusRetry`, `OnAdjustNoNextIdea` | the status line |

`CardWalk` is the abstract specification: a sequence of distinct cards and a
position, of which only what lies ahead may change. `WalksLikeCards` is the
refinement, with `Shown` (the deck a reshuffle would be put back to, until it
lands) as the mapping.

### The stack: CardStack, CardPose, CardFlip

`CardStack` has the control: `pan`, `spring` and `commit` are the gesture and the
animations, `locks` the shared values that gate gestures, `card` what the rendered
card is, `deck` what the next render will show. Callbacks of an animation run
after whatever came in between. `CardPose` draws the same motion: positions,
tilt, pitch, opacities of the front card, underlay and overlay as the formulas
of `cardSwipe.ts` give them, over frames, and the handoff of a vertical drag
between a scrolling back and the card. `CardFlip` is the turn with its half-way
reaction, the refs effects set, the window in which a press on a link keeps a tap
from turning the card, and view times.

### The card's faces: CardMedia, FrontTitle, CardPattern

`CardMedia` lets prefetch, fetch, `onLoad`, `onError`, the timeout and the
layouts of face, text and copy end in any order for a card that may be replaced.
`FrontTitle` wraps, hyphenates and sizes titles (sequences of word lengths) and
races the hidden probe, its timeout and the cache. `CardPattern` places motifs
around the title's box and runs the glow.

### The screen: CardLayout, ReshuffleCue, HomeChrome, Coaching, Connectivity

`CardLayout` computes the card three times, as the code does (screen, stack,
cue), from heights measured one at a time. `ReshuffleCue` runs in ticks of
100 ms: phases chosen by timers, animations that follow. `HomeChrome` is the line
below the card with the cue's timer and fade, and the row of buttons.
`Coaching` and `Connectivity` are the hooks of these names with their effects
and timers, the second with NetInfo and the browser as two sources.

### Controls and preferences: Sheets, GradeRails, Preferences

`Sheets` opens, slides, swaps and closes two sheets by touch or keyboard.
`GradeRails` posts touches of two fingers to callbacks of the render the gesture
was built in. A pick with cards begins a swap; it lands or fails, which gives the old grade
back, before its cue has settled and the swap ends (`SwapLands`, `SwapEnds`). A pick
before the first cards (`FirstCards`) is committed at once. `Preferences` loads one preference while the reader picks and
writes fail, are late, or die with the process.

### Sound: SoundMusic, SoundEffects, AdaptiveLayers, WebSound

Players, timers and fades are sets and records; a timer is armed or not and fires
whenever it is armed, so that every order of them is checked. `flags` in
`SoundMusic` are the lifecycle: background, interruption, screen reader,
announcement, preference. `SoundEffects` has the pool with awaited rewinding;
`AdaptiveLayers` the bar clock; `WebSound` one player with decoding, suspension
and what was asked for before the first gesture.

## 3. Runs

| run | question | answer |
|---|---|---|
| `node_chain` | can deaths, timeouts, redeliveries and retries leave a node waiting, out of order, served in part, or with finished work undone; does every chain end? | no; yes, under the conditions the properties name |
| `node_retry_race` | does a skipped stage always have a failed one to retry? | **no**: a retry between `markStage` and `skipPendingStages` |
| `run_growth` | with answers that come late, equal answers, deaths, failed transactions, timeouts and retries: are concepts counted, slots given back at most once, the budget kept up to the new seeds, the tree a tree, and every node expanded? | yes, under the conditions the properties name |
| `run_budget_leak` | are all slots given back in the end? | **no**: not those of a job that timed out |
| `run_seed_overrun` | is `conceptsCreated` at most `maxConcepts`? | **no**: a new seed is kept beyond the slots |
| `tasks` | with two tasks that may be enabled and due together, two dispatchers, manual runs, edits and deaths that keep the mutex: do the columns follow the history, does history close, does a task run once per period unless an edit was overtaken, and is what is due run? | yes |
| `task_race` | does a task always run once per period? | **no**: an edit that was overtaken sets an old `next_run_at` |
| `batches` | is nothing lost, called succeeded too early or dispatched twice, and does the run come to rest; in the tables, is what two graphs and a translation store at once found again, told once and counted? | yes, under the conditions the properties name |
| `batch_retry_lost` | has a pending row always a job? | **no**: a lost update of `seeds` leaves a retry without ids |
| `deck` | does the reader walk over cards that stay, whatever answers come when; do grades, waiting and reshuffles agree with the deck? | yes |
| `client_parts` | do the fourteen parts around the deck keep what they promise (one property each, `MessagesAreSound` and `FrontIsSound` for several)? | yes, up to the cases of section 5 |
| `client_sound` | is music heard only when it may be, are effects heard out, do layers settle, does the web play what was asked last? | yes, up to the cases of section 5 |

### What the conditions mean

`ChainIsSound` joins `NeverStuck`, `CutHasCauseWhenCalm` and
`LocalizedMeansServed`; `StagesAreKept` joins `StageOrder` and
`SucceededIsKept`. `CutHasCauseWhenCalm`, `OneLiveJob` and `StagesAreKept` hold
while no worker has died and no retry was made while a job of the node was alive
(`Calm`). Outside of that they fail: a generate job that is delivered again does
not look at the status it finds (localize and complete-info do), and the
`failed()` of an old job marks the row of a newer one. `NeverStuck` and
`LocalizedMeansServed` hold with deaths, but not with such a retry (`hasty`): with
two deaths and two retries a `failed()` hook that still holds an old copy of the row
writes it over a later failure, and the node ends with nothing to retry; with one
attempt and two target languages, two hasty retries run the last language's job of
one chain before another's first, and localize is marked succeeded with a language
unserved. Smaller bounds do not meet either; proving the two properties
did. `NeverStuck` also needs that no retry request died between its commit and its
dispatch: then the node does stay pending, and only failed stages are offered.

`EveryNodeHasJobIfUndisturbed` and `BudgetIsCounted` exclude deaths and database
errors: `enqueueChildren()` commits the children before it dispatches them, and
`handle()` stores the graph before it settles the budget. When the second step
fails the children stay without a job, or the concepts uncounted, and no later
attempt mends it. `BudgetSurvivesFaults` holds with deaths too, because the
slots of a dead handler stay reserved. `BudgetIsSound` joins the two.
`CreatedWithinBudgetAndSeeds` further excludes a retry of a node that still has a
job (`faults["haste"]`): `retryStage()` looks at the status, which says `failed`
before `failed()` has run, so two retries give a new starting concept two jobs, and
when both find it missing each counts it. The second retry is what it takes: one
alone meets a job that has given up and stores nothing any more.

`StoreIsSound` joins `OnePreferred`, `EdgesAreCounted`, `NobodyFails` and
`NamedInEnglish`. Jobs do wait for each other in cycles: `NobodyFails` leaves the
victims of a deadlock out, whose jobs are tried again.

`OneJobPerKeyUnlessRaced` excludes a retry of a batch that has a job (`hasty`;
the page offers it, as a row says `failed` or `partial` while its redelivered
job waits) and a retry that slips between the two statements of
`rememberFollowUpJob()` (`raced`). `NothingIsLost` excludes a dispatch that died
before its job was queued (`lost`).

In `deck`, `dealt` is the grade the cards ahead were asked for with, and `dropped`,
`meddled` and `early` are history variables for the three cases in which the code
does not keep its promise (section 5): `GradesAgree` says that between reshuffles
the grade shown is the committed one and the one of the cards ahead, the latter
unless it was picked before the first cards came. Likewise `odd` in
`CardPose` and `CardFlip`, `finger.skips` in `CardPose`, and `stayed` and
`crossed` in `CardStack`.

### Bounds

Two workers everywhere: every race found or excluded here is between two
handlers, or a handler and the operator. `Tries` is 2 (3 in the code): the first
attempt, a repeated one, and the refusal of a job without attempts left all
occur. One death, timeout, database error and retry each, where the run is about
them; a second of a kind meets the same row states, since the row does not count
them. In `run_growth` one kind of fault occurs per behaviour (`MaxKinds` 1);
pairs of kinds were checked while the model was written and take longer than a
run may. `Targets` 2 gives one localize job that is last and one that is not.
`Count` 2, `MaxConcepts` 3 and four keys (200 in the code) let two jobs share
the last slots, answer with the same new key and reach the cap; `MaxDepth` 2
gives a node that is both child and parent. `MaxNow` 2 with both periods 2 gives a
run, an early second attempt and a due one in each cadence: an hourly task counts
from its last run, one with a cron expression runs at even ticks. One task is enabled
at the start and an edit may enable the other, so two are due at once, one fails,
waits or dies before the other is reached, and two dispatchers meet at both; two
events per behaviour (`MaxEvents`) are a pair of edit, manual start and death, three
in `task_race`. `MaxHops` 1 (20)
gives a batch, a follow-up and the cap. In the tables: two writers with a graph of
two labels each, in either order (the smallest with deadlocks, rows met twice and
an edge counted twice), two complexities, one translation, and at the start at
most two concepts with their terms and an edge. Two graphs per writer, two translations and two localizers were
each checked too while the model was written.

`deck`: three cards, two neighbouring complexities, two lateralities and batches
of up to two, so that an answer can repeat, extend and run out of cards;
`MaxEmpty` 1 (3) gives a retry and the end of the cycle; `PrefetchAhead` 0 (2)
makes load-more begin on the last card, the tightest case.

`client_parts`: the numbers are chosen so that each branch occurs. Pictures that
are a photograph, a false JPEG and a dark portrait; faces and copies shorter than,
near and beyond their bands; two titles, one with a word wider than the column; two
cards of motifs; rails of width 7 with two calls; two retries of a network that comes and goes;
ticks of 100 ms for turns and reshuffles, with the timeout 20 ticks (100 in the
code: nothing but the wait lies between); a stack card of 200 by 240, drags on
both sides of the swipe thresholds, exits of five frames; four screens from a
small phone to a tablet and one on its side, two text sizes. Bounds that only cap
a counter: `MaxCalls`, `MaxCloses`, `MaxCues`, `MaxWrites`, `MaxStay`, `Reach`.

`client_sound`: three music players, three effects over a pool of three, one
rewinding at a time (`MaxSeeks`), two places on the grade scales, one layer that
may fail to load, two sources on the web, two calls of `play` under way (`MaxTries`).

Distinct states: `deck` 1378 thousand, `client_parts` 803, `client_sound` 436; the
server's `node_chain` 1563, `run_growth` 2225, `tasks` 2927, `batches` 464.

### Fairness

Each worker keeps taking jobs and goes on with a running one
(`WF(WorkerStep(w))`): `queue:work` polls for ever. Nothing is assumed of
timeouts, deaths, exceptions and operators, and a worker's steps include the
ones by which a handler fails. A request or command that has begun to dispatch
goes on, unless it dies. For the tasks: the scheduler starts the command every
minute as long as the mutex is free, a dispatcher goes on, and the mutex expires
(`withoutOverlapping(10)`). The client's properties need no fairness: where
something must come, they say that it is on its way (a timer armed, an answer
awaited, a callback posted), which excludes every state in which it would be
waited for in vain. Deadlock is not checked where all may be done: there the
system stops.

## 4. Proofs

For every value of the constants that satisfies the `ASSUME` of its module
(for the server: naturals where the code has counters, at least one attempt, finitely
many workers and keys, a non-empty set of starting concepts no larger than the cap,
non-empty batches, positive periods, finitely many processes in the tables that are
writers or localizers, graphs of distinct labels; for the client see "What the proofs
of the client assume"):

| theorem | property | inductive invariant and argument |
|---|---|---|
| `ConceptPipelineNode_proofs!OneJobAtATime` | `OneLiveJob` | `TypeOK` and `AtItsStage` (a worker's place belongs to its job); then `OneToken`: while calm the node owns one token, which a step hands on or destroys, and only a retry with nothing alive makes a new one |
| `ConceptPipelineNode_proofs!ChainCorrect` | `ChainIsSound` | `Cover`: while no retry is hasty, every stage that is not done is looked after by a job, a worker or a request, or an earlier stage has failed; `ServedOK`: localize jobs run in the order of their languages; `Shapes`: when no worker has died either, the whole row follows from where the one live job is |
| `ConceptPipelineNode_proofs!StagesCorrect` | `StagesAreKept` | step by step from `Shapes`: the row that a calm step starts from leaves it one thing to write |
| `ConceptPipelineRun_proofs!TreeCorrect` | `TreeGrowsDownwards` | `InTree`, and `InMemory`: what a handler remembers of its node and its graph is still so. Without it nothing would connect the children to the depth of a node read several transactions ago |
| `ConceptPipelineRun_proofs!NoNodeIsForgotten` | `EveryNodeHasJobIfUndisturbed` | `NoneForgotten`: each open node is about to be dispatched, waits in the queue, or is executed by a worker that still has to close it |
| `ConceptPipelineRun_proofs!BudgetCorrect` | `BudgetIsSound` | `SlotsOK`: what a handler may still create fits into the slots it holds, but for its seed; `ExtraIsCovered`: what exists and what those slots allow is within what is counted and reserved, and within the budget; `SeedsAreCovered`: each new starting concept is counted beyond the slots once, because (`OneJob`) only one job has it as its seed |
| `ScheduledTasks_proofs!LastRunCorrect`, `NextRunCorrect`, `RowFollows`, `HistoryCorrect` | `LastRunIsNewest`, `NextFollowsLast`, `RowFollowsHistory`, `HistoryCloses` | `LastBoundsRuns`, `EditsAreFresh` (an edit that no one overtook has read the row as it is) and `MineIsMine` |
| `ScheduledTasks_proofs!CadenceKept` | `RunsAtItsCadenceUnlessOvertaken` | from the above, as the next run is later than and monotone in the last (`NextRunLater`, `NextRunMonotone`, for cron as for named cadences) |
| `JobsAndStore_proofs!SucceededCorrect` | `SucceededMeansDone` | `RestsOK`: each set of ids that stands for the rest of a batch (in the seeds, a copy of them, the queue, a request, a worker) holds all its ids that are not done. So even an old copy written back over a newer one only adds work |
| `JobsAndStore_proofs!NothingLostCorrect` | `NothingIsLost` | `RestsOK` and `FirstRowsOK`: a batch whose own row is pending has its job on the way, so at rest that row is offered with all that is left |
| `JobsAndStore_proofs!OneJobCorrect` | `OneJobPerKeyUnlessRaced` | `OneJob`: the job of a row is in one of four places (queued, executed, about to be sent, requested) and moves between them; a row that is missing has none |
| `ConceptStore_proofs!StoreSound`, `JobsAndStore_proofs!StoreCorrect` | `StoreIsSound` | a process that looks for a row and finds none locks the gap, and a locked gap stays `Clear` of what others write: so the row it inserts is the only one of its concept and language in the tables and in all open transactions. What a process writes it holds exclusively, so a count that was read is still the count when it is stored. What another has stored is found again because the recovery reads with locks. The second theorem carries this over to the composition a run checks |
| `DeckLoading_proofs!WalkCorrect`, `GradesCorrect`, `WaitingCorrect` | `WalkIsSound`, `GradesAgree`, `WaitingIsSound` | an answer only adds new cards after a part of the deck that stays; a reshuffle has the deck to itself (`AloneOK`) unless it is meddled with; who waits, waits at the end of the deck, and what he waits for is replaced by the next thing (`WaitOK`); the cards ahead are of the committed grade and a first load under way is for the grade shown, unless a pick outran it (`DealtOK`) |
| `DeckLoading_proofs!AnswersCorrect` | `AnswersMeetTheirDeck` | the same invariant, per answer |
| `DeckLoading_proofs!WalksCorrect` | `WalksLikeCards` | the refinement of `CardWalk`: initial states map to initial states, each action to a step of the walk or none |
| `ClientSound_proofs!MusicCorrect` | `MusicIsSound` | `MusicInv`: the slots of the engine are in order (`EngineOK`: within the budget, every loop with its next turn and every leaving slot with its release), and whether there is a bed, a drop-in, layers, and how low they play follows from phase and flags (`Sound`) |
| `ClientSound_proofs!EffectsCorrect` | `EffectsAreHeard` | `EInv`: unless an event came while a player was being rewound or cut, one player at a time is on its way to be heard (`OneSeek`), and at most two players are heard or about to be, or all of these carry meaning (`TwoVoices`) |
| `ClientSound_proofs!LayersCorrect` | `LayersSettle` | `LInv`: with no fade due the gains are the targets, and the targets are those of the last bar or a bar is due (`Towards`, `Armed`); one arp at a time (`OneArp`); what was loaded and has not failed has a source (`Loaded`). Then, step by step, when a gain may change |
| `ClientSound_proofs!WebSoundCorrect` | `WebSoundIsSound` | `WInv`: at most one attempt to play is current and it is for what is wanted (`TriesOK`); what waits for a gesture or a card is remembered (`GateOK`) |
| `ClientParts_proofs!SheetsCorrect` | `SheetsAreSound` | `SheetsInv`: `SheetsAreSound`, and that a sheet that is away does not slide |
| `ClientParts_proofs!LayoutCorrect` | `CardFitsItsScreen` | types of what is measured suffice: the rest is arithmetic about `concepts.ts`, first without maxima (`WidthIs`, `HeightIs`), then that a card is 1.3 to 1.4 times as high as wide (`HeightLaw`), then that it fits |
| `ClientParts_proofs!PreferencesCorrect` | `PreferencesAreKept` | `PrefInv`: the last write that waits, or else what is stored, is what was settled for (`WritesEnd`), a running swap holds what was picked, and what the client knows of motion is what it shows |
| `ClientParts_proofs!MessagesCorrect` | `MessagesAreSound` | `CoachInv`, `NetworkInv` (the line says, or is about to say, what was heard last) and `ChromeInv` (a grade of the URL is on its way, announced, or gone; a cue has its timer) |
| `ClientParts_proofs!RailsCorrect` | `RailsAreSound` | `RailsInv`: a preview on a rail without a finger has its end among the callbacks that wait to run (`PreviewsEnd`), and without a swap that has yet to land the grade is the committed one (`GradeSettled`) |
| `ClientParts_proofs!FlipCorrect` | `FlipIsSound` | `FlipInv`: which face is told follows from the turn (`FacesFollow`), what the effects hold follows from the card on top (`RefsFollow`), the time from what is told (`ClockFollows`), and a link keeps its window (`LinkIsIgnored`) |
| `ClientParts_proofs!StackCorrect` | `StackIsSound` | `StackInv`: deck and view (`DeckFollows`), a motion, what it commits and the cards pinned for it (`MotionFollows`, `PinsFollow`) belong to one another from the finger to the commit, and who holds the locks is going to release them (`RestsLater`) |
| `ClientParts_proofs!BackCorrect` | `BackStaysReadable` | `MediaInv`: there is an image only where its layer is shown, and what is measured or (but on the web) loaded has been decoded; `BackHasRoom`: the band leaves a line of copy |
| `ClientParts_proofs!PoseCorrect` | (of `PoseIsSound`, `PoseLandsAsItLooks`) | `PoseInv`: types, that the card is held or at home (`HeldOrHome`), that what moves has a way to go and the frames for it (`OnItsWay`), and that the edge a scroll has reached follows from it (`EdgeFollows`) |
| `ClientParts_proofs!FrontCorrect` | (of `FrontIsSound`, all but how a title is broken into lines) | `TitleInv`: what hides a title is waited for; `PatternInv`: the breathing is what the last effect made of it. A connector that glows is one of those in sight because, in a finite set ranked without ties, every rank is taken (`RankIsTaken`), whatever the hash of the card |
| `ClientParts_proofs!CueCorrect` | (of `CueIsSound`) | `CueInv`: where each number is and goes in each phase, and that what is left of the rise is no more than what is left of the swap |
| `ClientParts_proofs!CueIsSeen` | (of `CueIsSound`) | the same invariant, with the times: the card cannot be away with the cue not there yet, and has gone before an answer may be shown |

and `TypeCorrect` for the node, the run, the batches and the tasks (`WalkIsSound`
holds that of `DeckLoading`). The strengthened invariants were model-checked as
well as proved, but for `MusicInv`: it puts numbers and names into one set, which TLC
cannot compare.

Sums over workers (`Total`) are cardinalities of sets of pairs, so that what a step
does to a sum follows from facts about finite sets (`TotalChanges`) without
induction. Where an argument is by induction (`RankIsTaken`, the last callback of a
rail, the chain of jobs) it takes the least counterexample, or the last element,
among numbers.

In the two compositions of the client a step of one part leaves the others alone
(`SheetSteps`, `FlipSteps`, ...: a step of the client is a step of the part or a
stutter), so that each invariant is shown of all behaviours and not only of those in
which its part was chosen.

Three theorems could not be proved as the properties first stood, and were wrong
in cases beyond the bounds of the runs: `NeverStuck`, `LocalizedMeansServed` and
`CreatedWithinBudgetAndSeeds` now exclude hasty retries ("What the conditions
mean").

### What the proofs of the client assume

Beyond naturals where the code has counters and times, and values that are told
apart (`None`, `Unset`, `Unknown` are no card, direction, record or preference;
`Meaning` and `Big` have no event in common, as in `soundEngine.ts`):

- a text on a back is at least one line high (27, as `CARD_BACK_MEDIA_MIN_READING_STRIP`
  in `cardBackMedia.ts` has it), a face is wider than its margins, and no picture is
  so narrow and high that it would be less than a pixel wide in the least band that
  is shown (the code has no case for one, and would show it as nothing);
- windows are at least as wide as the gutters, which any phone is;
- cards are at most 1000 points wide and high and an exit has at most 1000 frames,
  as fractions are in thousandths;
- faces and title boxes are whole pixels;
- mixes and grades go from 1 to 5, as `lateralityStorage.ts` and
  `complexityStorage.ts` clamp them.

`CueIsSeen` assumes two things that the numbers of `motion.reshuffle` satisfy: that
the card has the time to be gathered and to fade before an answer may be shown
(3 + 2 ticks of 9), and that numbers have at least as many steps as animations have
ticks, so that each tick is seen.

### Model-checked only

- Liveness (`RunRests`, `ChainsEnd`, `EveryNodeIsExpanded`, `DueTasksAreRun`) and the
  runs that expect a violation.
- `TurnsSmoothly` of `PoseIsSound`: that no frame turns a card by more than 3.5
  degrees depends on the curves and the lengths of the animations given.
- `CueIsSound` as a whole: when the setting of motion changes while a swap runs, each
  change begins the fades anew, and whether the card has gone in time depends on how
  often that happens and on the steps of a number. The theorems cover the swaps whose
  setting stays, and of the others the order of the silhouettes and that something is
  seen.
- `TitleIsWellSet` of `FrontIsSound`: the size of a title is a fold over its words,
  and what a fold computes for every list is induction over data.

What library operators such as `SelectSeq` and `SortSeq` return cannot be shown either:
where a proof needed it, the models say it with sets of indices (`Ordered`, `Only`
and `RemoveFirst` of the sound, `nextCoachTip` of coaching).

## 5. Findings

Runs that expect a violation:

1. *A cut-off stage that nobody can retry* (`node_retry_race`).
   `GeneratePipelineNodeJob::handle` marks generate failed, then skips the later
   stages by the copy it loaded at its start. If the operator retries in
   between, the stages the retry reset are skipped again, generate succeeds, and
   no failed stage is left to retry.
2. *Slots of a timed-out job stay reserved* (`run_budget_leak`): `failed()` does
   not settle what `handle()` reserved.
3. *One concept over the budget per new seed* (`run_seed_overrun`):
   `limitNewConcepts()` keeps a new seed although labels before it used the
   slots up, and it is counted.
4. *A task runs twice in a period* (`task_race`): `setEnabled()` and
   `configure()` save what the hook derived from a row they read without a lock.
5. *A retry that dispatches nothing* (`batch_retry_lost`): two jobs that defer at
   once write the whole `seeds` column; the entry that is dropped is the one
   "Retry batch" looks for, after it has set the row to pending.

Smaller ones. Each is a definition with the comment "Not so", next
to the weaker property that is checked; to see its counterexample, put it in the
configuration. (`M!P` is `P` of module `M`.)

| definition | what happens instead |
|---|---|
| `ConceptStore!LabelsStay`, `LabelKeepsConcept` | a graph whose label is a translation of a concept writes over that concept's English term; the label written over is no longer found, and a graph whose snapshot is older than the translation makes a second concept for it (`ConceptCanonicalizer.php:60-81`, `199-206`) |
| `ConceptStore!NoSelfEdge` | two labels found to be one concept give an edge from it to itself (`ConceptGraphStore.php:69`) |
| `ConceptStore!TextIsKept` | a term read from an old snapshot is filled in a second time (`ConceptCanonicalizer.php:52-57`) |
| `DeckLoading!LoadingFaceEnds` | an answer dropped after a swipe leaves the loading face until the next event (`emptyBatchRetry.ts:1-5`) |
| `DeckLoading!DeckOfShownGrade` | a grade picked while the first load is in flight is committed without outdating the load, which then deals the cards of the old grade under it (`index.tsx:1015-1024`) |
| `CardFlip!LinkNeverTurns`, `TimeIsAlwaysThatOfTheFace` | a link held 400 to 500 ms turns the card if the tap is heard first; a card dealt while the app is inactive counts its time; a card swapped in place shows its back while its front is told |
| `CardPose!HandoffNeverLeaps`, `AlwaysTurnsSmoothly`, `AlwaysLandsAsItLooks` | `edgeLatched` does not say which edge (`ConceptCardStack.tsx:1151-1190`); a card flung against its drag starts to tilt in one frame; with reduced motion the previous card may stay over the next until the commit |
| `CardPose!StrayedCardIsBacked` | while the previous card comes over from the left nothing lies under the front one, which stays where the drag has moved it up or down: `failOffsetY` limits that only until the pan has begun (`ConceptCardStack.tsx:1022-1037`) |
| `CardMedia!FitIsMeasured` | a late prefetch forgets the size `onLoad` measured (`ConceptCard.tsx:393-409`) |
| `FrontTitle!HiddenTitleIsWaitedFor` | a card beaten to the title cache stays hidden (`ConceptCard.tsx:298-316`) |
| `CardLayout!TipClearsTheCard`, `EverythingFits` | on short screens the tip overlaps the card, and the smallest card may not fit a column that does not scroll |
| `ReshuffleCue!AlwaysLandsWithoutJump` | a motion setting changed during a swap ends it before the deal |
| `HomeChrome!HidesItsOwn`, `CueNamesTheGrade`, `NoPressIsLost` | the end of a fade hides a newer cue; a pick on the rail leaves a cue with the old grade; the press that hides the row of buttons is lost with the remount |
| `Preferences!LocaleKeepsUrl` | the language of the URL is lost if the router strips the URL before storage answers |
| `Coaching!OneTipPerCard` | only the card of the last tip is remembered |
| `Connectivity!SpokenIsQuiet` | the offline announcement does not keep the sound quiet (`DeckStatusLine.tsx:66-92`) |
| `Sheets!ClosesOnce` | a double press sounds a closing sheet twice (`index.tsx:1026`) |
| `GradeRails!ComplexityWaits` | two fingers change complexity during a reshuffle |
| `SoundMusic!AlwaysOneBed`, `DropInsGoOn`, `LayersStayDucked`, `DiscoveryPasses` | two beds meet when one started in the intro; drop-ins do not resume after music was off; an effect's end restores the layers over a screen reader; the duck of a discovery stays after a stop |
| `SoundEffects!MeaningKeepsItsPlayer` | a player that is being rewound is taken for idle |
| `WebSound!LayersStart` | layers asked for before the context runs never start |

Also met: `onOfflineRetry` during a reshuffle (`index.tsx:850`) changes a deck the
reshuffle owns (`meddled`); locks of the stack are released only by the layout
effect on index and status, so a commit that changes neither freezes it; and in
the second variant of the pattern the boxes that cover hidden motifs overlap
their neighbours (`brand/PatternLayer.tsx:194`).

## 6. Not modelled

Each component is in `PROJECT.json` with its reason. In short:

- the pure graph algorithms (constraints, query): planned;
- the prefetch job: a variant of `DeferredBatches` without follow-ups;
- provider calls, prompts and error texts: a provider answers or throws;
- the admin pages that only show data, console arguments, the media proxy,
  analytics, texts and brand, deployment;
- of the client's parts: colours, shadows, the perspective of a turn, SVG and baked
  images, contents of the menu's pages, volumes and choice of sound files.

React's rendering is taken as the code uses it: a handler's state updates are
rendered together, effects run later and may be preceded by other events where
the platform allows that. Animations and timers are external.

## 7. Plan

1. `GraphLimits` and `GraphQuery` as recursive functions, checked against
   declarative definitions over all small graphs; theorems that every edge has
   both ends and that the limits hold.
2. A ledger of budget slots as an abstract specification that
   `ConceptPipelineRun` implements.
3. Client sound and stack with real time, so that "within the fade" can be asked.
