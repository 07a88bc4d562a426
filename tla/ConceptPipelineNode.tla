------------------------- MODULE ConceptPipelineNode -------------------------
(***************************************************************************)
(* One node of a generation run: its row in concept_pipeline_nodes, the    *)
(* queued jobs that work on it, the queue workers that execute them, and   *)
(* the operator who retries a failed stage from the admin page.            *)
(*                                                                         *)
(* A node goes through three stages (generate, localize, complete_info).   *)
(* Its jobs are dispatched as a chain: one generate job, one localize job  *)
(* per target locale, one complete-info job; the next job of a chain is    *)
(* queued when the previous one has returned without being failed.  The    *)
(* queue delivers a job at least once: a worker that is killed leaves its  *)
(* job reserved, and the job comes back after retry_after.                 *)
(*                                                                         *)
(* Every step is one commit to the database or one queue operation.  A     *)
(* handler works on an in-memory copy of the row, and saving that copy     *)
(* writes only the columns that differ from what it loaded (Eloquent's     *)
(* dirty columns), so two workers on one node can overwrite one another.   *)
(* What the stages do to the concept graph is in ConceptPipelineRun.       *)
(***************************************************************************)
EXTENDS Integers

CONSTANTS
    Worker,      \* queue workers (queue:work processes)
    Targets,     \* number of target locales of the run
    AtMaxDepth,  \* is this node at the run's max depth (nothing to expand)?
    HasConcept,  \* is the starting concept already in the database?
    Tries,       \* attempts the queue allows a job
    MaxKills,    \* bound: how often a worker process dies
    MaxRetries,  \* bound: how often the operator retries a stage
    MaxLost      \* bound: how often the admin request dies after its commit

ASSUME NodeAssumption ==
    /\ Targets \in Nat
    /\ Tries \in Nat \ {0}
    /\ MaxKills \in Nat
    /\ MaxRetries \in Nat
    /\ MaxLost \in Nat
    /\ {AtMaxDepth, HasConcept} \subseteq BOOLEAN

VARIABLES
    row,       \* [Stage -> Column]: status and error columns of each stage
    concept,   \* concept_id is set
    queue,     \* [Job -> Nat]: how many copies of a job wait for a worker
    pc,        \* [Worker -> PC]: where a worker is in the job it executes
    job,       \* [Worker -> Job]: the job it executes
    mem,       \* [Worker -> row]: its in-memory copy of the row
    known,     \* [Worker -> BOOLEAN]: concept_id of that copy is set
    requeue,   \* chains retryStage has committed to and not yet dispatched
    served,    \* localize jobs whose locale has been served (history)
    hasty,     \* a retry was made while a job of the node was live (history)
    kills, retries, lost  \* how much of each bound is used

vars == <<row, concept, queue, pc, job, mem, known, requeue,
          served, hasty, kills, retries, lost>>

-----------------------------------------------------------------------------
Stage == {"generate", "localize", "complete_info"}
StageIndex(s) == CASE s = "generate" -> 1
                   [] s = "localize" -> 2
                   [] s = "complete_info" -> 3

Terminal == {"succeeded", "failed", "skipped"}
Status == {"pending", "processing"} \cup Terminal

(* What the error column says, as far as it tells cases apart: "cut" is    *)
(* "Skipped because an earlier pipeline stage failed.", "nothing" is any   *)
(* of the messages of a stage that has nothing to do.                      *)
Error == {"null", "cut", "nothing", "failure"}
Column == [status : Status, error : Error]

Fresh == [status |-> "pending", error |-> "null"]
Processing == [status |-> "processing", error |-> "null"]
Succeeded == [status |-> "succeeded", error |-> "null"]
Failed == [status |-> "failed", error |-> "failure"]
Nothing == [status |-> "skipped", error |-> "nothing"]
Cut == [status |-> "skipped", error |-> "cut"]

(* A chain is an interval of positions: 1 is the generate job, then one    *)
(* localize job per locale (one job for the empty locale when there is     *)
(* no target), then the complete-info job.                                 *)
LocalizeJobs == IF Targets = 0 THEN 1 ELSE Targets
Last == LocalizeJobs + 2
StageOf(p) == IF p = 1 THEN "generate"
              ELSE IF p = Last THEN "complete_info" ELSE "localize"
FirstOf(s) == CASE s = "generate" -> 1
                [] s = "localize" -> 2
                [] s = "complete_info" -> Last
LastOf(s) == CASE s = "generate" -> 1
               [] s = "localize" -> Last - 1
               [] s = "complete_info" -> Last

(* A queued job: its position, the last position of its chain and the      *)
(* attempts already made on it.                                            *)
Job == {j \in [at : 1..Last, end : 1..Last, tried : 0..Tries] : j.at <= j.end}
Chain(from, to) == [at |-> from, end |-> to, tried |-> 0]
NoJob == Chain(1, 1)
NoMem == [s \in Stage |-> Fresh]

PC == {"idle",      \* polling the queue
       "start",     \* job popped, handler not yet entered
       "generate", "save", "localize", "complete",  \* inside the handler
       "cut",       \* stage marked failed, later stages not yet skipped
       "fail",      \* about to call $this->fail(), or killed by its timeout
       "hook",      \* failed() has marked the stage, later ones not skipped
       "thrown",    \* complete-info marked failed, exception on its way
       "returned",  \* handler returned normally
       "ack"}       \* next job of the chain dispatched, own job not deleted

StageNow(w) == StageOf(job[w].at)

Init ==
    /\ row = [s \in Stage |-> Fresh]
    /\ concept = HasConcept
    /\ queue = [j \in Job |-> IF j = Chain(1, Last) THEN 1 ELSE 0]
    /\ pc = [w \in Worker |-> "idle"]
    /\ job = [w \in Worker |-> NoJob]
    /\ mem = [w \in Worker |-> NoMem]
    /\ known = [w \in Worker |-> FALSE]
    /\ requeue = {}
    /\ served = {} /\ hasty = FALSE
    /\ kills = 0 /\ retries = 0 /\ lost = 0

bounds == <<kills, retries, lost>>
ghosts == <<served, hasty, bounds>>

-----------------------------------------------------------------------------
(* The row and its in-memory copies.                                       *)

Written(old, loaded, new) ==
    \* save(): a column is written only if it differs from the loaded one
    [status |-> IF new.status = loaded.status THEN old.status ELSE new.status,
     error |-> IF new.error = loaded.error THEN old.error ELSE new.error]

(* markStage() of a handler on the row it has loaded.                      *)
MarkStage(w, s, new) ==
    row' = [row EXCEPT ![s] = Written(row[s], mem[w][s], new)]

(* The handler is over and its copy of the row is gone.                    *)
Forget(w) ==
    /\ mem' = [mem EXCEPT ![w] = NoMem]
    /\ known' = [known EXCEPT ![w] = FALSE]

(* find() followed by the first markStage() of the handler.                *)
LoadAndMark(w, s, new) ==
    /\ row' = [row EXCEPT ![s] = new]
    /\ mem' = [mem EXCEPT ![w] = row']
    /\ known' = [known EXCEPT ![w] = concept]

SkipPendingStages(w) ==
    LET pending == {s \in Stage : mem[w][s].status = "pending"}
    IN row' = [s \in Stage |-> IF s \in pending
                               THEN Written(row[s], mem[w][s], Cut)
                               ELSE row[s]]

-----------------------------------------------------------------------------
(* The queue: the database driver and the worker loop around a handler.    *)

Goto(w, to) == pc' = [pc EXCEPT ![w] = to]

Enqueue(j) == queue' = [queue EXCEPT ![j] = @ + 1]

BecomeIdle(w) ==
    /\ Goto(w, "idle")
    /\ job' = [job EXCEPT ![w] = NoJob]
    /\ Forget(w)

Return(w) ==
    /\ Goto(w, "returned")
    /\ Forget(w)

(* Mutants of Pop: the attempts of a job are not limited, or not counted.   *)
PopWithoutLimit(w, j) ==
    /\ pc[w] = "idle" /\ queue[j] > 0
    /\ queue' = [queue EXCEPT ![j] = @ - 1]
    /\ job' = [job EXCEPT ![w] = [j EXCEPT !.tried = @ + 1]]
    /\ Goto(w, "start")
    /\ UNCHANGED <<row, concept, mem, known, requeue, ghosts>>

PopWithoutCounting(w, j) ==
    /\ pc[w] = "idle" /\ queue[j] > 0
    /\ queue' = [queue EXCEPT ![j] = @ - 1]
    /\ job' = [job EXCEPT ![w] = j]
    /\ Goto(w, "start")
    /\ UNCHANGED <<row, concept, mem, known, requeue, ghosts>>

(* A worker reserves a job, counting the attempt; a job that has no        *)
(* attempt left is failed without being run.                               *)
Pop(w, j) ==
    /\ pc[w] = "idle" /\ queue[j] > 0
    /\ queue' = [queue EXCEPT ![j] = @ - 1]
    /\ IF j.tried = Tries
       THEN /\ job' = [job EXCEPT ![w] = j]
            /\ Goto(w, "fail")
       ELSE /\ job' = [job EXCEPT ![w] = [j EXCEPT !.tried = @ + 1]]
            /\ Goto(w, "start")
    /\ UNCHANGED <<row, concept, mem, known, requeue, ghosts>>

(* The exception of a handler reached the worker: the job goes back to the *)
(* queue (with a delay, which any later Pop stands for).                   *)
Release(w) ==
    /\ Enqueue(job[w])
    /\ BecomeIdle(w)

(* The handler returned: the next job of the chain is dispatched first,    *)
(* then the job is deleted.                                                *)
DispatchNext(w) ==
    /\ pc[w] = "returned"
    /\ IF job[w].at < job[w].end
       THEN Enqueue(Chain(job[w].at + 1, job[w].end))
       ELSE UNCHANGED queue
    /\ Goto(w, "ack")
    /\ UNCHANGED <<row, concept, job, mem, known, requeue, ghosts>>

Ack(w) ==
    /\ pc[w] = "ack"
    /\ BecomeIdle(w)
    /\ UNCHANGED <<row, concept, queue, requeue, ghosts>>

(* Mutant of FailJob: a job class without a failed() method.                *)
FailJobSilently(w) ==
    /\ pc[w] = "fail"
    /\ BecomeIdle(w)
    /\ UNCHANGED <<row, concept, queue, requeue, ghosts>>

(* fail(): the job is deleted and failed() runs on a freshly loaded row.   *)
(* It leaves a stage that is already marked alone.                         *)
FailJob(w) ==
    LET s == StageNow(w) IN
    /\ pc[w] = "fail"
    /\ \/ /\ row[s].status = "failed"
          /\ BecomeIdle(w)
          /\ UNCHANGED row
       \/ /\ row[s].status # "failed" /\ s = "complete_info"
          /\ row' = [row EXCEPT ![s] = Failed]
          /\ BecomeIdle(w)
       \/ /\ row[s].status # "failed" /\ s # "complete_info"
          /\ LoadAndMark(w, s, Failed)
          /\ Goto(w, "hook")
          /\ UNCHANGED job
    /\ UNCHANGED <<concept, queue, requeue, ghosts>>

FailedHookSkips(w) ==
    /\ pc[w] = "hook"
    /\ SkipPendingStages(w)
    /\ BecomeIdle(w)
    /\ UNCHANGED <<concept, queue, requeue, ghosts>>

(* The worker timeout (failOnTimeout) strikes in the long call a handler   *)
(* makes; the alarm fails the job and ends the process.                    *)
Timeout(w) ==
    /\ pc[w] \in {"generate", "localize", "complete"}
    /\ Goto(w, "fail")
    /\ Forget(w)
    /\ UNCHANGED <<row, concept, queue, job, requeue, ghosts>>

(* The process dies without running anything: the job stays reserved and   *)
(* is available again after retry_after, unless it was already deleted.    *)
Kill(w) ==
    /\ pc[w] # "idle" /\ kills < MaxKills
    /\ kills' = kills + 1
    /\ IF pc[w] = "hook" THEN UNCHANGED queue ELSE Enqueue(job[w])
    /\ BecomeIdle(w)
    /\ UNCHANGED <<row, concept, requeue, served, hasty, retries, lost>>

-----------------------------------------------------------------------------
(* GeneratePipelineNodeJob.                                                *)

GenerateStart(w) ==
    /\ pc[w] = "start" /\ StageNow(w) = "generate"
    /\ LoadAndMark(w, "generate", Processing)
    /\ Goto(w, "generate")
    /\ UNCHANGED <<concept, queue, job, requeue, ghosts>>

(* At max depth, or with the run's concept budget used up, there is        *)
(* nothing to generate and the chain goes on.                              *)
GenerateSkips(w) ==
    /\ pc[w] = "generate"
    /\ MarkStage(w, "generate", Nothing)
    /\ Return(w)
    /\ UNCHANGED <<concept, queue, job, requeue, ghosts>>

(* The graph is stored and the node gets the concept of its label, if the  *)
(* graph has it.                                                           *)
GenerateStores(w) ==
    /\ pc[w] = "generate" /\ ~AtMaxDepth
    /\ concept' \in {concept, TRUE}
    /\ Goto(w, "save")
    /\ UNCHANGED <<row, queue, job, mem, known, requeue, ghosts>>

GenerateSucceeds(w) ==
    /\ pc[w] = "save"
    /\ MarkStage(w, "generate", Succeeded)
    /\ Return(w)
    /\ UNCHANGED <<concept, queue, job, requeue, ghosts>>

(* Mutant of GenerateRetries: the job is released, and the handler returns  *)
(* as if it were done.                                                      *)
GenerateRetriesAndReturns(w) ==
    /\ pc[w] = "generate" /\ ~AtMaxDepth
    /\ job[w].tried < Tries
    /\ Enqueue(job[w])
    /\ Return(w)
    /\ UNCHANGED <<row, concept, job, requeue, ghosts>>

(* A provider error that may pass is rethrown while attempts are left; the *)
(* stage stays processing.                                                 *)
GenerateRetries(w) ==
    /\ pc[w] = "generate" /\ ~AtMaxDepth
    /\ job[w].tried < Tries
    /\ Release(w)
    /\ UNCHANGED <<row, concept, requeue, ghosts>>

(* Any other error, or an LLM answer too close to the timeout.             *)
GenerateFails(w) ==
    /\ pc[w] \in {"generate", "save"} /\ ~AtMaxDepth
    /\ MarkStage(w, "generate", Failed)
    /\ Goto(w, "cut")
    /\ UNCHANGED <<concept, queue, job, mem, known, requeue, ghosts>>

(* skipPendingStages() of a handler that has marked its stage failed; the  *)
(* in-memory copy decides what is pending.                                 *)
CutRest(w) ==
    /\ pc[w] = "cut"
    /\ SkipPendingStages(w)
    /\ Goto(w, "fail")
    /\ Forget(w)
    /\ UNCHANGED <<concept, queue, job, requeue, ghosts>>

-----------------------------------------------------------------------------
(* LocalizePipelineNodeJob.                                                *)

LocalizeStart(w) ==
    /\ pc[w] = "start" /\ StageNow(w) = "localize"
    /\ \/ /\ row["localize"].status \in {"skipped", "failed"}
          /\ Return(w)
          /\ UNCHANGED row
       \/ /\ row["localize"].status \notin {"skipped", "failed"}
          /\ LoadAndMark(w, "localize", Processing)
          /\ Goto(w, "localize")
    /\ UNCHANGED <<concept, queue, job, requeue, ghosts>>

LocalizeSkips(w) ==
    /\ pc[w] = "localize"
    /\ ~known[w] \/ Targets = 0
    /\ MarkStage(w, "localize", Nothing)
    /\ Return(w)
    /\ UNCHANGED <<concept, queue, job, requeue, ghosts>>

(* Only the last locale's job marks the stage succeeded.                   *)
LocalizeSucceeds(w) ==
    /\ pc[w] = "localize" /\ known[w] /\ Targets > 0
    /\ IF job[w].at = LastOf("localize")
       THEN MarkStage(w, "localize", Succeeded)
       ELSE UNCHANGED row
    /\ served' = served \cup {job[w].at}
    /\ Return(w)
    /\ UNCHANGED <<concept, queue, job, requeue, hasty, bounds>>

LocalizeRetries(w) ==
    /\ pc[w] = "localize" /\ known[w] /\ Targets > 0
    /\ job[w].tried < Tries
    /\ Release(w)
    /\ UNCHANGED <<row, concept, requeue, ghosts>>

LocalizeFails(w) ==
    /\ pc[w] = "localize" /\ known[w] /\ Targets > 0
    /\ MarkStage(w, "localize", Failed)
    /\ Goto(w, "cut")
    /\ UNCHANGED <<concept, queue, job, mem, known, requeue, ghosts>>

-----------------------------------------------------------------------------
(* CompleteInfoPipelineNodeJob.                                            *)

CompleteStart(w) ==
    /\ pc[w] = "start" /\ StageNow(w) = "complete_info"
    /\ \/ /\ row["complete_info"].status \in {"skipped", "failed"}
          /\ Return(w)
          /\ UNCHANGED row
       \/ /\ row["complete_info"].status \notin {"skipped", "failed"}
          /\ LoadAndMark(w, "complete_info", Processing)
          /\ Goto(w, "complete")
    /\ UNCHANGED <<concept, queue, job, requeue, ghosts>>

(* No concept, or a concept that has lost its terms.                       *)
CompleteSkips(w) ==
    /\ pc[w] = "complete"
    /\ MarkStage(w, "complete_info", Nothing)
    /\ Return(w)
    /\ UNCHANGED <<concept, queue, job, requeue, ghosts>>

(* Every term failed and none was updated, or the work is done: either way *)
(* the handler returns.                                                    *)
CompleteReturns(w) ==
    /\ pc[w] = "complete" /\ known[w]
    /\ \E new \in {Succeeded, Failed} : MarkStage(w, "complete_info", new)
    /\ Return(w)
    /\ UNCHANGED <<concept, queue, job, requeue, ghosts>>

CompleteThrows(w) ==
    /\ pc[w] = "complete" /\ known[w]
    /\ MarkStage(w, "complete_info", Failed)
    /\ Goto(w, "thrown")
    /\ Forget(w)
    /\ UNCHANGED <<concept, queue, job, requeue, ghosts>>

(* The rethrown exception: the job is released while attempts are left,    *)
(* and failed otherwise.                                                   *)
CompleteRethrown(w) ==
    /\ pc[w] = "thrown"
    /\ \/ /\ job[w].tried < Tries
          /\ Release(w)
       \/ /\ job[w].tried = Tries
          /\ Goto(w, "fail")
          /\ UNCHANGED <<queue, job, mem, known>>
    /\ UNCHANGED <<row, concept, requeue, ghosts>>

-----------------------------------------------------------------------------
(* retryStage(), called from the admin page.                               *)

NoLiveJob ==
    /\ \A j \in Job : queue[j] = 0
    /\ \A w \in Worker : pc[w] = "idle"
    /\ requeue = {}

(* Mutant of ResetBy: all stages are reset.                                 *)
ResetAll(s) == Stage

(* The failed stage and the run of skipped or pending stages behind it.    *)
ResetBy(s) ==
    {t \in Stage :
        /\ StageIndex(s) <= StageIndex(t)
        /\ \A u \in Stage : StageIndex(s) < StageIndex(u)
                             /\ StageIndex(u) <= StageIndex(t)
                             => row[u].status \in {"skipped", "pending"}}

(* The transaction: the row is locked and must have failed in this stage.  *)
(* An operator sends one request at a time (requeue = {}).                 *)
RetryStage(s) ==
    LET reset == ResetBy(s)
        final == CHOOSE t \in reset :
                     \A u \in reset : StageIndex(u) <= StageIndex(t)
    IN /\ retries < MaxRetries /\ requeue = {}
       /\ hasty' = (hasty \/ ~NoLiveJob)
       /\ row[s].status = "failed"
       /\ row' = [t \in Stage |-> IF t \in reset THEN Fresh ELSE row[t]]
       /\ requeue' = {Chain(FirstOf(s), LastOf(final))}
       /\ retries' = retries + 1
       /\ UNCHANGED <<concept, queue, pc, job, mem, known, served, kills,
                      lost>>

(* After the commit the chain is dispatched ...                            *)
DispatchRetry ==
    \E j \in requeue :
        /\ Enqueue(j)
        /\ requeue' = requeue \ {j}
        /\ UNCHANGED <<row, concept, pc, job, mem, known, ghosts>>

(* ... unless the request dies first.                                      *)
LoseRetry ==
    /\ lost < MaxLost /\ requeue # {}
    /\ requeue' = {}
    /\ lost' = lost + 1
    /\ UNCHANGED <<row, concept, queue, pc, job, mem, known, served, hasty,
                   kills, retries>>

-----------------------------------------------------------------------------
Generate(w) ==
    \/ GenerateStart(w) \/ GenerateSkips(w) \/ GenerateStores(w)
    \/ GenerateSucceeds(w) \/ GenerateRetries(w) \/ GenerateFails(w)

Localize(w) ==
    \/ LocalizeStart(w) \/ LocalizeSkips(w) \/ LocalizeSucceeds(w)
    \/ LocalizeRetries(w) \/ LocalizeFails(w)

CompleteInfo(w) ==
    \/ CompleteStart(w) \/ CompleteSkips(w) \/ CompleteReturns(w)
    \/ CompleteThrows(w) \/ CompleteRethrown(w)

WorkerStep(w) ==
    \/ \E j \in Job : Pop(w, j)
    \/ Generate(w) \/ Localize(w) \/ CompleteInfo(w) \/ CutRest(w)
    \/ DispatchNext(w) \/ Ack(w) \/ FailJob(w) \/ FailedHookSkips(w)

Next ==
    \/ \E w \in Worker : WorkerStep(w) \/ Timeout(w) \/ Kill(w)
    \/ \E s \in Stage : RetryStage(s)
    \/ DispatchRetry
    \/ LoseRetry

Spec == Init /\ [][Next]_vars

(* A worker keeps working, and a request that committed dispatches: nothing*)
(* is assumed about timeouts, deaths of processes or the operator.         *)
FairSpec ==
    /\ Spec
    /\ \A w \in Worker : WF_vars(WorkerStep(w))
    /\ WF_vars(DispatchRetry)

-----------------------------------------------------------------------------
(* Each variable has its type; in particular no job is run more often than  *)
(* `tries` allows.                                                         *)
TypeOK ==
    /\ row \in [Stage -> Column]
    /\ concept \in BOOLEAN
    /\ queue \in [Job -> Nat]
    /\ pc \in [Worker -> PC]
    /\ job \in [Worker -> Job]
    /\ mem \in [Worker -> [Stage -> Column]]
    /\ known \in [Worker -> BOOLEAN]
    /\ requeue \subseteq Job
    /\ served \subseteq 2..(Last - 1)
    /\ hasty \in BOOLEAN
    /\ kills \in 0..MaxKills
    /\ retries \in 0..MaxRetries
    /\ lost \in 0..MaxLost

(* No process died, and the operator waited until nothing ran.             *)
Calm == kills = 0 /\ ~hasty

(* When nothing is left to run, either every stage has ended or a stage    *)
(* has failed, which is what the operator can retry: whatever deaths,      *)
(* redeliveries and timeouts there were, a node never ends up waiting for  *)
(* a job nobody will run, unless a retry request died between its commit   *)
(* and its dispatch, or a retry overlapped a live job, whose stale copy of *)
(* the row can then erase a later failure (the chain, failed(),            *)
(* retryStage()).                                                          *)
NeverStuck ==
    ~hasty /\ lost = 0 /\ NoLiveJob =>
        \/ \A s \in Stage : row[s].status \in Terminal
        \/ \E s \in Stage : row[s].status = "failed"

(* A stage left with the message "Skipped because an earlier pipeline      *)
(* stage failed." has an earlier stage that did fail, and can be retried;  *)
(* only failed stages can (skipPendingStages(), retryStage()).             *)
CutHasCause ==
    NoLiveJob => \A s \in Stage : row[s].error = "cut" =>
                     \E t \in Stage : /\ StageIndex(t) < StageIndex(s)
                                      /\ row[t].status = "failed"

(* The same, if no worker died and no retry overlapped a live job: an      *)
(* accepted retry brings back every stage that its failure had cut off.    *)
CutHasCauseWhenCalm == Calm => CutHasCause

Executing(w) == pc[w] \notin {"idle", "ack"}

(* One job of the node is queued, executed or about to be queued at a      *)
(* time: stages of a node never overlap and a retry starts one chain.      *)
(* (A job that has dispatched its successor is only waiting to be deleted.)*)
OneLiveJob ==
    Calm =>
    /\ \A j \in Job : queue[j] <= 1
    /\ \A i, j \in Job : queue[i] > 0 /\ queue[j] > 0 => i = j
    /\ \A w \in Worker : Executing(w) =>
           /\ \A j \in Job : queue[j] = 0
           /\ \A v \in Worker \ {w} : ~Executing(v)
           /\ requeue = {}
    /\ requeue # {} => \A j \in Job : queue[j] = 0

(* Localize is marked succeeded only when the job of every target locale   *)
(* has run to its end, over all retries and redeliveries (isLast).  When a *)
(* retry overlaps a live job, the last locale's job of one chain can come  *)
(* too early for another.                                                  *)
LocalizedMeansServed ==
    ~hasty =>
        (row["localize"].status = "succeeded" => served = 2..(Last - 1))

(* A stage is entered only when every earlier stage has ended.             *)
StageOrder ==
    [][Calm' => \A s, t \in Stage :
          /\ StageIndex(t) < StageIndex(s)
          /\ row[s].status # "processing" /\ row'[s].status = "processing"
          => row[t].status \in Terminal]_vars

(* "succeeded earlier stages are left alone": once a stage has succeeded,  *)
(* no retry, timeout or failed() hook takes that back.                     *)
SucceededIsKept ==
    [][Calm' => \A s \in Stage :
          row[s].status = "succeeded" => row'[s].status = "succeeded"]_vars

(* The chain of a node never strands, a stage that was cut off has a       *)
(* failure to retry, and localize counts every locale (handle(), failed(), *)
(* retryStage()).                                                          *)
ChainIsSound == NeverStuck /\ CutHasCauseWhenCalm /\ LocalizedMeansServed

(* Stages are entered in their order and what has succeeded stays so.      *)
StagesAreKept == StageOrder /\ SucceededIsKept

(* Every chain comes to its end, whatever fails: attempts run out.         *)
ChainsEnd == []<>NoLiveJob

=============================================================================
