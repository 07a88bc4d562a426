--------------------------- MODULE DeferredBatches ---------------------------
(***************************************************************************)
(* A localize or complete-info run: its ids are cut into batches, each     *)
(* batch is a queued job with a tracking row in concept_graph_run_jobs.    *)
(* A job that is about to run out of time puts the ids it has not worked   *)
(* on into a follow-up job ("localize#1" is followed by "localize#1+1",    *)
(* then "localize#1+2"): it notes them in the JSON column seeds of the     *)
(* run, creates or resets the follow-up's row, dispatches it and calls     *)
(* itself partial.  From the admin page a batch can be retried, with the   *)
(* ids the run's seeds name for it.                                        *)
(*                                                                         *)
(* The seeds of a run are read, changed and saved as a whole, by all jobs  *)
(* of the run; the rows are updated one by one.  No step of this is in a   *)
(* transaction.                                                            *)
(***************************************************************************)
EXTENDS Integers, FiniteSets

CONSTANTS
    Batch,       \* batches of the run
    Id,          \* concepts (localize) or terms (complete-info)
    Content,     \* [Batch -> SUBSET Id]
    Worker,      \* queue workers
    MaxHops,     \* how often a batch may be followed up (20 in the code)
    Tries,       \* attempts the queue allows a job
    MaxFaults,   \* bound: how often a process dies, a job is timed out or the
                 \* database fails
    MaxRetries   \* bound: how often the operator retries a batch

ASSUME BatchesAssumption ==
    /\ Id \subseteq Nat
    /\ Content \in [Batch -> (SUBSET Id) \ {{}}]
    /\ MaxHops \in Nat
    /\ Tries \in Nat \ {0}
    /\ {MaxFaults, MaxRetries} \subseteq Nat

VARIABLES
    status,     \* [Key -> Status]: the tracking rows
    batches,    \* [Key -> SUBSET Id]: seeds["batches"] of the run
    waiting,    \* batches the dispatch service has still to dispatch
    queue,      \* [Job -> Nat]: how many copies of a job wait for a worker
    pc,         \* [Worker -> PC]
    job,        \* [Worker -> Job]: the job a worker executes
    left,       \* [Worker -> SUBSET Id]: the ids it has not worked on
    copy,       \* [Worker -> batches]: the seeds it has read
    request,    \* the job a retry has still to dispatch, if any
    done,       \* ids that have been worked on (history)
    hasty,      \* a batch was retried while it had a job (history)
    raced,      \* a follow-up was reset while it had a job (history)
    lost,       \* dispatches that died half way (history)
    faults, retries

workVars == <<pc, job, left, copy>>
bounds == <<faults, retries>>
ghosts == <<done, hasty, raced, lost>>
vars == <<status, batches, waiting, queue, workVars, request, ghosts, bounds>>

-----------------------------------------------------------------------------
Key == Batch \X (0..MaxHops)
First(b) == <<b, 0>>
FollowUp(k) == <<k[1], k[2] + 1>>

(* "none": there is no row.                                                *)
Status == {"none", "pending", "processing", "partial", "succeeded", "failed"}

Job == {j \in [key : Key, ids : SUBSET Id, tried : 0..Tries] :
            j.ids \subseteq Content[j.key[1]]}
NewJob(k, ids) == [key |-> k, ids |-> ids, tried |-> 0]
None == [key |-> <<>>]
NoCopy == [k \in Key |-> {}]

PC == {"idle", "start",
       "work",      \* in the service
       "save", "remember", "reset", "send",  \* in requeueDeferred
       "finish",    \* about to mark its own row
       "fail",      \* the exception has reached the worker, or a timeout
       "ack"}       \* handler returned, job not deleted

Init ==
    /\ status = [k \in Key |-> "none"]
    /\ batches = [k \in Key |-> IF k[2] = 0 THEN Content[k[1]] ELSE {}]
    /\ waiting = Batch
    /\ queue = [j \in Job |-> 0]
    /\ pc = [w \in Worker |-> "idle"]
    /\ job = [w \in Worker |-> None]
    /\ left = [w \in Worker |-> {}]
    /\ copy = [w \in Worker |-> NoCopy]
    /\ request = None
    /\ done = {} /\ hasty = FALSE /\ raced = FALSE /\ lost = 0
    /\ faults = 0 /\ retries = 0

Goto(w, to) == pc' = [pc EXCEPT ![w] = to]
Mark(k, s) == status' = [status EXCEPT ![k] = s]
Enqueue(j) == queue' = [queue EXCEPT ![j] = @ + 1]
KeyOf(w) == job[w].key
FollowKey(w) == FollowUp(KeyOf(w))

Queued(k) == \E j \in Job : j.key = k /\ queue[j] > 0
Executed(k) == \E w \in Worker : pc[w] # "idle" /\ KeyOf(w) = k
Sent(k) == \/ request # None /\ request.key = k
           \/ \E w \in Worker : pc[w] = "send" /\ FollowKey(w) = k
HasJob(k) == Queued(k) \/ Executed(k) \/ Sent(k)

BecomeIdle(w) ==
    /\ Goto(w, "idle")
    /\ job' = [job EXCEPT ![w] = None]
    /\ left' = [left EXCEPT ![w] = {}]
    /\ copy' = [copy EXCEPT ![w] = NoCopy]

-----------------------------------------------------------------------------
(* Dispatching the run.                                                    *)

Dispatch(b) ==
    /\ b \in waiting
    /\ waiting' = waiting \ {b}
    /\ Mark(First(b), "pending")
    /\ Enqueue(NewJob(First(b), Content[b]))
    /\ UNCHANGED <<batches, workVars, request, ghosts, bounds>>

(* The dispatching process dies, perhaps between creating the row of a     *)
(* batch and dispatching its job.                                          *)
DieDispatching ==
    /\ waiting # {} /\ faults < MaxFaults
    /\ faults' = faults + 1
    /\ lost' = lost + 1
    /\ waiting' = {}
    /\ \/ \E b \in waiting : Mark(First(b), "pending")
       \/ UNCHANGED status
    /\ UNCHANGED <<batches, queue, workVars, request, done, hasty, raced,
                   retries>>

-----------------------------------------------------------------------------
(* The queue.                                                              *)

(* Mutant of Pop: the attempt is not counted.                               *)
PopWithoutCounting(w, j) ==
    /\ pc[w] = "idle" /\ queue[j] > 0
    /\ queue' = [queue EXCEPT ![j] = @ - 1]
    /\ job' = [job EXCEPT ![w] = j]
    /\ Goto(w, "start")
    /\ UNCHANGED <<status, batches, waiting, left, copy, request, ghosts,
                   bounds>>

(* A worker reserves a job, counting the attempt; a job that has no        *)
(* attempt left is failed without being run.                               *)
Pop(w, j) ==
    /\ pc[w] = "idle" /\ queue[j] > 0
    /\ queue' = [queue EXCEPT ![j] = @ - 1]
    /\ IF j.tried = Tries
       THEN /\ job' = [job EXCEPT ![w] = j]
            /\ Goto(w, "fail")
       ELSE /\ job' = [job EXCEPT ![w] = [j EXCEPT !.tried = @ + 1]]
            /\ Goto(w, "start")
    /\ UNCHANGED <<status, batches, waiting, left, copy, request, ghosts,
                   bounds>>

(* The job is deleted as failed, and its failed() marks the row.           *)
FailJob(w) ==
    /\ pc[w] = "fail"
    /\ Mark(KeyOf(w), "failed")
    /\ BecomeIdle(w)
    /\ UNCHANGED <<batches, waiting, queue, request, ghosts, bounds>>

Ack(w) ==
    /\ pc[w] = "ack"
    /\ BecomeIdle(w)
    /\ UNCHANGED <<status, batches, waiting, queue, request, ghosts, bounds>>

(* $failOnTimeout: a job that is timed out is failed and not tried again.  *)
Timeout(w) ==
    /\ pc[w] = "work" /\ faults < MaxFaults
    /\ faults' = faults + 1
    /\ Goto(w, "fail")
    /\ UNCHANGED <<status, batches, waiting, queue, job, left, copy, request,
                   ghosts, retries>>

(* A worker dies; its reserved job comes back after retry_after.           *)
Kill(w) ==
    /\ pc[w] # "idle" /\ faults < MaxFaults
    /\ faults' = faults + 1
    /\ Enqueue(job[w])
    /\ BecomeIdle(w)
    /\ UNCHANGED <<status, batches, waiting, request, ghosts, retries>>

-----------------------------------------------------------------------------
(* handle(): the service works on the ids in order and stops early when    *)
(* the time left may not suffice for the next one.                         *)

Start(w) ==
    /\ pc[w] = "start"
    /\ Mark(KeyOf(w), "processing")
    /\ left' = [left EXCEPT ![w] = job[w].ids]
    /\ Goto(w, "work")
    /\ UNCHANGED <<batches, waiting, queue, job, copy, request, ghosts,
                   bounds>>

Work(w) ==
    /\ pc[w] = "work"
    /\ \E i \in left[w] :
         /\ \A j \in left[w] : i <= j
         /\ done' = done \cup {i}
         /\ left' = [left EXCEPT ![w] = @ \ {i}]
    /\ UNCHANGED <<status, batches, waiting, queue, pc, job, copy, request,
                   hasty, raced, lost, bounds>>

(* The rest, if there is one, is followed up unless the batch has been    *)
(* followed up too often.                                                  *)
DefersWithoutEnd(w) == left[w] # {}  \* mutant

Defers(w) == left[w] # {} /\ KeyOf(w)[2] < MaxHops

(* Mutant of Outcome: a job at the cap has done what it can.                *)
OutcomeAtCapSucceeded(w) ==
    IF left[w] = {} \/ KeyOf(w)[2] = MaxHops THEN "succeeded" ELSE "partial"

Outcome(w) == IF left[w] = {} THEN "succeeded" ELSE "partial"

Finish(w) ==
    /\ pc[w] = "finish" \/ (pc[w] = "work" /\ ~Defers(w))
    /\ Mark(KeyOf(w), Outcome(w))
    /\ left' = [left EXCEPT ![w] = {}]
    /\ Goto(w, "ack")
    /\ UNCHANGED <<batches, waiting, queue, job, copy, request, ghosts, bounds>>

(* Any exception: of a provider in the service, of the database while the  *)
(* rest is put into a follow-up.  Complete-info tries again after every    *)
(* exception, localize only after some.  A job to be tried again goes back *)
(* to the queue (with a delay, which any later Pop stands for).            *)
Throw(w) ==
    /\ \/ /\ pc[w] = "work"
          /\ UNCHANGED faults
       \/ /\ pc[w] \in {"save", "remember", "reset", "send", "finish"}
          /\ faults < MaxFaults
          /\ faults' = faults + 1
    /\ \/ /\ job[w].tried < Tries
          /\ Mark(KeyOf(w), "processing")
          /\ Enqueue(job[w])
          /\ BecomeIdle(w)
       \/ /\ Mark(KeyOf(w), "failed")
          /\ Goto(w, "fail")
          /\ UNCHANGED <<queue, job, left, copy>>
    /\ UNCHANGED <<batches, waiting, request, ghosts, retries>>

-----------------------------------------------------------------------------
(* requeueDeferred().                                                      *)

LoadSeeds(w) ==
    /\ pc[w] = "work" /\ Defers(w)
    /\ copy' = [copy EXCEPT ![w] = batches]
    /\ Goto(w, "save")
    /\ UNCHANGED <<status, batches, waiting, queue, job, left, request,
                   ghosts, bounds>>

(* Mutant of SaveSeeds: the other batches are left out.                     *)
SaveOnlyFollowUp(w) ==
    /\ pc[w] = "save"
    /\ batches' = [NoCopy EXCEPT ![FollowKey(w)] = left[w]]
    /\ copy' = [copy EXCEPT ![w] = NoCopy]
    /\ Goto(w, "remember")
    /\ UNCHANGED <<status, waiting, queue, job, left, request, ghosts, bounds>>

(* The whole column is written, unless the entry was there already.        *)
SaveSeeds(w) ==
    /\ pc[w] = "save"
    /\ batches' = IF copy[w][FollowKey(w)] = left[w] THEN batches
                  ELSE [copy[w] EXCEPT ![FollowKey(w)] = left[w]]
    /\ copy' = [copy EXCEPT ![w] = NoCopy]
    /\ Goto(w, "remember")
    /\ UNCHANGED <<status, waiting, queue, job, left, request, ghosts, bounds>>

(* Mutant of Remember: whatever row is there is taken over.                 *)
RememberAlways(w) ==
    /\ pc[w] = "remember"
    /\ Mark(FollowKey(w), "pending")
    /\ Goto(w, "send")
    /\ UNCHANGED <<batches, waiting, queue, job, left, copy, request, ghosts,
                   bounds>>

(* rememberFollowUpJob(): create the row; if there is one, only a failed   *)
(* one is used again.                                                      *)
Remember(w) ==
    /\ pc[w] = "remember"
    /\ \/ /\ status[FollowKey(w)] = "none"
          /\ Mark(FollowKey(w), "pending")
          /\ Goto(w, "send")
       \/ /\ status[FollowKey(w)] = "failed"
          /\ Goto(w, "reset")
          /\ UNCHANGED status
       \/ /\ status[FollowKey(w)] \notin {"none", "failed"}
          /\ Goto(w, "finish")
          /\ UNCHANGED status
    /\ UNCHANGED <<batches, waiting, queue, job, left, copy, request, ghosts,
                   bounds>>

Reset(w) ==
    /\ pc[w] = "reset"
    /\ raced' = (raced \/ HasJob(FollowKey(w)))
    /\ Mark(FollowKey(w), "pending")
    /\ Goto(w, "send")
    /\ UNCHANGED <<batches, waiting, queue, job, left, copy, request, done,
                   hasty, lost, bounds>>

Send(w) ==
    /\ pc[w] = "send"
    /\ Enqueue(NewJob(FollowKey(w), left[w]))
    /\ Goto(w, "finish")
    /\ UNCHANGED <<status, batches, waiting, job, left, copy, request, ghosts,
                   bounds>>

-----------------------------------------------------------------------------
(* "Retry batch" on the admin page.                                        *)

(* timed_out is shown for a row that says processing five minutes after    *)
(* the job was started: no job runs that long.                             *)
Offered(k) ==
    \/ status[k] \in {"failed", "partial"}
    \/ /\ status[k] = "processing"
       /\ \A w \in Worker :
            pc[w] \in {"idle", "start", "fail"} \/ KeyOf(w) # k

(* Without ids for the key the row is pending, and that is all.            *)
RetryBatch(k) ==
    /\ Offered(k) /\ request = None /\ retries < MaxRetries
    /\ retries' = retries + 1
    /\ hasty' = (hasty \/ HasJob(k))
    /\ Mark(k, "pending")
    /\ request' = IF batches[k] = {} THEN None ELSE NewJob(k, batches[k])
    /\ UNCHANGED <<batches, waiting, queue, workVars, done, raced, lost,
                   faults>>

DispatchRetry ==
    /\ request # None
    /\ Enqueue(request)
    /\ request' = None
    /\ UNCHANGED <<status, batches, waiting, workVars, ghosts, bounds>>

LoseRetry ==
    /\ request # None /\ faults < MaxFaults
    /\ faults' = faults + 1
    /\ lost' = lost + 1
    /\ request' = None
    /\ UNCHANGED <<status, batches, waiting, queue, workVars, done, hasty,
                   raced, retries>>

-----------------------------------------------------------------------------
WorkerStep(w) ==
    \/ \E j \in Job : Pop(w, j)
    \/ Start(w) \/ Work(w)
    \/ LoadSeeds(w) \/ SaveSeeds(w) \/ Remember(w) \/ Reset(w) \/ Send(w)
    \/ Finish(w) \/ FailJob(w) \/ Ack(w)

Next ==
    \/ \E b \in Batch : Dispatch(b)
    \/ \E w \in Worker : WorkerStep(w) \/ Throw(w) \/ Timeout(w) \/ Kill(w)
    \/ \E k \in Key : RetryBatch(k)
    \/ DispatchRetry \/ LoseRetry \/ DieDispatching

Spec == Init /\ [][Next]_vars

(* Workers keep polling and a running handler goes on; a request or a      *)
(* command that has begun to dispatch goes on.                             *)
FairSpec ==
    /\ Spec
    /\ \A w \in Worker : WF_vars(WorkerStep(w))
    /\ WF_vars(\E b \in Batch : Dispatch(b))
    /\ WF_vars(DispatchRetry)

-----------------------------------------------------------------------------
WorkerOK(w) ==
    /\ pc[w] = "idle" => left[w] = {}
    /\ pc[w] # "idle" => job[w] \in Job /\ left[w] \subseteq job[w].ids
    /\ pc[w] \in {"save", "remember", "reset", "send"} =>
         left[w] # {} /\ KeyOf(w)[2] < MaxHops

(* Each variable has its type; a worker that has a job has one that it may *)
(* execute, and one that defers ids is not at the last follow-up.          *)
TypeOK ==
    /\ status \in [Key -> Status]
    /\ batches \in [Key -> SUBSET Id]
    /\ waiting \subseteq Batch
    /\ queue \in [Job -> Nat]
    /\ pc \in [Worker -> PC]
    /\ job \in [Worker -> Job \cup {None}]
    /\ left \in [Worker -> SUBSET Id]
    /\ copy \in [Worker -> [Key -> SUBSET Id]]
    /\ request \in Job \cup {None}
    /\ \A w \in Worker : WorkerOK(w)
    /\ done \subseteq Id
    /\ hasty \in BOOLEAN /\ raced \in BOOLEAN
    /\ lost \in Nat /\ faults \in Nat /\ retries \in Nat

(* A batch or a follow-up that calls itself succeeded is the end of its    *)
(* whole batch: every id of it has been worked on, by this job or by one   *)
(* before it, whatever was retried, delivered twice or written over in     *)
(* between (deferredOutcome(), requeueDeferred()).                         *)
SucceededMeansDone ==
    \A k \in Key : status[k] = "succeeded" => Content[k[1]] \subseteq done

(* Nothing is on its way any more.                                         *)
Quiet ==
    /\ waiting = {} /\ request = None
    /\ \A j \in Job : queue[j] = 0
    /\ \A w \in Worker : pc[w] = "idle"

(* When nothing is on its way, every id that has not been worked on is in  *)
(* a batch the admin page offers to retry and finds the ids of, also if    *)
(* follow-ups ended at the cap or were written over (the statuses          *)
(* deferredOutcome() chooses, the ids RunJobsRelationManager looks up).    *)
(* A dispatch that died before it queued the job is excepted.              *)
NothingIsLost ==
    Quiet /\ lost = 0 =>
      \A b \in Batch : \A i \in Content[b] \ done :
        \E k \in Key : k[1] = b /\ Offered(k) /\ i \in batches[k]

(* There are never two jobs for one row, unless the operator retried a     *)
(* batch that had one, or a failed follow-up was reset when it had one     *)
(* again (rememberFollowUpJob(), which must not dispatch what is in        *)
(* flight, also when its own job is delivered twice).                      *)
Executing(k) == {w \in Worker : pc[w] # "idle" /\ KeyOf(w) = k}
OneJobPerKeyUnlessRaced ==
    ~hasty /\ ~raced =>
      \A k \in Key :
        /\ \A j1, j2 \in {j \in Job : j.key = k /\ queue[j] > 0} :
             j1 = j2 /\ queue[j1] = 1
        /\ Queued(k) => Executing(k) = {}
        /\ Cardinality(Executing(k)) <= 1

(* A row that says pending has a job that is queued or about to be: "an    *)
(* in-flight row", as rememberFollowUpJob() takes it.                      *)
PendingHasJob ==
    \A k \in Key : status[k] = "pending" => HasJob(k)

(* The run comes to rest, however often it is retried.                     *)
RunComesToRest == []<>Quiet
=============================================================================
