------------------------- MODULE JobsAndStore_proofs -------------------------
(***************************************************************************)
(* That a batch which calls itself succeeded is done, and that what is not *)
(* done can be retried, for any number of batches, workers, follow-ups,    *)
(* faults and retries.                                                     *)
(*                                                                         *)
(* The argument: wherever a set of ids stands for the rest of a batch (in  *)
(* the run's seeds, in a worker's copy of them, in a job, in a retry), all *)
(* ids of the batch that are not in it have been worked on.  Deferring     *)
(* keeps this, overwriting one rest by another keeps this, and done ids    *)
(* stay done; so a job that has nothing left is the end of its batch.      *)
(*                                                                         *)
(* And that a row has one job: a job is queued, executed, or about to be   *)
(* sent or dispatched, and moves from one of these places to another; a    *)
(* new one is made only for a row that was missing, which had none, or by  *)
(* a retry or a reset, which are the exceptions the history notes.         *)
(***************************************************************************)
EXTENDS JobsAndStore, Sequences, FiniteSetTheorems, TLAPS

(* ids is a rest of the batch b.                                           *)
Rest(b, ids) == ids \subseteq Content[b] /\ Content[b] \ ids \subseteq done

(* The first entries are whole batches; an entry of a follow-up is missing *)
(* or a rest.                                                              *)
SeedsOK(seeds) ==
    \A k \in Key : /\ k[2] = 0 => seeds[k] = Content[k[1]]
                   /\ seeds[k] # {} => Rest(k[1], seeds[k])

InHandler == {"work", "save", "remember", "reset", "send", "finish"}

QueueRests == \A j \in Job : queue[j] > 0 => Rest(j.key[1], j.ids)
RequestRest == request \in Job => Rest(request.key[1], request.ids)
WorkerRest(w) ==
    /\ pc[w] # "idle" => Rest(KeyOf(w)[1], job[w].ids)
    /\ pc[w] \in InHandler => Rest(KeyOf(w)[1], left[w])
    /\ pc[w] = "save" => SeedsOK(copy[w])
WorkerRests == \A w \in Worker : WorkerRest(w)
RestsOK == SeedsOK(batches) /\ QueueRests /\ RequestRest /\ WorkerRests

(* A first row that is missing or pending has its job on the way.          *)
OnItsWay(k) ==
    \/ request \in Job /\ request.key = k
    \/ \E j \in Job : j.key = k /\ queue[j] > 0
    \/ \E w \in Worker : pc[w] \in {"start", "fail"} /\ KeyOf(w) = k
FirstRowsOK ==
    \A b \in Batch :
      /\ status[First(b)] = "none" => b \in waiting \/ lost > 0
      /\ status[First(b)] = "pending" => OnItsWay(First(b)) \/ lost > 0

(* The jobs of a row: queued, executed, about to be sent by the job that   *)
(* they follow up, or about to be dispatched by a retry.                   *)
Queueing(k) == {j \in Job : j.key = k /\ queue[j] > 0}
Sending(k) == {w \in Worker : pc[w] = "send" /\ FollowKey(w) = k}
Requested(k) == request # None /\ request.key = k

(* There is at most one of them, in one of these places.                   *)
OneJob(k) ==
    /\ \A i, j \in Queueing(k) : i = j /\ queue[i] = 1
    /\ \A v, w \in Executing(k) : v = w
    /\ \A v, w \in Sending(k) : v = w
    /\ Queueing(k) # {} => Executing(k) = {} /\ Sending(k) = {} /\ ~Requested(k)
    /\ Executing(k) # {} => Sending(k) = {} /\ ~Requested(k)
    /\ Sending(k) # {} => ~Requested(k)
JobsOK == ~hasty /\ ~raced => \A k \in Key : OneJob(k)

(* A row that is missing has no job, and the row of a batch that waits to  *)
(* be dispatched is missing.                                               *)
RowsOK ==
    /\ \A k \in Key : status[k] = "none" => ~HasJob(k)
    /\ \A b \in waiting : status[First(b)] = "none"

IInv ==
    /\ TypeOK /\ RestsOK /\ SucceededMeansDone /\ FirstRowsOK
    /\ RowsOK /\ JobsOK

-----------------------------------------------------------------------------
(* Keys and jobs.                                                          *)

LEMMA KeyFacts ==
    /\ \A b \in Batch : First(b) \in Key /\ First(b)[1] = b /\ First(b)[2] = 0
    /\ \A k \in Key : k[1] \in Batch /\ k[2] \in 0..MaxHops
    /\ \A k \in Key : k[2] = 0 => k = First(k[1])
    /\ \A k \in Key : k[2] < MaxHops =>
          /\ FollowUp(k) \in Key /\ FollowUp(k)[1] = k[1]
          /\ FollowUp(k)[2] # 0
          /\ \A b \in Batch : FollowUp(k) # First(b)
BY BatchesAssumption DEF Key, First, FollowUp

LEMMA ContentFacts == \A b \in Batch : Content[b] \subseteq Id /\ Content[b] # {}
BY BatchesAssumption

LEMMA JobFacts ==
    /\ \A j \in Job : /\ j.key \in Key /\ j.tried \in 0..Tries
                      /\ j.ids \subseteq Id /\ j.ids \subseteq Content[j.key[1]]
    /\ \A j \in Job : j.tried # Tries =>
          /\ [j EXCEPT !.tried = @ + 1] \in Job
          /\ [j EXCEPT !.tried = @ + 1].key = j.key
          /\ [j EXCEPT !.tried = @ + 1].ids = j.ids
    /\ \A k \in Key, ids \in SUBSET Id : ids \subseteq Content[k[1]] =>
          /\ NewJob(k, ids) \in Job
          /\ NewJob(k, ids).key = k /\ NewJob(k, ids).ids = ids
<1>1. \A j \in Job : j.tried # Tries => j.tried + 1 \in 0..Tries
  BY BatchesAssumption DEF Job
<1>2. 0 \in 0..Tries
  BY BatchesAssumption
<1> QED BY <1>1, <1>2 DEF Job, NewJob

LEMMA NoneIsNoJob == None \notin Job
<1> SUFFICES ASSUME None \in Job PROVE FALSE
  OBVIOUS
<1>1. <<>> \in Key
  BY JobFacts DEF None
<1>2. PICK b \in Batch, n \in 0..MaxHops : <<>> = <<b, n>>
  BY <1>1 DEF Key
<1>3. Len(<<b, n>>) = 2 /\ Len(<<>>) = 0
  OBVIOUS
<1> QED BY <1>2, <1>3

-----------------------------------------------------------------------------
LEMMA InitIInv == Init => IInv
<1> SUFFICES ASSUME Init PROVE IInv
  OBVIOUS
<1> USE DEF Init
<1>1. batches \in [Key -> SUBSET Id] /\ NoCopy \in [Key -> SUBSET Id]
  BY KeyFacts, ContentFacts DEF NoCopy
<1>2. TypeOK
  <2>1. status \in [Key -> Status] /\ pc \in [Worker -> PC]
    BY DEF Status, PC
  <2>2. /\ lost \in Nat /\ faults \in Nat /\ retries \in Nat
        /\ hasty \in BOOLEAN /\ raced \in BOOLEAN
    OBVIOUS
  <2> QED BY <1>1, <2>1, <2>2 DEF TypeOK, WorkerOK
<1>3. RestsOK
  <2>1. SeedsOK(batches)
    BY KeyFacts DEF SeedsOK, Rest
  <2>2. request \notin Job
    BY NoneIsNoJob
  <2> QED
    BY <2>1, <2>2 DEF RestsOK, QueueRests, RequestRest, WorkerRests, WorkerRest,
              InHandler
<1>4. SucceededMeansDone /\ FirstRowsOK
  BY KeyFacts DEF SucceededMeansDone, FirstRowsOK
<1>5. RowsOK
  <2>1. \A k \in Key : ~HasJob(k)
    BY NoneIsNoJob DEF HasJob, Queued, Executed, Sent
  <2> QED BY <2>1, KeyFacts DEF RowsOK
<1>6. JobsOK
  <2>1. ASSUME NEW k \in Key
        PROVE  /\ Queueing(k) = {} /\ Executing(k) = {} /\ Sending(k) = {}
               /\ ~Requested(k)
    BY DEF Queueing, Executing, Sending, Requested
  <2> QED BY <2>1 DEF JobsOK, OneJob
<1> QED BY <1>2, <1>3, <1>4, <1>5, <1>6 DEF IInv

-----------------------------------------------------------------------------
(* What the steps of handlers and of the queue do to the types.            *)
LEMMA EnqueueFacts ==
    ASSUME TypeOK, NEW j \in Job, Enqueue(j)
    PROVE  /\ queue' \in [Job -> Nat]
           /\ \A i \in Job : queue'[i] > 0 <=> i = j \/ queue[i] > 0
BY DEF TypeOK, Enqueue

LEMMA GotoFacts ==
    ASSUME TypeOK, NEW w \in Worker, NEW to \in PC, Goto(w, to)
    PROVE  /\ pc' \in [Worker -> PC] /\ pc'[w] = to
           /\ \A v \in Worker \ {w} : pc'[v] = pc[v]
BY DEF TypeOK, Goto

LEMMA MarkFacts ==
    ASSUME TypeOK, NEW k \in Key, NEW s \in Status, Mark(k, s)
    PROVE  /\ status' \in [Key -> Status] /\ status'[k] = s
           /\ \A i \in Key \ {k} : status'[i] = status[i]
BY DEF TypeOK, Mark

LEMMA IdleFacts ==
    ASSUME TypeOK, NEW w \in Worker, BecomeIdle(w)
    PROVE  /\ pc' \in [Worker -> PC] /\ pc'[w] = "idle" /\ left'[w] = {}
           /\ job' \in [Worker -> Job \cup {None}]
           /\ left' \in [Worker -> SUBSET Id]
           /\ copy' \in [Worker -> [Key -> SUBSET Id]]
           /\ \A v \in Worker \ {w} :
                /\ pc'[v] = pc[v] /\ job'[v] = job[v]
                /\ left'[v] = left[v] /\ copy'[v] = copy[v]
           /\ \A v \in Worker : WorkerOK(v)'
<1>1. NoCopy \in [Key -> SUBSET Id] /\ "idle" \in PC
  BY DEF NoCopy, PC
<1>2. /\ pc' \in [Worker -> PC] /\ pc'[w] = "idle" /\ left'[w] = {}
      /\ job' \in [Worker -> Job \cup {None}]
      /\ left' \in [Worker -> SUBSET Id]
      /\ copy' \in [Worker -> [Key -> SUBSET Id]]
      /\ \A v \in Worker \ {w} :
           /\ pc'[v] = pc[v] /\ job'[v] = job[v]
           /\ left'[v] = left[v] /\ copy'[v] = copy[v]
  BY <1>1 DEF TypeOK, BecomeIdle, Goto
<1>3. \A v \in Worker : WorkerOK(v)'
  BY <1>2 DEF TypeOK, WorkerOK, KeyOf
<1> QED BY <1>2, <1>3

(* A worker that is not idle has a job and a key.                          *)
LEMMA BusyFacts ==
    ASSUME TypeOK, NEW w \in Worker, pc[w] # "idle"
    PROVE  /\ job[w] \in Job /\ KeyOf(w) \in Key
           /\ KeyOf(w)[1] \in Batch /\ KeyOf(w)[2] \in 0..MaxHops
           /\ left[w] \subseteq job[w].ids
           /\ job[w].ids \subseteq Content[KeyOf(w)[1]]
           /\ left[w] \subseteq Id
           /\ pc[w] \in {"save", "remember", "reset", "send"} =>
                /\ left[w] # {} /\ KeyOf(w)[2] < MaxHops
                /\ FollowKey(w) \in Key /\ FollowKey(w)[1] = KeyOf(w)[1]
                /\ FollowKey(w)[2] # 0
                /\ \A b \in Batch : FollowKey(w) # First(b)
BY JobFacts, KeyFacts DEF TypeOK, WorkerOK, KeyOf, FollowKey

LEMMA TypeStep ==
    ASSUME TypeOK, SeedsOK(batches), [Next]_vars
    PROVE  TypeOK'
<1> USE DEF TypeOK
<1>1. ASSUME NEW b \in Batch, Dispatch(b)
      PROVE  TypeOK'
  <2>1. /\ First(b) \in Key /\ NewJob(First(b), Content[b]) \in Job
        /\ "pending" \in Status
    BY JobFacts, KeyFacts, ContentFacts DEF Status
  <2>2. status' \in [Key -> Status] /\ queue' \in [Job -> Nat]
    BY <1>1, <2>1, MarkFacts, EnqueueFacts DEF Dispatch
  <2> QED BY <1>1, <2>2 DEF Dispatch, WorkerOK, KeyOf, workVars, ghosts, bounds
<1>2. ASSUME DieDispatching
      PROVE  TypeOK'
  <2>1. status' \in [Key -> Status]
    BY <1>2, KeyFacts DEF DieDispatching, Mark, Status
  <2> QED BY <1>2, <2>1 DEF DieDispatching, WorkerOK, KeyOf, workVars
<1>3. ASSUME NEW w \in Worker, NEW j \in Job, Pop(w, j)
      PROVE  TypeOK'
  <2>1. queue' \in [Job -> Nat]
    BY <1>3 DEF Pop
  <2>2. PICK i \in Job, to \in {"start", "fail"} :
          job' = [job EXCEPT ![w] = i] /\ pc' = [pc EXCEPT ![w] = to]
    BY <1>3, JobFacts DEF Pop, Goto
  <2>3. /\ job' \in [Worker -> Job \cup {None}] /\ pc' \in [Worker -> PC]
        /\ \A v \in Worker : WorkerOK(v)'
    BY <1>3, <2>2 DEF Pop, WorkerOK, KeyOf, PC
  <2> QED BY <1>3, <2>1, <2>3 DEF Pop, ghosts, bounds
<1>4. ASSUME NEW w \in Worker, FailJob(w)
      PROVE  TypeOK'
  <2>1. pc[w] # "idle" /\ job[w] \in Job /\ KeyOf(w) \in Key
    BY <1>4, BusyFacts DEF FailJob
  <2>2. status' \in [Key -> Status]
    BY <1>4, <2>1, MarkFacts DEF FailJob, Status
  <2> QED BY <1>4, <2>2, IdleFacts DEF FailJob, ghosts, bounds
<1>5. ASSUME NEW w \in Worker, Ack(w)
      PROVE  TypeOK'
  BY <1>5, IdleFacts DEF Ack, ghosts, bounds
<1>6. ASSUME NEW w \in Worker, Timeout(w)
      PROVE  TypeOK'
  <2>1. pc' \in [Worker -> PC] /\ \A v \in Worker : WorkerOK(v)'
    BY <1>6, GotoFacts DEF Timeout, WorkerOK, KeyOf, PC
  <2> QED BY <1>6, <2>1 DEF Timeout, ghosts
<1>7. ASSUME NEW w \in Worker, Kill(w)
      PROVE  TypeOK'
  <2>1. job[w] \in Job
    BY <1>7, BusyFacts DEF Kill
  <2>2. queue' \in [Job -> Nat]
    BY <1>7, <2>1, EnqueueFacts DEF Kill
  <2> QED BY <1>7, <2>2, IdleFacts DEF Kill, ghosts
<1>8. ASSUME NEW w \in Worker, Start(w)
      PROVE  TypeOK'
  <2>1. pc[w] # "idle" /\ job[w] \in Job /\ KeyOf(w) \in Key
    BY <1>8, BusyFacts DEF Start
  <2>2. status' \in [Key -> Status]
    BY <1>8, <2>1, MarkFacts DEF Start, Status
  <2>3. left' \in [Worker -> SUBSET Id] /\ pc' \in [Worker -> PC]
    BY <1>8, <2>1, JobFacts DEF Start, Goto, PC
  <2>4. \A v \in Worker : WorkerOK(v)'
    BY <1>8, <2>1 DEF Start, Goto, WorkerOK, KeyOf
  <2> QED BY <1>8, <2>2, <2>3, <2>4 DEF Start, ghosts, bounds
<1>9. ASSUME NEW w \in Worker, Work(w)
      PROVE  TypeOK'
  <2>1. PICK i \in left[w] : /\ done' = done \cup {i}
                            /\ left' = [left EXCEPT ![w] = @ \ {i}]
    BY <1>9 DEF Work
  <2>2. /\ done' \subseteq Id /\ left' \in [Worker -> SUBSET Id]
        /\ \A v \in Worker : WorkerOK(v)'
    BY <1>9, <2>1 DEF Work, WorkerOK, KeyOf
  <2> QED BY <1>9, <2>2 DEF Work, bounds
<1>10. ASSUME NEW w \in Worker, Finish(w)
      PROVE  TypeOK'
  <2>1. pc[w] # "idle" /\ job[w] \in Job /\ KeyOf(w) \in Key
    BY <1>10, BusyFacts DEF Finish
  <2>2. status' \in [Key -> Status]
    BY <1>10, <2>1, MarkFacts DEF Finish, Outcome, Status
  <2>3. left' \in [Worker -> SUBSET Id] /\ pc' \in [Worker -> PC]
    BY <1>10 DEF Finish, Goto, PC
  <2>4. \A v \in Worker : WorkerOK(v)'
    BY <1>10, <2>1 DEF Finish, Goto, WorkerOK, KeyOf
  <2> QED BY <1>10, <2>2, <2>3, <2>4 DEF Finish, ghosts, bounds
<1>11. ASSUME NEW w \in Worker, Throw(w)
      PROVE  TypeOK'
  <2>1. pc[w] # "idle" /\ job[w] \in Job /\ KeyOf(w) \in Key
    BY <1>11, BusyFacts DEF Throw
  <2>2. status' \in [Key -> Status] /\ faults' \in Nat
    BY <1>11, <2>1, MarkFacts DEF Throw, Status
  <2>3. CASE Enqueue(job[w]) /\ BecomeIdle(w)
    BY <1>11, <2>1, <2>2, <2>3, EnqueueFacts, IdleFacts DEF Throw, ghosts
  <2>4. CASE Goto(w, "fail") /\ UNCHANGED <<queue, job, left, copy>>
    <3>1. pc' \in [Worker -> PC] /\ \A v \in Worker : WorkerOK(v)'
      BY <2>1, <2>4, GotoFacts DEF WorkerOK, KeyOf, PC
    <3> QED BY <1>11, <2>2, <2>4, <3>1 DEF Throw, ghosts
  <2> QED BY <1>11, <2>3, <2>4 DEF Throw
<1>12. ASSUME NEW w \in Worker, LoadSeeds(w)
      PROVE  TypeOK'
  <2>1. pc[w] # "idle" /\ job[w] \in Job /\ KeyOf(w) \in Key
    BY <1>12, BusyFacts DEF LoadSeeds
  <2>2. /\ pc' \in [Worker -> PC] /\ copy' \in [Worker -> [Key -> SUBSET Id]]
        /\ \A v \in Worker : WorkerOK(v)'
    BY <1>12, <2>1 DEF LoadSeeds, Goto, WorkerOK, KeyOf, Defers, PC
  <2> QED BY <1>12, <2>2 DEF LoadSeeds, ghosts, bounds
<1>13. ASSUME NEW w \in Worker, SaveSeeds(w)
      PROVE  TypeOK'
  <2>1. NoCopy \in [Key -> SUBSET Id] /\ left[w] \subseteq Id
    BY DEF NoCopy
  <2>2. /\ pc' \in [Worker -> PC] /\ copy' \in [Worker -> [Key -> SUBSET Id]]
        /\ \A v \in Worker : WorkerOK(v)'
    BY <1>13, <2>1 DEF SaveSeeds, Goto, WorkerOK, KeyOf, PC
  <2>3. batches' \in [Key -> SUBSET Id]
    BY <1>13, <2>1 DEF SaveSeeds
  <2> QED BY <1>13, <2>2, <2>3 DEF SaveSeeds, ghosts, bounds
<1>14. ASSUME NEW w \in Worker, Remember(w)
      PROVE  TypeOK'
  <2>1. FollowKey(w) \in Key /\ pc[w] = "remember"
    BY <1>14, BusyFacts DEF Remember
  <2>2. status' \in [Key -> Status]
    BY <1>14, <2>1, MarkFacts DEF Remember, Status
  <2>3. PICK to \in {"send", "reset", "finish"} : pc' = [pc EXCEPT ![w] = to]
    BY <1>14 DEF Remember, Goto
  <2>4. pc' \in [Worker -> PC] /\ \A v \in Worker : WorkerOK(v)'
    BY <1>14, <2>1, <2>3 DEF Remember, WorkerOK, KeyOf, PC
  <2> QED BY <1>14, <2>2, <2>4 DEF Remember, ghosts, bounds
<1>15. ASSUME NEW w \in Worker, Reset(w)
      PROVE  TypeOK'
  <2>1. FollowKey(w) \in Key /\ pc[w] = "reset"
    BY <1>15, BusyFacts DEF Reset
  <2>2. status' \in [Key -> Status]
    BY <1>15, <2>1, MarkFacts DEF Reset, Status
  <2>3. pc' \in [Worker -> PC] /\ \A v \in Worker : WorkerOK(v)'
    BY <1>15, <2>1 DEF Reset, Goto, WorkerOK, KeyOf, PC
  <2>4. raced' \in BOOLEAN
    BY <1>15 DEF Reset
  <2> QED BY <1>15, <2>2, <2>3, <2>4 DEF Reset, bounds
<1>16. ASSUME NEW w \in Worker, Send(w)
      PROVE  TypeOK'
  <2>1. /\ pc[w] = "send" /\ FollowKey(w) \in Key
        /\ left[w] \subseteq Id /\ left[w] \subseteq Content[FollowKey(w)[1]]
    BY <1>16, BusyFacts DEF Send
  <2>2. NewJob(FollowKey(w), left[w]) \in Job
    BY <2>1, JobFacts
  <2>3. queue' \in [Job -> Nat]
    BY <1>16, <2>2, EnqueueFacts DEF Send
  <2>4. pc' \in [Worker -> PC] /\ \A v \in Worker : WorkerOK(v)'
    BY <1>16, <2>1 DEF Send, Goto, WorkerOK, KeyOf, PC
  <2> QED BY <1>16, <2>3, <2>4 DEF Send, ghosts, bounds
<1>17. ASSUME NEW k \in Key, RetryBatch(k)
      PROVE  TypeOK'
  <2>1. status' \in [Key -> Status]
    BY <1>17, MarkFacts DEF RetryBatch, Status
  <2>2. request' \in Job \cup {None}
    BY <1>17, JobFacts DEF RetryBatch, SeedsOK, Rest
  <2>3. hasty' \in BOOLEAN
    BY <1>17 DEF RetryBatch
  <2> QED BY <1>17, <2>1, <2>2, <2>3 DEF RetryBatch, WorkerOK, KeyOf, workVars
<1>18. ASSUME DispatchRetry
      PROVE  TypeOK'
  <2>1. queue' \in [Job -> Nat]
    BY <1>18, EnqueueFacts DEF DispatchRetry
  <2> QED BY <1>18, <2>1 DEF DispatchRetry, WorkerOK, KeyOf, workVars, ghosts, bounds
<1>19. ASSUME LoseRetry
      PROVE  TypeOK'
  BY <1>19 DEF LoseRetry, WorkerOK, KeyOf, workVars
<1>20. CASE UNCHANGED vars
  BY <1>20 DEF vars, workVars, ghosts, bounds, WorkerOK, KeyOf
<1> QED
  BY <1>1, <1>2, <1>3, <1>4, <1>5, <1>6, <1>7, <1>8, <1>9, <1>10, <1>11,
     <1>12, <1>13, <1>14, <1>15, <1>16, <1>17, <1>18, <1>19, <1>20
     DEF Next, WorkerStep

-----------------------------------------------------------------------------
(* What has been worked on stays so, and a rest stays a rest.              *)
LEMMA DoneGrows == [Next]_vars => done \subseteq done'
<1>1. ASSUME NEW w \in Worker, WorkerStep(w) \/ Throw(w) \/ Timeout(w) \/ Kill(w)
      PROVE  done \subseteq done'
  BY <1>1 DEF WorkerStep, Pop, Start, Work, LoadSeeds, SaveSeeds, Remember,
     Reset, Send, Finish, FailJob, Ack, Throw, Timeout, Kill, ghosts
<1>2. ASSUME \/ \E b \in Batch : Dispatch(b)
             \/ \E k \in Key : RetryBatch(k)
             \/ DispatchRetry \/ LoseRetry \/ DieDispatching
             \/ UNCHANGED vars
      PROVE  done \subseteq done'
  BY <1>2 DEF Dispatch, RetryBatch, DispatchRetry, LoseRetry, DieDispatching,
     ghosts, vars
<1> QED BY <1>1, <1>2 DEF Next

LEMMA RestGrows ==
    ASSUME done \subseteq done'
    PROVE  \A b, ids : Rest(b, ids) => Rest(b, ids)'
BY DEF Rest

LEMMA SeedsGrow ==
    ASSUME done \subseteq done'
    PROVE  \A seeds : SeedsOK(seeds) => SeedsOK(seeds)'
BY RestGrows DEF SeedsOK

LEMMA WorkerKept ==
    ASSUME done \subseteq done', NEW w \in Worker, WorkerRest(w),
           pc'[w] = pc[w], job'[w] = job[w], left'[w] = left[w],
           copy'[w] = copy[w]
    PROVE  WorkerRest(w)'
<1>1. SeedsOK(copy[w]) => SeedsOK(copy[w])'
  BY SeedsGrow DEF SeedsOK, Rest
<1> QED BY <1>1, RestGrows DEF WorkerRest, KeyOf

(* The seeds stay in order: a save writes a copy that is in order, with one*)
(* more rest.                                                              *)
LEMMA SeedsStep ==
    ASSUME TypeOK, RestsOK, [Next]_vars
    PROVE  SeedsOK(batches)'
<1>1. done \subseteq done'
  BY DoneGrows
<1>2. ASSUME NEW w \in Worker, SaveSeeds(w)
      PROVE  SeedsOK(batches)'
  <2>1. /\ FollowKey(w) \in Key /\ FollowKey(w)[1] = KeyOf(w)[1]
        /\ FollowKey(w)[2] # 0 /\ pc[w] = "save"
    BY <1>2, BusyFacts DEF SaveSeeds
  <2>2. Rest(KeyOf(w)[1], left[w]) /\ SeedsOK(copy[w])
    BY <2>1 DEF RestsOK, WorkerRests, WorkerRest, InHandler
  <2>3. CASE batches' = batches
    BY <1>1, <2>3 DEF RestsOK, SeedsOK, Rest
  <2>4. CASE batches' = [copy[w] EXCEPT ![FollowKey(w)] = left[w]]
    <3>1. copy[w] \in [Key -> SUBSET Id]
      BY DEF TypeOK
    <3>2. ASSUME NEW k \in Key
          PROVE  /\ k[2] = 0 => batches'[k] = Content[k[1]]
                 /\ batches'[k] # {} => Rest(k[1], batches'[k])
      BY <2>1, <2>2, <2>4, <3>1 DEF SeedsOK
    <3> QED BY <1>1, <3>2 DEF SeedsOK, Rest
  <2> QED BY <1>2, <2>3, <2>4 DEF SaveSeeds
<1>3. ASSUME UNCHANGED batches
      PROVE  SeedsOK(batches)'
  BY <1>1, <1>3 DEF RestsOK, SeedsOK, Rest
<1>4. UNCHANGED batches \/ \E w \in Worker : SaveSeeds(w)
  <2>1. ASSUME NEW w \in Worker,
               WorkerStep(w) \/ Throw(w) \/ Timeout(w) \/ Kill(w)
        PROVE  UNCHANGED batches \/ SaveSeeds(w)
    BY <2>1 DEF WorkerStep, Pop, Start, Work, LoadSeeds, Remember, Reset,
       Send, Finish, FailJob, Ack, Throw, Timeout, Kill
  <2> QED BY <2>1 DEF Next, Dispatch, RetryBatch, DispatchRetry, LoseRetry,
             DieDispatching, vars
<1> QED BY <1>2, <1>3, <1>4

(* A job that is queued carries a rest.                                    *)
LEMMA QueueStep ==
    ASSUME TypeOK, RestsOK, [Next]_vars
    PROVE  QueueRests'
<1>1. done \subseteq done'
  BY DoneGrows
<1>2. ASSUME NEW j \in Job, Enqueue(j), Rest(j.key[1], j.ids)
      PROVE  QueueRests'
  <2>1. \A i \in Job : queue'[i] > 0 => Rest(i.key[1], i.ids)
    BY <1>2, EnqueueFacts DEF RestsOK, QueueRests
  <2> QED BY <1>1, <2>1 DEF QueueRests, Rest
<1>3. ASSUME \A i \in Job : queue'[i] > 0 => queue[i] > 0
      PROVE  QueueRests'
  BY <1>1, <1>3 DEF RestsOK, QueueRests, Rest
<1>4. ASSUME NEW b \in Batch, Dispatch(b)
      PROVE  QueueRests'
  <2>1. /\ NewJob(First(b), Content[b]) \in Job
        /\ NewJob(First(b), Content[b]).key[1] = b
        /\ NewJob(First(b), Content[b]).ids = Content[b]
    BY JobFacts, KeyFacts, ContentFacts
  <2> QED BY <1>2, <1>4, <2>1 DEF Dispatch, Rest
<1>5. ASSUME NEW w \in Worker, NEW j \in Job, Pop(w, j)
      PROVE  QueueRests'
  BY <1>3, <1>5 DEF Pop, TypeOK
<1>6. ASSUME NEW w \in Worker, pc[w] # "idle", Enqueue(job[w])
      PROVE  QueueRests'
  BY <1>2, <1>6, BusyFacts DEF RestsOK, WorkerRests, WorkerRest, KeyOf
<1>7. ASSUME NEW w \in Worker, Send(w)
      PROVE  QueueRests'
  <2>1. /\ pc[w] = "send" /\ FollowKey(w) \in Key
        /\ FollowKey(w)[1] = KeyOf(w)[1]
        /\ left[w] \subseteq Id /\ left[w] \subseteq Content[FollowKey(w)[1]]
    BY <1>7, BusyFacts DEF Send
  <2>2. Rest(KeyOf(w)[1], left[w])
    BY <2>1 DEF RestsOK, WorkerRests, WorkerRest, InHandler
  <2> QED BY <1>2, <1>7, <2>1, <2>2, JobFacts DEF Send
<1>8. CASE DispatchRetry
  BY <1>2, <1>8 DEF DispatchRetry, RestsOK, RequestRest, TypeOK
<1>9. CASE UNCHANGED queue
  BY <1>3, <1>9
<1>10. \/ UNCHANGED queue
       \/ \E b \in Batch : Dispatch(b)
       \/ \E w \in Worker :
            \/ \E j \in Job : Pop(w, j)
            \/ Send(w)
            \/ pc[w] # "idle" /\ Enqueue(job[w])
       \/ DispatchRetry
  <2>1. ASSUME NEW w \in Worker,
               WorkerStep(w) \/ Throw(w) \/ Timeout(w) \/ Kill(w)
        PROVE  \/ UNCHANGED queue
               \/ \E j \in Job : Pop(w, j)
               \/ Send(w)
               \/ pc[w] # "idle" /\ Enqueue(job[w])
    BY <2>1 DEF WorkerStep, Start, Work, LoadSeeds, SaveSeeds, Remember,
       Reset, Finish, FailJob, Ack, Throw, Timeout, Kill
  <2> QED BY <2>1 DEF Next, RetryBatch, LoseRetry, DieDispatching, vars
<1> QED BY <1>4, <1>5, <1>6, <1>7, <1>8, <1>9, <1>10

(* So does a retry: it takes the ids of the seeds.                         *)
LEMMA RequestStep ==
    ASSUME TypeOK, RestsOK, [Next]_vars
    PROVE  RequestRest'
<1>1. done \subseteq done'
  BY DoneGrows
<1>2. CASE UNCHANGED request \/ request' = None
  BY <1>1, <1>2, NoneIsNoJob DEF RestsOK, RequestRest, Rest
<1>3. ASSUME NEW k \in Key, RetryBatch(k)
      PROVE  RequestRest'
  <2>1. CASE batches[k] = {}
    BY <1>3, <2>1, NoneIsNoJob DEF RetryBatch, RequestRest
  <2>2. CASE batches[k] # {}
    <3>1. Rest(k[1], batches[k]) /\ batches[k] \subseteq Id
      BY <2>2 DEF RestsOK, SeedsOK, TypeOK
    <3>2. request'.key = k /\ request'.ids = batches[k]
      BY <1>3, <2>2, <3>1, JobFacts DEF RetryBatch, Rest
    <3> QED BY <1>1, <3>1, <3>2 DEF RequestRest, Rest
  <2> QED BY <2>1, <2>2
<1>4. UNCHANGED request \/ request' = None \/ \E k \in Key : RetryBatch(k)
  <2>1. ASSUME NEW w \in Worker,
               WorkerStep(w) \/ Throw(w) \/ Timeout(w) \/ Kill(w)
        PROVE  UNCHANGED request
    BY <2>1 DEF WorkerStep, Pop, Start, Work, LoadSeeds, SaveSeeds, Remember,
       Reset, Send, Finish, FailJob, Ack, Throw, Timeout, Kill
  <2> QED BY <2>1 DEF Next, Dispatch, DispatchRetry, LoseRetry,
             DieDispatching, vars
<1> QED BY <1>2, <1>3, <1>4

(* And so do the workers.                                                  *)
LEMMA WorkersStep ==
    ASSUME TypeOK, RestsOK, [Next]_vars
    PROVE  WorkerRests'
<1>1. done \subseteq done'
  BY DoneGrows
<1>2. ASSUME NEW w \in Worker,
             \A v \in Worker \ {w} : /\ pc'[v] = pc[v] /\ job'[v] = job[v]
                                    /\ left'[v] = left[v]
                                    /\ copy'[v] = copy[v],
             WorkerRest(w)'
      PROVE  WorkerRests'
  BY <1>1, <1>2, WorkerKept DEF RestsOK, WorkerRests
<1>3. CASE UNCHANGED workVars
  BY <1>1, <1>3, WorkerKept DEF RestsOK, WorkerRests, workVars
<1>4. ASSUME NEW w \in Worker, BecomeIdle(w)
      PROVE  WorkerRests'
  BY <1>2, <1>4, IdleFacts DEF WorkerRest, InHandler
<1>5. ASSUME NEW w \in Worker, NEW to \in PC, Goto(w, to), pc[w] # "idle",
             UNCHANGED <<job, left>>,
             copy' = copy \/ copy' = [copy EXCEPT ![w] = NoCopy],
             to # "save", to \in InHandler => pc[w] \in InHandler
      PROVE  WorkerRests'
  <2>1. /\ Rest(KeyOf(w)[1], job[w].ids)
        /\ pc[w] \in InHandler => Rest(KeyOf(w)[1], left[w])
    BY <1>5 DEF RestsOK, WorkerRests, WorkerRest
  <2>2. WorkerRest(w)'
    BY <1>1, <1>5, <2>1, GotoFacts DEF WorkerRest, KeyOf, Rest
  <2> QED BY <1>2, <1>5, <2>2, GotoFacts DEF TypeOK
<1>6. ASSUME NEW w \in Worker, NEW j \in Job, Pop(w, j)
      PROVE  WorkerRests'
  <2>1. Rest(j.key[1], j.ids)
    BY <1>6 DEF Pop, RestsOK, QueueRests
  <2>2. PICK i \in Job, to \in {"start", "fail"} :
          /\ i.key = j.key /\ i.ids = j.ids
          /\ job' = [job EXCEPT ![w] = i] /\ pc' = [pc EXCEPT ![w] = to]
    BY <1>6, JobFacts DEF Pop, Goto
  <2>3. WorkerRest(w)'
    BY <1>1, <2>1, <2>2 DEF WorkerRest, KeyOf, Rest, InHandler, TypeOK
  <2> QED BY <1>2, <1>6, <2>2, <2>3 DEF Pop, TypeOK
<1>7. ASSUME NEW w \in Worker, Start(w)
      PROVE  WorkerRests'
  <2>1. /\ pc'[w] = "work" /\ left'[w] = job[w].ids /\ job' = job
        /\ \A v \in Worker \ {w} : pc'[v] = pc[v] /\ left'[v] = left[v]
        /\ copy' = copy
    BY <1>7 DEF Start, Goto, TypeOK
  <2>2. Rest(KeyOf(w)[1], job[w].ids)
    BY <1>7 DEF Start, RestsOK, WorkerRests, WorkerRest
  <2>3. WorkerRest(w)'
    BY <1>1, <2>1, <2>2 DEF WorkerRest, KeyOf, Rest
  <2> QED BY <1>2, <2>1, <2>3
<1>8. ASSUME NEW w \in Worker, Work(w)
      PROVE  WorkerRests'
  <2>1. PICK i \in left[w] : /\ done' = done \cup {i}
                            /\ left' = [left EXCEPT ![w] = @ \ {i}]
    BY <1>8 DEF Work
  <2>2. Rest(KeyOf(w)[1], job[w].ids) /\ Rest(KeyOf(w)[1], left[w])
    BY <1>8 DEF Work, RestsOK, WorkerRests, WorkerRest, InHandler
  <2>3. WorkerRest(w)'
    BY <1>8, <2>1, <2>2 DEF Work, WorkerRest, KeyOf, Rest, TypeOK
  <2> QED BY <1>2, <1>8, <2>1, <2>3 DEF Work, TypeOK
<1>9. ASSUME NEW w \in Worker, LoadSeeds(w)
      PROVE  WorkerRests'
  <2>1. /\ pc'[w] = "save" /\ copy'[w] = batches /\ job' = job /\ left' = left
        /\ \A v \in Worker \ {w} : pc'[v] = pc[v] /\ copy'[v] = copy[v]
    BY <1>9 DEF LoadSeeds, Goto, TypeOK
  <2>2. Rest(KeyOf(w)[1], job[w].ids) /\ Rest(KeyOf(w)[1], left[w])
    BY <1>9 DEF LoadSeeds, RestsOK, WorkerRests, WorkerRest, InHandler
  <2>3. SeedsOK(copy[w])'
    BY <1>1, <2>1, SeedsGrow DEF RestsOK, SeedsOK, Rest
  <2>4. WorkerRest(w)'
    BY <1>1, <2>1, <2>2, <2>3 DEF WorkerRest, KeyOf, Rest
  <2> QED BY <1>2, <2>1, <2>4
<1>10. ASSUME NEW w \in Worker, Finish(w)
       PROVE  WorkerRests'
  <2>1. /\ pc'[w] = "ack" /\ job' = job /\ copy' = copy
        /\ \A v \in Worker \ {w} : pc'[v] = pc[v] /\ left'[v] = left[v]
    BY <1>10 DEF Finish, Goto, TypeOK
  <2>2. Rest(KeyOf(w)[1], job[w].ids)
    BY <1>10 DEF Finish, RestsOK, WorkerRests, WorkerRest
  <2>3. WorkerRest(w)'
    BY <1>1, <2>1, <2>2 DEF WorkerRest, KeyOf, Rest, InHandler
  <2> QED BY <1>2, <2>1, <2>3
<1>11. ASSUME NEW w \in Worker,
              \/ SaveSeeds(w) \/ Remember(w) \/ Reset(w) \/ Send(w)
              \/ Timeout(w) \/ Throw(w) \/ FailJob(w) \/ Ack(w) \/ Kill(w)
       PROVE  WorkerRests'
  <2>1. \/ BecomeIdle(w)
        \/ \E to \in PC :
              /\ Goto(w, to) /\ pc[w] # "idle" /\ UNCHANGED <<job, left>>
              /\ copy' = copy \/ copy' = [copy EXCEPT ![w] = NoCopy]
              /\ to # "save" /\ (to \in InHandler => pc[w] \in InHandler)
    BY <1>11 DEF SaveSeeds, Remember, Reset, Send, Timeout, Throw, FailJob,
       Ack, Kill, PC, InHandler
  <2> QED BY <1>4, <1>5, <2>1
<1>12. CASE \/ \E b \in Batch : Dispatch(b)
            \/ \E k \in Key : RetryBatch(k)
            \/ DispatchRetry \/ LoseRetry \/ DieDispatching
            \/ UNCHANGED vars
  BY <1>3, <1>12 DEF Dispatch, RetryBatch, DispatchRetry, LoseRetry,
     DieDispatching, vars
<1> QED
  BY <1>6, <1>7, <1>8, <1>9, <1>10, <1>11, <1>12 DEF Next, WorkerStep

LEMMA RestsStep ==
    ASSUME TypeOK, RestsOK, [Next]_vars
    PROVE  RestsOK'
BY SeedsStep, QueueStep, RequestStep, WorkersStep DEF RestsOK

(* Only a job without a rest calls itself succeeded.                       *)
LEMMA SucceededStep ==
    ASSUME TypeOK, RestsOK, SucceededMeansDone, [Next]_vars
    PROVE  SucceededMeansDone'
<1>1. done \subseteq done'
  BY DoneGrows
<1>2. ASSUME \A k \in Key : status'[k] = "succeeded" =>
                status[k] = "succeeded"
      PROVE  SucceededMeansDone'
  BY <1>1, <1>2 DEF SucceededMeansDone
<1>3. ASSUME NEW k \in Key, NEW s \in Status \ {"succeeded"}, Mark(k, s)
      PROVE  SucceededMeansDone'
  BY <1>2, <1>3, MarkFacts
<1>4. ASSUME NEW w \in Worker, Finish(w)
      PROVE  SucceededMeansDone'
  <2>1. /\ KeyOf(w) \in Key /\ Rest(KeyOf(w)[1], left[w])
    BY <1>4, BusyFacts DEF Finish, RestsOK, WorkerRests, WorkerRest, InHandler
  <2>2. CASE left[w] = {}
    <3>1. Content[KeyOf(w)[1]] \subseteq done
      BY <2>1, <2>2 DEF Rest
    <3>2. \A k \in Key : k # KeyOf(w) => status'[k] = status[k]
      BY <1>4, <2>1 DEF Finish, Mark, TypeOK
    <3> QED BY <1>1, <3>1, <3>2 DEF SucceededMeansDone
  <2>3. CASE left[w] # {}
    BY <1>3, <1>4, <2>1, <2>3 DEF Finish, Outcome, Status
  <2> QED BY <2>2, <2>3
<1>5. ASSUME NEW w \in Worker, WorkerStep(w) \/ Throw(w) \/ Timeout(w) \/ Kill(w)
      PROVE  SucceededMeansDone'
  <2>1. \/ Finish(w)
        \/ UNCHANGED status
        \/ /\ pc[w] # "idle"
           /\ \E s \in Status \ {"succeeded"} : Mark(KeyOf(w), s)
        \/ /\ pc[w] \in {"remember", "reset"}
           /\ Mark(FollowKey(w), "pending")
    BY <1>5 DEF WorkerStep, Pop, Start, Work, LoadSeeds, SaveSeeds, Remember,
       Reset, Send, FailJob, Ack, Throw, Timeout, Kill, Status
  <2>2. "pending" \in Status \ {"succeeded"}
    BY DEF Status
  <2> QED BY <1>2, <1>3, <1>4, <2>1, <2>2, BusyFacts
<1>6. ASSUME NEW b \in Batch, Mark(First(b), "pending")
      PROVE  SucceededMeansDone'
  BY <1>3, <1>6, KeyFacts DEF Status
<1>7. ASSUME NEW k \in Key, RetryBatch(k)
      PROVE  SucceededMeansDone'
  BY <1>3, <1>7 DEF RetryBatch, Status
<1>8. CASE UNCHANGED status
  BY <1>2, <1>8
<1>9. CASE \E b \in Batch : Dispatch(b)
  BY <1>6, <1>9 DEF Dispatch
<1>10. CASE DieDispatching
  BY <1>6, <1>8, <1>10 DEF DieDispatching, TypeOK
<1>11. CASE DispatchRetry \/ LoseRetry \/ UNCHANGED vars
  BY <1>8, <1>11 DEF DispatchRetry, LoseRetry, vars
<1> QED
  BY <1>5, <1>7, <1>9, <1>10, <1>11 DEF Next

(* What is on its way stays on its way until its row is marked, or dies.   *)
LEMMA OnItsWayKept ==
    ASSUME TypeOK, [Next]_vars, NEW k \in Key, OnItsWay(k),
           status'[k] = "pending"
    PROVE  OnItsWay(k)' \/ lost' > 0
<1>1. CASE request \in Job /\ request.key = k
  <2>1. UNCHANGED request \/ DispatchRetry \/ LoseRetry
    <3>1. ASSUME NEW w \in Worker,
                 WorkerStep(w) \/ Throw(w) \/ Timeout(w) \/ Kill(w)
          PROVE  UNCHANGED request
      BY <3>1 DEF WorkerStep, Pop, Start, Work, LoadSeeds, SaveSeeds,
         Remember, Reset, Send, Finish, FailJob, Ack, Throw, Timeout, Kill
    <3>2. ASSUME NEW i \in Key, RetryBatch(i)
          PROVE  FALSE
      BY <1>1, <3>2, NoneIsNoJob DEF RetryBatch
    <3> QED BY <3>1, <3>2 DEF Next, Dispatch, DieDispatching, vars
  <2>2. CASE UNCHANGED request
    BY <1>1, <2>2 DEF OnItsWay
  <2>3. CASE DispatchRetry
    BY <1>1, <2>3, EnqueueFacts DEF DispatchRetry, OnItsWay
  <2>4. CASE LoseRetry
    BY <2>4 DEF LoseRetry, TypeOK
  <2> QED BY <2>1, <2>2, <2>3, <2>4
<1>2. ASSUME NEW j \in Job, j.key = k, queue[j] > 0
      PROVE  OnItsWay(k)' \/ lost' > 0
  <2>1. CASE queue'[j] > 0
    BY <1>2, <2>1 DEF OnItsWay
  <2>2. ASSUME NEW w \in Worker, NEW i \in Job, Pop(w, i)
        PROVE  OnItsWay(k)'
    <3>1. CASE i = j
      <4>1. /\ pc'[w] \in {"start", "fail"} /\ job'[w].key = k
        BY <1>2, <2>2, <3>1, JobFacts DEF Pop, Goto, TypeOK
      <4> QED BY <4>1 DEF OnItsWay, KeyOf
    <3>2. CASE i # j
      BY <1>2, <2>2, <3>2 DEF Pop, OnItsWay, TypeOK
    <3> QED BY <3>1, <3>2
  <2>3. ASSUME NEW i \in Job, Enqueue(i)
        PROVE  queue'[j] > 0
    BY <1>2, <2>3, EnqueueFacts
  <2>4. ASSUME NEW w \in Worker,
               WorkerStep(w) \/ Throw(w) \/ Timeout(w) \/ Kill(w)
        PROVE  queue'[j] > 0 \/ OnItsWay(k)'
    <3>1. \/ UNCHANGED queue
          \/ \E i \in Job : Pop(w, i)
          \/ pc[w] # "idle" /\ Enqueue(job[w])
          \/ Send(w)
      BY <2>4 DEF WorkerStep, Start, Work, LoadSeeds, SaveSeeds, Remember,
         Reset, Finish, FailJob, Ack, Throw, Timeout, Kill
    <3>2. CASE Send(w)
      <4>1. NewJob(FollowKey(w), left[w]) \in Job
        BY <3>2, BusyFacts, JobFacts DEF Send
      <4> QED BY <2>3, <3>2, <4>1 DEF Send
    <3> QED BY <1>2, <2>2, <2>3, <3>1, <3>2, BusyFacts
  <2>5. ASSUME NEW b \in Batch, Dispatch(b)
        PROVE  queue'[j] > 0
    BY <2>3, <2>5, JobFacts, KeyFacts, ContentFacts DEF Dispatch
  <2>6. CASE DispatchRetry
    BY <2>1, <2>3, <2>6 DEF DispatchRetry, TypeOK
  <2>7. CASE \/ \E i \in Key : RetryBatch(i)
             \/ LoseRetry \/ DieDispatching \/ UNCHANGED vars
    BY <1>2, <2>1, <2>7 DEF RetryBatch, LoseRetry, DieDispatching, vars
  <2> QED BY <2>1, <2>4, <2>5, <2>6, <2>7 DEF Next
<1>3. ASSUME NEW v \in Worker, pc[v] \in {"start", "fail"}, KeyOf(v) = k
      PROVE  OnItsWay(k)' \/ lost' > 0
  <2>1. ASSUME pc'[v] = pc[v], job'[v] = job[v]
        PROVE  OnItsWay(k)'
    BY <1>3, <2>1 DEF OnItsWay, KeyOf
  <2>2. ASSUME NEW w \in Worker, w # v,
               WorkerStep(w) \/ Throw(w) \/ Timeout(w) \/ Kill(w)
        PROVE  pc'[v] = pc[v] /\ job'[v] = job[v]
    BY <2>2 DEF WorkerStep, Pop, Start, Work, LoadSeeds, SaveSeeds, Remember,
       Reset, Send, Finish, FailJob, Ack, Throw, Timeout, Kill, BecomeIdle,
       Goto, TypeOK
  <2>3. ASSUME WorkerStep(v) \/ Throw(v) \/ Timeout(v) \/ Kill(v)
        PROVE  OnItsWay(k)'
    <3>1. Start(v) \/ FailJob(v) \/ Kill(v)
      BY <1>3, <2>3 DEF WorkerStep, Pop, Work, LoadSeeds, SaveSeeds, Remember,
         Reset, Send, Finish, Ack, Throw, Timeout
    <3>2. ~Start(v) /\ ~FailJob(v)
      BY <1>3 DEF Start, FailJob, Mark, TypeOK
    <3>3. job[v] \in Job /\ job[v].key = k /\ Enqueue(job[v])
      BY <1>3, <3>1, <3>2, BusyFacts DEF Kill, KeyOf
    <3> QED BY <3>3, EnqueueFacts DEF OnItsWay
  <2>4. CASE UNCHANGED workVars
    BY <2>1, <2>4 DEF workVars
  <2>5. CASE \/ \E b \in Batch : Dispatch(b)
             \/ \E i \in Key : RetryBatch(i)
             \/ DispatchRetry \/ LoseRetry \/ DieDispatching
             \/ UNCHANGED vars
    BY <2>4, <2>5 DEF Dispatch, RetryBatch, DispatchRetry, LoseRetry,
       DieDispatching, vars
  <2> QED BY <2>1, <2>2, <2>3, <2>5 DEF Next
<1> QED BY <1>1, <1>2, <1>3 DEF OnItsWay

(* A first row gets its job when it is created, and is pending again only  *)
(* with a retry that has ids.                                              *)
LEMMA FirstRowsStep ==
    ASSUME TypeOK, RestsOK, FirstRowsOK, [Next]_vars
    PROVE  FirstRowsOK'
<1> SUFFICES ASSUME NEW b \in Batch
             PROVE  /\ status'[First(b)] = "none" =>
                         b \in waiting' \/ lost' > 0
                    /\ status'[First(b)] = "pending" =>
                         OnItsWay(First(b))' \/ lost' > 0
  BY DEF FirstRowsOK
<1> DEFINE k == First(b)
<1>1. k \in Key /\ batches[k] = Content[b] /\ Content[b] # {} /\ Content[b] \subseteq Id
  BY KeyFacts, ContentFacts DEF RestsOK, SeedsOK
<1>2. First(b) \in Key
  BY <1>1
<1> HIDE DEF k
<1>3. lost > 0 => lost' > 0
  <2>1. ASSUME NEW w \in Worker,
               WorkerStep(w) \/ Throw(w) \/ Timeout(w) \/ Kill(w)
        PROVE  lost' = lost
    BY <2>1 DEF WorkerStep, Pop, Start, Work, LoadSeeds, SaveSeeds, Remember,
       Reset, Send, Finish, FailJob, Ack, Throw, Timeout, Kill, ghosts
  <2> QED BY <2>1 DEF TypeOK, Next, Dispatch, RetryBatch, DispatchRetry,
             LoseRetry, DieDispatching, ghosts, vars
<1>4. ASSUME status'[k] = status[k], b \in waiting => b \in waiting'
      PROVE  /\ status'[k] = "none" => b \in waiting' \/ lost' > 0
             /\ status'[k] = "pending" => OnItsWay(k)' \/ lost' > 0
  BY <1>1, <1>3, <1>4, OnItsWayKept DEF FirstRowsOK, k
<1>5. ASSUME NEW c \in Batch, Dispatch(c)
      PROVE  /\ status'[k] = "none" => b \in waiting' \/ lost' > 0
             /\ status'[k] = "pending" => OnItsWay(k)' \/ lost' > 0
  <2>1. CASE c = b
    <3>1. NewJob(k, Content[b]) \in Job /\ NewJob(k, Content[b]).key = k
      BY <1>1, JobFacts, KeyFacts DEF k
    <3>2. queue'[NewJob(k, Content[b])] > 0
      BY <1>5, <2>1, <3>1, EnqueueFacts DEF Dispatch, k
    <3>3. OnItsWay(k)'
      BY <3>1, <3>2 DEF OnItsWay
    <3>4. status'[k] = "pending"
      BY <1>1, <1>5, <2>1 DEF Dispatch, Mark, TypeOK, k
    <3> QED BY <3>3, <3>4
  <2>2. CASE c # b
    <3>1. First(c) # k /\ First(c) \in Key
      BY <2>2, KeyFacts DEF k
    <3> QED BY <1>1, <1>4, <1>5, <2>2, <3>1 DEF Dispatch, Mark, TypeOK
  <2> QED BY <2>1, <2>2
<1>6. CASE DieDispatching
  BY <1>6 DEF DieDispatching, TypeOK, k
<1>7. ASSUME NEW w \in Worker,
             WorkerStep(w) \/ Throw(w) \/ Timeout(w) \/ Kill(w)
      PROVE  /\ status'[k] = "none" => b \in waiting' \/ lost' > 0
             /\ status'[k] = "pending" => OnItsWay(k)' \/ lost' > 0
  <2>1. /\ waiting' = waiting
        /\ \/ UNCHANGED status
           \/ /\ pc[w] # "idle"
              /\ \E s \in {"processing", "partial", "succeeded", "failed"} :
                    Mark(KeyOf(w), s)
           \/ /\ pc[w] \in {"remember", "reset"}
              /\ Mark(FollowKey(w), "pending")
    BY <1>7 DEF WorkerStep, Pop, Start, Work, LoadSeeds, SaveSeeds, Remember,
       Reset, Send, Finish, Outcome, FailJob, Ack, Throw, Timeout, Kill
  <2>2. CASE UNCHANGED status
    BY <1>4, <2>1, <2>2
  <2>3. ASSUME pc[w] # "idle",
               NEW s \in {"processing", "partial", "succeeded", "failed"},
               Mark(KeyOf(w), s)
        PROVE  /\ status'[k] = "none" => b \in waiting' \/ lost' > 0
               /\ status'[k] = "pending" => OnItsWay(k)' \/ lost' > 0
    <3>1. CASE KeyOf(w) = k
      BY <1>1, <2>3, <3>1 DEF Mark, TypeOK
    <3>2. CASE KeyOf(w) # k
      BY <1>1, <1>4, <2>1, <2>3, <3>2 DEF Mark, TypeOK
    <3> QED BY <3>1, <3>2
  <2>4. ASSUME pc[w] \in {"remember", "reset"}, Mark(FollowKey(w), "pending")
        PROVE  status'[k] = status[k]
    <3>1. FollowKey(w) # k
      BY <2>4, BusyFacts DEF k
    <3> QED BY <1>1, <2>4, <3>1 DEF Mark, TypeOK
  <2> QED BY <1>4, <2>1, <2>2, <2>3, <2>4
<1>8. ASSUME NEW i \in Key, RetryBatch(i)
      PROVE  /\ status'[k] = "none" => b \in waiting' \/ lost' > 0
             /\ status'[k] = "pending" => OnItsWay(k)' \/ lost' > 0
  <2>1. CASE i = k
    <3>1. NewJob(k, Content[b]) \in Job /\ NewJob(k, Content[b]).key = k
      BY <1>1, JobFacts, KeyFacts DEF k
    <3>2. request' = NewJob(k, Content[b])
      BY <1>1, <1>8, <2>1 DEF RetryBatch
    <3>3. OnItsWay(k)' /\ status'[k] = "pending"
      BY <1>1, <1>8, <2>1, <3>1, <3>2 DEF OnItsWay, RetryBatch, Mark, TypeOK
    <3> QED BY <3>3
  <2>2. CASE i # k
    BY <1>1, <1>4, <1>8, <2>2 DEF RetryBatch, Mark, TypeOK
  <2> QED BY <2>1, <2>2
<1>9. CASE DispatchRetry \/ LoseRetry \/ UNCHANGED vars
  BY <1>4, <1>9 DEF DispatchRetry, LoseRetry, vars, k
<1> QED
  BY <1>5, <1>6, <1>7, <1>8, <1>9 DEF Next, k

-----------------------------------------------------------------------------
(* What has a job, said with the sets above.                               *)
LEMMA HasJobIs ==
    ASSUME NEW k \in Key
    PROVE  HasJob(k) <=> \/ Queueing(k) # {} \/ Executing(k) # {}
                         \/ Sending(k) # {} \/ Requested(k)
BY DEF HasJob, Queued, Executed, Sent, Queueing, Executing, Sending, Requested

(* The successor of a key is the successor of no other.                    *)
LEMMA FollowUpInjective ==
    \A k1, k2 \in Key : FollowUp(k1) = FollowUp(k2) => k1 = k2
BY DEF Key, FollowUp

(* The keys of the other workers are not touched by a worker's step.       *)
LEMMA OthersKept ==
    ASSUME TypeOK, NEW w \in Worker, NEW v \in Worker \ {w},
           WorkerStep(w) \/ Throw(w) \/ Timeout(w) \/ Kill(w)
    PROVE  pc'[v] = pc[v] /\ job'[v] = job[v]
BY DEF WorkerStep, Pop, Start, Work, LoadSeeds, SaveSeeds, Remember, Reset,
       Send, Finish, FailJob, Ack, Throw, Timeout, Kill, BecomeIdle, Goto,
       TypeOK

(* A worker's step that is not Pop keeps its job or gives it up, and it    *)
(* begins to send only after it has marked the follow-up's row.            *)
LEMMA OwnKept ==
    ASSUME TypeOK, NEW w \in Worker, pc[w] # "idle",
           WorkerStep(w) \/ Throw(w) \/ Timeout(w) \/ Kill(w)
    PROVE  /\ pc'[w] # "idle" => job'[w] = job[w]
           /\ pc'[w] = "send" => /\ pc[w] \in {"remember", "reset"}
                                 /\ Mark(FollowKey(w), "pending")
                                 /\ Remember(w) \/ Reset(w)
BY DEF WorkerStep, Pop, Start, Work, LoadSeeds, SaveSeeds, Remember, Reset,
       Send, Finish, FailJob, Ack, Throw, Timeout, Kill, BecomeIdle, Goto,
       TypeOK

(* What a worker's step does to the queue and to the requests.             *)
LEMMA QueueKept ==
    ASSUME TypeOK, NEW w \in Worker, pc[w] # "idle",
           WorkerStep(w) \/ Throw(w) \/ Timeout(w) \/ Kill(w)
    PROVE  /\ UNCHANGED request
           /\ \/ UNCHANGED queue
              \/ Enqueue(job[w]) /\ pc'[w] = "idle"
              \/ Send(w)
BY DEF WorkerStep, Pop, Start, Work, LoadSeeds, SaveSeeds, Remember, Reset,
       Send, Finish, FailJob, Ack, Throw, Timeout, Kill, BecomeIdle, Goto,
       TypeOK

(* A worker that takes a job from the queue executes it from then on.      *)
LEMMA PopFacts ==
    ASSUME TypeOK, NEW w \in Worker, NEW j \in Job, Pop(w, j)
    PROVE  /\ pc[w] = "idle" /\ queue[j] > 0 /\ pc'[w] \in {"start", "fail"}
           /\ queue' \in [Job -> Nat] /\ queue'[j] = queue[j] - 1
           /\ \A i \in Job \ {j} : queue'[i] = queue[i]
           /\ job'[w] \in Job /\ job'[w].key = j.key
           /\ \A v \in Worker \ {w} : pc'[v] = pc[v] /\ job'[v] = job[v]
           /\ UNCHANGED <<request, status>>
<1>1. /\ pc[w] = "idle" /\ queue[j] > 0 /\ pc'[w] \in {"start", "fail"}
      /\ queue' \in [Job -> Nat] /\ queue'[j] = queue[j] - 1
      /\ \A i \in Job \ {j} : queue'[i] = queue[i]
  BY DEF Pop, Goto, TypeOK
<1>2. /\ job'[w] \in Job /\ job'[w].key = j.key
      /\ \A v \in Worker \ {w} : pc'[v] = pc[v] /\ job'[v] = job[v]
  <2>1. PICK i \in Job : job' = [job EXCEPT ![w] = i] /\ i.key = j.key
    BY JobFacts DEF Pop
  <2> QED BY <2>1 DEF Pop, Goto, TypeOK
<1>3. UNCHANGED <<request, status>>
  BY DEF Pop
<1> QED BY <1>1, <1>2, <1>3

(* A worker that goes on with its job, or gives it up, leaves the sets of  *)
(* executing and sending workers as they are, or smaller.                  *)
LEMMA WorkersKept ==
    ASSUME TypeOK, NEW w \in Worker, pc[w] # "idle", NEW k \in Key,
           WorkerStep(w) \/ Throw(w) \/ Timeout(w) \/ Kill(w)
    PROVE  /\ Executing(k)' \subseteq Executing(k)
           /\ Sending(k)' \subseteq Sending(k)
                \cup {v \in {w} : FollowKey(w) = k /\ pc'[w] = "send"}
           /\ pc'[w] = "idle" => w \notin Executing(k)'
           /\ pc'[w] # "send" => w \notin Sending(k)'
<1>1. \A v \in Worker : v # w => pc'[v] = pc[v] /\ job'[v] = job[v]
  BY OthersKept
<1>2. pc'[w] # "idle" => job'[w] = job[w]
  BY OwnKept
<1> QED BY <1>1, <1>2 DEF Executing, Sending, FollowKey, KeyOf

-----------------------------------------------------------------------------
(* A row that is created stays, so a job never loses its row.              *)
LEMMA RowStays ==
    ASSUME TypeOK, [Next]_vars, NEW k \in Key, status[k] # "none"
    PROVE  status'[k] # "none"
<1>1. ASSUME NEW i \in Key, NEW s \in Status \ {"none"}, Mark(i, s)
      PROVE  status'[k] # "none"
  BY <1>1 DEF Mark, TypeOK
<1>2. ASSUME NEW w \in Worker, WorkerStep(w) \/ Throw(w) \/ Timeout(w) \/ Kill(w)
      PROVE  status'[k] # "none"
  <2>1. \/ UNCHANGED status
        \/ pc[w] # "idle" /\ \E s \in Status \ {"none"} : Mark(KeyOf(w), s)
        \/ pc[w] \in {"remember", "reset"} /\ Mark(FollowKey(w), "pending")
    BY <1>2 DEF WorkerStep, Pop, Start, Work, LoadSeeds, SaveSeeds, Remember,
       Reset, Send, Finish, Outcome, FailJob, Ack, Throw, Timeout, Kill, Status
  <2>2. "pending" \in Status \ {"none"}
    BY DEF Status
  <2> QED BY <1>1, <2>1, <2>2, BusyFacts
<1>3. "pending" \in Status \ {"none"}
  BY DEF Status
<1>4. ASSUME NEW b \in Batch, Mark(First(b), "pending")
      PROVE  status'[k] # "none"
  BY <1>1, <1>3, <1>4, KeyFacts
<1>5. CASE \E b \in Batch : Dispatch(b)
  BY <1>4, <1>5 DEF Dispatch
<1>6. CASE DieDispatching
  BY <1>4, <1>6 DEF DieDispatching, TypeOK
<1>7. CASE \E i \in Key : RetryBatch(i)
  BY <1>1, <1>3, <1>7 DEF RetryBatch
<1>8. CASE DispatchRetry \/ LoseRetry \/ UNCHANGED vars
  BY <1>8 DEF DispatchRetry, LoseRetry, vars
<1> QED BY <1>2, <1>5, <1>6, <1>7, <1>8 DEF Next

(* A job comes from a job of the same row, or from a step that marks it.   *)
LEMMA JobsAreMarked ==
    ASSUME TypeOK, [Next]_vars, NEW k \in Key, HasJob(k)'
    PROVE  HasJob(k) \/ status'[k] # "none"
<1>1. ASSUME NEW i \in Key, Mark(i, "pending"), i = k
      PROVE  status'[k] # "none"
  BY <1>1 DEF Mark, TypeOK
<1>2. HasJob(k) <=> \/ Queueing(k) # {} \/ Executing(k) # {}
                    \/ Sending(k) # {} \/ Requested(k)
  BY HasJobIs
<1>3. \/ Queueing(k)' # {} \/ Executing(k)' # {}
      \/ Sending(k)' # {} \/ Requested(k)'
  BY DEF HasJob, Queued, Executed, Sent, Queueing, Executing, Sending, Requested
<1>4. ASSUME UNCHANGED <<pc, job>>
      PROVE  Executing(k)' = Executing(k) /\ Sending(k)' = Sending(k)
  BY <1>4 DEF Executing, Sending, FollowKey, KeyOf
<1>5. ASSUME UNCHANGED queue
      PROVE  Queueing(k)' = Queueing(k)
  BY <1>5 DEF Queueing
<1>6. ASSUME NEW i \in Job, Enqueue(i), i.key # k
      PROVE  Queueing(k)' = Queueing(k)
  BY <1>6, EnqueueFacts DEF Queueing
<1>7. UNCHANGED request => Requested(k)' = Requested(k)
  BY DEF Requested
<1>8. ASSUME NEW b \in Batch, Dispatch(b)
      PROVE  HasJob(k) \/ status'[k] # "none"
  <2>1. First(b) \in Key /\ NewJob(First(b), Content[b]) \in Job
        /\ NewJob(First(b), Content[b]).key = First(b)
    BY JobFacts, KeyFacts, ContentFacts
  <2> QED BY <1>1, <1>2, <1>3, <1>4, <1>6, <1>7, <1>8, <2>1
          DEF Dispatch, workVars
<1>9. CASE DieDispatching \/ LoseRetry \/ UNCHANGED vars
  BY <1>2, <1>3, <1>4, <1>5, <1>7, <1>9
  DEF DieDispatching, LoseRetry, vars, workVars, Requested
<1>10. ASSUME NEW i \in Key, RetryBatch(i)
       PROVE  HasJob(k) \/ status'[k] # "none"
  <2>1. CASE i = k
    BY <1>1, <1>10, <2>1 DEF RetryBatch
  <2>2. CASE i # k
    <3>1. request' # None => request'.key = i
      BY <1>10, JobFacts DEF RetryBatch, NewJob
    <3>2. ~Requested(k)'
      BY <2>2, <3>1 DEF Requested
    <3> QED BY <1>2, <1>3, <1>4, <1>5, <1>10, <3>2 DEF RetryBatch, workVars
  <2> QED BY <2>1, <2>2
<1>11. CASE DispatchRetry
  <2>1. request \in Job /\ ~Requested(k)'
    BY <1>11 DEF DispatchRetry, TypeOK, Requested
  <2>2. CASE request.key = k
    BY <1>2, <1>11, <2>2 DEF DispatchRetry, Requested
  <2>3. CASE request.key # k
    BY <1>2, <1>3, <1>4, <1>6, <1>11, <2>1, <2>3 DEF DispatchRetry, workVars
  <2> QED BY <2>2, <2>3
<1>12. ASSUME NEW w \in Worker, NEW j \in Job, Pop(w, j)
       PROVE  HasJob(k) \/ status'[k] # "none"
  <2>1. Queueing(k)' \subseteq Queueing(k)
    BY <1>12, PopFacts DEF Queueing, TypeOK
  <2>2. Sending(k)' \subseteq Sending(k) /\ (Requested(k)' <=> Requested(k))
    BY <1>12, PopFacts DEF Sending, FollowKey, KeyOf, Requested
  <2>3. Executing(k)' # {} => Executing(k) # {} \/ Queueing(k) # {}
    BY <1>12, PopFacts DEF Executing, Queueing, KeyOf
  <2> QED BY <1>2, <1>3, <2>1, <2>2, <2>3
<1>13. ASSUME NEW w \in Worker, pc[w] # "idle",
              WorkerStep(w) \/ Throw(w) \/ Timeout(w) \/ Kill(w)
       PROVE  HasJob(k) \/ status'[k] # "none"
  <2>1. CASE pc'[w] = "send" /\ FollowKey(w) = k
    BY <1>1, <1>13, <2>1, OwnKept
  <2>2. CASE KeyOf(w) = k \/ (pc[w] = "send" /\ FollowKey(w) = k)
    BY <1>2, <1>13, <2>2 DEF Executing, Sending
  <2>3. CASE KeyOf(w) # k /\ ~(pc[w] = "send" /\ FollowKey(w) = k)
             /\ ~(pc'[w] = "send" /\ FollowKey(w) = k)
    <3>1. Executing(k)' \subseteq Executing(k) /\ Sending(k)' \subseteq Sending(k)
      BY <1>13, <2>3, WorkersKept
    <3>2. Queueing(k)' = Queueing(k)
      <4>1. CASE Send(w)
        <5>1. /\ NewJob(FollowKey(w), left[w]) \in Job
              /\ NewJob(FollowKey(w), left[w]).key = FollowKey(w)
          BY <1>13, <4>1, BusyFacts, JobFacts DEF Send
        <5> QED BY <1>6, <2>3, <4>1, <5>1 DEF Send
      <4>2. CASE Enqueue(job[w])
        BY <1>6, <1>13, <2>3, <4>2, BusyFacts DEF KeyOf
      <4> QED BY <1>5, <1>13, <4>1, <4>2, QueueKept
    <3> QED BY <1>2, <1>3, <1>7, <1>13, <3>1, <3>2, QueueKept
  <2> QED BY <2>1, <2>2, <2>3
<1>14. ASSUME NEW w \in Worker, pc[w] = "idle",
              WorkerStep(w) \/ Throw(w) \/ Timeout(w) \/ Kill(w)
       PROVE  \E j \in Job : Pop(w, j)
  BY <1>14 DEF WorkerStep, Start, Work, LoadSeeds, SaveSeeds, Remember,
     Reset, Send, Finish, FailJob, Ack, Throw, Timeout, Kill
<1> QED BY <1>8, <1>9, <1>10, <1>11, <1>12, <1>13, <1>14 DEF Next

(* Only a step that creates the row of a key gives it its first job.       *)
LEMMA RowsStep ==
    ASSUME TypeOK, RowsOK, [Next]_vars
    PROVE  RowsOK'
<1>1. ASSUME NEW k \in Key, status'[k] = "none"
      PROVE  ~HasJob(k)'
  BY <1>1, RowStays, JobsAreMarked DEF RowsOK
<1>2. ASSUME NEW b \in waiting'
      PROVE  status'[First(b)] = "none"
  <2> DEFINE k == First(b)
  <2>1. CASE \E c \in Batch : Dispatch(c)
    <3>1. PICK c \in Batch : Dispatch(c)
      BY <2>1
    <3>2. b \in waiting /\ c # b /\ b \in Batch
      BY <1>2, <3>1 DEF Dispatch, TypeOK
    <3>3. First(c) # k /\ k \in Key /\ First(c) \in Key
      BY <3>2, KeyFacts
    <3> QED BY <3>1, <3>2, <3>3 DEF Dispatch, Mark, RowsOK, TypeOK
  <2>2. CASE DieDispatching
    BY <1>2, <2>2 DEF DieDispatching
  <2>3. ASSUME ~DieDispatching, ~\E c \in Batch : Dispatch(c)
        PROVE  waiting' = waiting
    <3>1. ASSUME NEW w \in Worker,
                 WorkerStep(w) \/ Throw(w) \/ Timeout(w) \/ Kill(w)
          PROVE  waiting' = waiting
      BY <3>1 DEF WorkerStep, Pop, Start, Work, LoadSeeds, SaveSeeds,
         Remember, Reset, Send, Finish, FailJob, Ack, Throw, Timeout, Kill
    <3> QED BY <2>3, <3>1 DEF Next, RetryBatch, DispatchRetry, LoseRetry, vars
  <2>4. ASSUME waiting' = waiting
        PROVE  status'[k] = "none"
    <3>1. b \in Batch /\ b \in waiting /\ status[k] = "none" /\ ~HasJob(k)
      BY <1>2, <2>4, KeyFacts DEF RowsOK, TypeOK
    <3>2. k \in Key
      BY <3>1, KeyFacts
    <3>3. ASSUME NEW i \in Key, NEW s \in Status, i # k, Mark(i, s)
          PROVE  status'[k] = status[k]
      BY <3>2, <3>3 DEF Mark, TypeOK
    <3>4. ASSUME NEW w \in Worker,
                 WorkerStep(w) \/ Throw(w) \/ Timeout(w) \/ Kill(w)
          PROVE  status'[k] = status[k]
      <4>1. \/ UNCHANGED status
            \/ pc[w] # "idle" /\ \E s \in Status : Mark(KeyOf(w), s)
            \/ pc[w] \in {"remember", "reset"} /\ Mark(FollowKey(w), "pending")
        BY <3>4 DEF WorkerStep, Pop, Start, Work, LoadSeeds, SaveSeeds,
           Remember, Reset, Send, Finish, Outcome, FailJob, Ack, Throw,
           Timeout, Kill, Status
      <4>2. pc[w] # "idle" => KeyOf(w) # k
        BY <3>1 DEF HasJob, Executed
      <4>3. pc[w] \in {"remember", "reset"} => FollowKey(w) # k
        BY <3>1, BusyFacts
      <4>4. "pending" \in Status
        BY DEF Status
      <4> QED BY <3>3, <4>1, <4>2, <4>3, <4>4, BusyFacts
    <3>5. ASSUME NEW i \in Key, RetryBatch(i)
          PROVE  status'[k] = status[k]
      <4>1. i # k
        BY <3>1, <3>5 DEF RetryBatch, Offered
      <4> QED BY <3>3, <3>5, <4>1 DEF RetryBatch, Status
    <3>6. ASSUME NEW c \in Batch, Dispatch(c)
          PROVE  FALSE
      BY <2>4, <3>6 DEF Dispatch
    <3>7. ~DieDispatching
      BY <2>4, <3>1 DEF DieDispatching
    <3> QED BY <3>1, <3>4, <3>5, <3>6, <3>7
            DEF Next, DispatchRetry, LoseRetry, vars
  <2> QED BY <2>1, <2>2, <2>3, <2>4
<1> QED BY <1>1, <1>2 DEF RowsOK

-----------------------------------------------------------------------------
(* Fewer jobs in fewer places are still at most one.                       *)
LEMMA Fewer ==
    ASSUME NEW k \in Key, OneJob(k), Queueing(k)' \subseteq Queueing(k),
           \A j \in Queueing(k)' : queue'[j] = queue[j],
           Executing(k)' \subseteq Executing(k),
           Sending(k)' \subseteq Sending(k),
           Requested(k)' => Requested(k)
    PROVE  OneJob(k)'
BY DEF OneJob

(* One job where there was none.                                           *)
LEMMA OnlyQueued ==
    ASSUME TypeOK, NEW k \in Key, NEW j \in Job, j.key = k, Queueing(k) = {},
           Enqueue(j), Executing(k)' = {}, Sending(k)' = {}, ~Requested(k)'
    PROVE  OneJob(k)'
<1>1. queue[j] = 0
  BY DEF Queueing, TypeOK
<1>2. queue'[j] = 1 /\ \A i \in Job \ {j} : queue'[i] = queue[i]
  BY <1>1 DEF Enqueue, TypeOK
<1>3. Queueing(k)' = {j}
  BY <1>2 DEF Queueing
<1> QED BY <1>2, <1>3 DEF OneJob

(* A step never gives a row a second job, unless a retry or a reset did.   *)
LEMMA JobsStep ==
    ASSUME TypeOK, RowsOK, JobsOK, [Next]_vars
    PROVE  JobsOK'
<1> SUFFICES ASSUME ~hasty', ~raced', NEW k \in Key
             PROVE  OneJob(k)'
  BY DEF JobsOK
<1>0. ~hasty /\ ~raced
  <2>1. ASSUME NEW w \in Worker,
               WorkerStep(w) \/ Throw(w) \/ Timeout(w) \/ Kill(w)
        PROVE  UNCHANGED hasty /\ (UNCHANGED raced \/ Reset(w))
    BY <2>1 DEF WorkerStep, Pop, Start, Work, LoadSeeds, SaveSeeds, Remember,
       Reset, Send, Finish, FailJob, Ack, Throw, Timeout, Kill, ghosts
  <2>2. ASSUME NEW w \in Worker, Reset(w)
        PROVE  raced => raced'
    BY <2>2, Zenon DEF Reset
  <2>3. ASSUME NEW i \in Key, RetryBatch(i)
        PROVE  UNCHANGED raced /\ (hasty => hasty')
    BY <2>3, Zenon DEF RetryBatch
  <2>4. ASSUME \/ \E b \in Batch : Dispatch(b)
               \/ DispatchRetry \/ LoseRetry \/ DieDispatching
               \/ UNCHANGED vars
        PROVE  UNCHANGED <<hasty, raced>>
    BY <2>4 DEF Dispatch, DispatchRetry, LoseRetry, DieDispatching, ghosts, vars
  <2> QED BY <2>1, <2>2, <2>3, <2>4 DEF Next
<1>1. OneJob(k) /\ \A i \in Key : OneJob(i)
  BY <1>0 DEF JobsOK
<1>2. HasJob(k) <=> \/ Queueing(k) # {} \/ Executing(k) # {}
                    \/ Sending(k) # {} \/ Requested(k)
  BY HasJobIs
<1>3. UNCHANGED queue =>
        Queueing(k)' = Queueing(k) /\ \A j \in Queueing(k)' : queue'[j] = queue[j]
  BY DEF Queueing
<1>4. UNCHANGED <<pc, job>> =>
        Executing(k)' = Executing(k) /\ Sending(k)' = Sending(k)
  BY DEF Executing, Sending, FollowKey, KeyOf
<1>5. UNCHANGED request => (Requested(k)' <=> Requested(k))
  BY DEF Requested
<1>6. ASSUME NEW i \in Job, Enqueue(i), i.key # k
      PROVE  Queueing(k)' = Queueing(k) /\ \A j \in Queueing(k)' : queue'[j] = queue[j]
  <2>1. \A j \in Job : j.key = k => queue'[j] = queue[j]
    BY <1>6 DEF Enqueue, TypeOK
  <2> QED BY <2>1 DEF Queueing
<1>7. ASSUME NEW b \in Batch, Dispatch(b)
      PROVE  OneJob(k)'
  <2>1. First(b) \in Key /\ NewJob(First(b), Content[b]) \in Job
        /\ NewJob(First(b), Content[b]).key = First(b)
    BY JobFacts, KeyFacts, ContentFacts
  <2>2. CASE First(b) = k
    <3>1. ~HasJob(k)
      BY <1>7, <2>2 DEF Dispatch, RowsOK
    <3> QED BY <1>2, <1>4, <1>5, <1>7, <2>1, <2>2, <3>1, OnlyQueued
            DEF Dispatch, workVars
  <2>3. CASE First(b) # k
    BY <1>1, <1>4, <1>5, <1>6, <1>7, <2>1, <2>3, Fewer DEF Dispatch, workVars
  <2> QED BY <2>2, <2>3
<1>8. CASE DieDispatching \/ LoseRetry \/ UNCHANGED vars
  BY <1>1, <1>3, <1>4, <1>5, <1>8, Fewer
  DEF DieDispatching, LoseRetry, vars, workVars, Requested
<1>9. ASSUME NEW i \in Key, RetryBatch(i)
      PROVE  OneJob(k)'
  <2>1. request' # None => request'.key = i
    BY <1>9 DEF RetryBatch, NewJob
  <2>2. CASE i = k
    <3>1. ~HasJob(k)
      BY <1>9, <2>2 DEF RetryBatch
    <3> QED BY <1>2, <1>3, <1>4, <1>9, <3>1 DEF RetryBatch, workVars, OneJob
  <2>3. CASE i # k
    <3>1. ~Requested(k)'
      BY <2>1, <2>3 DEF Requested
    <3> QED BY <1>1, <1>3, <1>4, <1>9, <3>1, Fewer DEF RetryBatch, workVars
  <2> QED BY <2>2, <2>3
<1>10. CASE DispatchRetry
  <2>1. request \in Job /\ ~Requested(k)'
    BY <1>10 DEF DispatchRetry, TypeOK, Requested
  <2>2. CASE request.key = k
    <3>1. Requested(k)
      BY <1>10, <2>2 DEF DispatchRetry, Requested
    <3>2. Queueing(k) = {} /\ Executing(k) = {} /\ Sending(k) = {}
      BY <1>1, <3>1 DEF OneJob
    <3> QED BY <1>4, <1>10, <2>1, <2>2, <3>2, OnlyQueued
            DEF DispatchRetry, workVars
  <2>3. CASE request.key # k
    BY <1>1, <1>4, <1>6, <1>10, <2>1, <2>3, Fewer DEF DispatchRetry, workVars
  <2> QED BY <2>2, <2>3
<1>11. ASSUME NEW w \in Worker, NEW j \in Job, Pop(w, j)
       PROVE  OneJob(k)'
  <2>1. Sending(k)' = Sending(k) /\ (Requested(k)' <=> Requested(k))
    BY <1>11, PopFacts DEF Sending, FollowKey, KeyOf, Requested
  <2>2. CASE j.key = k
    <3>1. /\ Queueing(k) = {j} /\ queue[j] = 1
          /\ Executing(k) = {} /\ Sending(k) = {} /\ ~Requested(k)
      <4>1. j \in Queueing(k)
        BY <1>11, <2>2, PopFacts DEF Queueing
      <4> QED BY <1>1, <4>1 DEF OneJob
    <3>2. Queueing(k)' = {}
      <4>1. queue'[j] = 0 /\ \A i \in Job \ {j} : queue'[i] = queue[i]
        BY <1>11, <3>1, PopFacts
      <4> QED BY <3>1, <4>1 DEF Queueing
    <3>3. Executing(k)' = {w}
      <4>1. \A v \in Worker \ {w} : pc'[v] = pc[v] /\ job'[v] = job[v]
        BY <1>11, PopFacts
      <4>2. w \in Executing(k)'
        BY <1>11, <2>2, PopFacts DEF Executing, KeyOf
      <4>3. Executing(k)' \subseteq Executing(k) \cup {w}
        BY <4>1 DEF Executing, KeyOf
      <4> QED BY <3>1, <4>2, <4>3
    <3> QED BY <2>1, <3>1, <3>2, <3>3 DEF OneJob
  <2>3. CASE j.key # k
    <3>1. Queueing(k)' = Queueing(k) /\ \A i \in Queueing(k)' : queue'[i] = queue[i]
      <4>1. \A i \in Job : i.key = k => queue'[i] = queue[i]
        BY <1>11, <2>3, PopFacts
      <4> QED BY <4>1 DEF Queueing
    <3>2. Executing(k)' \subseteq Executing(k)
      BY <1>11, <2>3, PopFacts DEF Executing, KeyOf
    <3> QED BY <1>1, <2>1, <3>1, <3>2, Fewer
  <2> QED BY <2>2, <2>3
<1>12. ASSUME NEW w \in Worker, pc[w] # "idle",
              WorkerStep(w) \/ Throw(w) \/ Timeout(w) \/ Kill(w)
       PROVE  OneJob(k)'
  <2>1. /\ Executing(k)' \subseteq Executing(k)
        /\ Sending(k)' \subseteq Sending(k)
             \cup {v \in {w} : FollowKey(w) = k /\ pc'[w] = "send"}
        /\ pc'[w] = "idle" => w \notin Executing(k)'
        /\ pc'[w] # "send" => w \notin Sending(k)'
    BY <1>12, WorkersKept
  <2>2. /\ UNCHANGED request
        /\ \/ UNCHANGED queue
           \/ Enqueue(job[w]) /\ pc'[w] = "idle"
           \/ Send(w)
    BY <1>12, QueueKept
  <2>3. CASE pc'[w] = "send" /\ FollowKey(w) = k
    <3>1. /\ UNCHANGED <<queue, request>>
          /\ \/ status[k] = "none"
             \/ ~HasJob(k)
      BY <1>12, <2>3, OwnKept DEF Remember, Reset, Goto, TypeOK
    <3>2. ~HasJob(k)
      BY <3>1 DEF RowsOK
    <3>3. /\ Queueing(k)' = {} /\ Executing(k)' = {} /\ ~Requested(k)'
          /\ Sending(k)' \subseteq {w}
      BY <1>2, <1>3, <1>5, <2>1, <3>1, <3>2
    <3> QED BY <3>3 DEF OneJob
  <2>4. ASSUME ~(pc'[w] = "send" /\ FollowKey(w) = k)
        PROVE  Sending(k)' \subseteq Sending(k)
    BY <2>1, <2>4
  <2>5. CASE UNCHANGED queue
    BY <1>1, <1>3, <1>5, <2>1, <2>2, <2>3, <2>4, <2>5, Fewer
  <2>6. CASE Enqueue(job[w]) /\ pc'[w] = "idle"
    <3>1. job[w] \in Job /\ job[w].key = KeyOf(w)
      BY <1>12, BusyFacts DEF KeyOf
    <3>2. CASE KeyOf(w) = k
      <4>1. w \in Executing(k)
        BY <1>12, <3>2 DEF Executing
      <4>2. /\ Executing(k) = {w} /\ Queueing(k) = {} /\ Sending(k) = {}
            /\ ~Requested(k)
        BY <1>1, <4>1 DEF OneJob
      <4>3. Executing(k)' = {} /\ Sending(k)' = {} /\ ~Requested(k)'
        BY <1>5, <2>1, <2>2, <2>4, <2>6, <4>2
      <4> QED BY <2>6, <3>1, <3>2, <4>2, <4>3, OnlyQueued
    <3>3. CASE KeyOf(w) # k
      BY <1>1, <1>5, <1>6, <2>1, <2>2, <2>4, <2>6, <3>1, <3>3, Fewer
    <3> QED BY <3>2, <3>3
  <2>7. CASE Send(w)
    <3>1. /\ NewJob(FollowKey(w), left[w]) \in Job
          /\ NewJob(FollowKey(w), left[w]).key = FollowKey(w)
          /\ pc[w] = "send" /\ pc'[w] = "finish"
      BY <1>12, <2>7, BusyFacts, JobFacts, GotoFacts DEF Send, PC
    <3>2. CASE FollowKey(w) = k
      <4>1. w \in Sending(k)
        BY <3>1, <3>2 DEF Sending
      <4>2. /\ Sending(k) = {w} /\ Queueing(k) = {} /\ Executing(k) = {}
            /\ ~Requested(k)
        BY <1>1, <4>1 DEF OneJob
      <4>3. Executing(k)' = {} /\ Sending(k)' = {} /\ ~Requested(k)'
        BY <1>5, <2>1, <2>2, <2>4, <3>1, <4>2
      <4> QED BY <2>7, <3>1, <3>2, <4>2, <4>3, OnlyQueued DEF Send
    <3>3. CASE FollowKey(w) # k
      BY <1>1, <1>5, <1>6, <2>1, <2>2, <2>4, <2>7, <3>1, <3>3, Fewer DEF Send
    <3> QED BY <3>2, <3>3
  <2> QED BY <2>2, <2>5, <2>6, <2>7
<1>13. ASSUME NEW w \in Worker, pc[w] = "idle",
              WorkerStep(w) \/ Throw(w) \/ Timeout(w) \/ Kill(w)
       PROVE  \E j \in Job : Pop(w, j)
  BY <1>13 DEF WorkerStep, Start, Work, LoadSeeds, SaveSeeds, Remember,
     Reset, Send, Finish, FailJob, Ack, Throw, Timeout, Kill
<1> QED BY <1>7, <1>8, <1>9, <1>10, <1>11, <1>12, <1>13 DEF Next

-----------------------------------------------------------------------------
(* The invariant holds for every run, of any size.                         *)
THEOREM Inductive == Spec => []IInv
<1>1. Init => IInv
  BY InitIInv
<1>2. IInv /\ [Next]_vars => IInv'
  BY TypeStep, RestsStep, SucceededStep, FirstRowsStep, RowsStep, JobsStep
  DEF IInv, RestsOK
<1> QED BY <1>1, <1>2, PTL DEF Spec

(* Each variable keeps its type; a job never follows up beyond the cap.    *)
THEOREM TypeCorrect == Spec => []TypeOK
BY Inductive, PTL DEF IInv

(* A row says succeeded only when every id of its batch has been worked    *)
(* on, for every interleaving of jobs, retries, redeliveries and deaths.   *)
THEOREM SucceededCorrect == Spec => []SucceededMeansDone
BY Inductive, PTL DEF IInv

(* When a run has come to rest and no dispatch has died half way, the first*)
(* row of every batch that is not done can be retried, and a retry finds   *)
(* all ids of the batch.                                                   *)
THEOREM NothingLostCorrect == Spec => []NothingIsLost
<1>1. IInv => NothingIsLost
  <2> SUFFICES ASSUME IInv, Quiet, lost = 0,
                      NEW b \in Batch, NEW i \in Content[b] \ done
               PROVE  \E k \in Key : k[1] = b /\ Offered(k) /\ i \in batches[k]
    BY DEF NothingIsLost
  <2> DEFINE k == First(b)
  <2>1. k \in Key /\ k[1] = b /\ batches[k] = Content[b]
    BY KeyFacts DEF IInv, RestsOK, SeedsOK
  <2>2. status[k] # "succeeded"
    BY <2>1 DEF IInv, SucceededMeansDone
  <2>3. status[k] # "none"
    BY DEF IInv, FirstRowsOK, Quiet
  <2>4. status[k] # "pending"
    <3>1. ~OnItsWay(k)
      BY NoneIsNoJob DEF Quiet, OnItsWay
    <3> QED BY <3>1 DEF IInv, FirstRowsOK
  <2>5. status[k] \in {"processing", "partial", "failed"}
    BY <2>1, <2>2, <2>3, <2>4 DEF IInv, TypeOK, Status
  <2>6. Offered(k)
    BY <2>5 DEF Offered, Quiet
  <2> QED BY <2>1, <2>6
<1> QED BY <1>1, Inductive, PTL

(* A row has at most one job, queued, executed, about to be sent or about  *)
(* to be dispatched, as long as no batch was retried and no follow-up was  *)
(* reset while it had one.                                                 *)
THEOREM OneJobCorrect == Spec => []OneJobPerKeyUnlessRaced
<1>1. IInv => OneJobPerKeyUnlessRaced
  <2> SUFFICES ASSUME IInv, ~hasty, ~raced, NEW k \in Key
               PROVE  /\ \A i, j \in Queueing(k) : i = j /\ queue[i] = 1
                      /\ Queued(k) => Executing(k) = {}
                      /\ Cardinality(Executing(k)) <= 1
    BY DEF OneJobPerKeyUnlessRaced, Queueing
  <2>1. OneJob(k)
    BY DEF IInv, JobsOK
  <2>2. Queued(k) => Executing(k) = {}
    BY <2>1 DEF OneJob, Queued, Queueing
  <2>3. Cardinality(Executing(k)) <= 1
    <3>1. CASE Executing(k) = {}
      BY <3>1, FS_EmptySet
    <3>2. ASSUME NEW w \in Executing(k)
          PROVE  Cardinality(Executing(k)) <= 1
      <4>1. Executing(k) = {w}
        BY <2>1, <3>2 DEF OneJob
      <4>2. Cardinality({w}) = 1
        BY FS_Singleton
      <4> QED BY <4>1, <4>2
    <3> QED BY <3>1, <3>2
  <2> QED BY <2>1, <2>2, <2>3 DEF OneJob
<1> QED BY <1>1, Inductive, PTL

-----------------------------------------------------------------------------
(***************************************************************************)
(* That the tables are sound wherever the jobs and the tables are looked   *)
(* at together.  The theorem about the tables is that of                   *)
(* ConceptStore_proofs, taken over by an instance of that module.  Such an *)
(* instance has definitions of its own, SP!..., of what the module of the  *)
(* composition calls Store!...: most of what is here says, from the        *)
(* smallest of them to the next-state relation, that they are the same.    *)
(***************************************************************************)

SP == INSTANCE ConceptStore_proofs WITH pc <- storePc, None <- Nobody

(* The tables, a transaction, and what is read of them.                    *)
LEMMA SameData ==
    /\ SP!Process = Store!Process
    /\ \A f, new : SP!Updated(f, new) = Store!Updated(f, new)
    /\ \A x, value : SP!Only(x, value) = Store!Only(x, value)
    /\ \A f, x, value : SP!Put(f, x, value) = Store!Put(f, x, value)
    /\ SP!Empty = Store!Empty
    /\ SP!NoTx = Store!NoTx
    /\ SP!Tables = Store!Tables
    /\ \A base, t : SP!Over(base, t) = Store!Over(base, t)
    /\ \A p : SP!Current(p) = Store!Current(p)
    /\ \A p : SP!View(p) = Store!View(p)
    /\ \A db, l, n : SP!Surface(db, l, n) = Store!Surface(db, l, n)
    /\ \A db, c, l : SP!Preferred(db, c, l) = Store!Preferred(db, c, l)
    /\ \A i : SP!Row(i) = Store!Row(i)
    /\ \A n : SP!Key(n) = Store!Key(n)
    /\ \A e : SP!Edge(e) = Store!Edge(e)
    /\ \A l, n : SP!SurfaceGap(l, n) = Store!SurfaceGap(l, n)
    /\ \A c, l : SP!PreferredGap(c, l) = Store!PreferredGap(c, l)
    /\ \A mode, on : SP!Lock(mode, on) = Store!Lock(mode, on)
    /\ \A c, l, n, text, g : SP!TermRow(c, l, n, text, g) = Store!TermRow(c, l, n, text, g)
    /\ SP!Idle = Store!Idle
    /\ \A f, e : SP!Rows(f, e) = Store!Rows(f, e)
BY  DEF SP!Process, Store!Process, SP!Updated, Store!Updated, SP!Only,
     Store!Only, SP!Put, Store!Put, SP!Empty, Store!Empty, SP!NoTx,
     Store!NoTx, SP!Tables, Store!Tables, SP!Over, Store!Over, SP!Current,
     Store!Current, SP!View, Store!View, SP!Surface, Store!Surface,
     SP!Preferred, Store!Preferred, SP!Row, Store!Row, SP!Key, Store!Key,
     SP!Edge, Store!Edge, SP!SurfaceGap, Store!SurfaceGap, SP!PreferredGap,
     Store!PreferredGap, SP!Lock, Store!Lock, SP!TermRow, Store!TermRow,
     SP!Idle, Store!Idle, SP!Rows, Store!Rows

(* What a process is about, at its place.                                  *)
LEMMA SamePlace ==
    /\ \A g : SP!kept(g) = Store!kept(g)
    /\ \A p : SP!label(p) = Store!label(p)
    /\ \A p : SP!norm(p) = Store!norm(p)
    /\ \A p : SP!locale(p) = Store!locale(p)
    /\ \A p : SP!grade(p) = Store!grade(p)
    /\ \A p : SP!edgeOf(p) = Store!edgeOf(p)
    /\ SP!Ids = Store!Ids
    /\ SP!NewId = Store!NewId
    /\ \A n : SP!Exists(n) <=> Store!Exists(n)
    /\ \A e : SP!Linked(e) <=> Store!Linked(e)
    /\ \A p, row : SP!Dirty(p, row) <=> Store!Dirty(p, row)
    /\ \A p, read, row : SP!Enriched(p, read, row) = Store!Enriched(p, read, row)
BY SameData DEF SP!kept, Store!kept, SP!ToSet, Store!ToSet, SP!label,
     Store!label, SP!norm, Store!norm, SP!locale, Store!locale, SP!grade,
     Store!grade, SP!edgeOf, Store!edgeOf, SP!Ids, Store!Ids, SP!NewId,
     Store!NewId, SP!Cardinality, Store!Cardinality, SP!IsFiniteSet,
     Store!IsFiniteSet, SP!Process, Store!Process, SP!Exists, Store!Exists,
     SP!Linked, Store!Linked, SP!Dirty, Store!Dirty, SP!Enriched,
     Store!Enriched

(* The rows that a locking read meets.                                     *)
LEMMA SameMeetings ==
    /\ SP!Versions = Store!Versions
    /\ \A l, n : SP!MetBySurface(l, n) = Store!MetBySurface(l, n)
    /\ \A c, l : SP!MetByConcept(c, l) = Store!MetByConcept(c, l)
    /\ \A wanted, held : SP!Clash(wanted, held) <=> Store!Clash(wanted, held)
    /\ \A mode, rows : SP!All(mode, rows) = Store!All(mode, rows)
BY SameData DEF SP!Versions, Store!Versions, SP!MetBySurface,
     Store!MetBySurface, SP!MetByConcept, Store!MetByConcept, SP!Clash,
     Store!Clash, SP!All, Store!All

(* The locks that a statement takes.                                       *)
LEMMA SameWants ==
    /\ \A p : SP!Wants(p) = Store!Wants(p)
    /\ \A p : SP!Taken(p) = Store!Taken(p)
<1>1. \A p : SP!Wants(p) = Store!Wants(p)
  BY SameData, SamePlace, SameMeetings DEF SP!Wants, Store!Wants
<1>2. \A p : SP!Taken(p) = Store!Taken(p)
  BY <1>1, SameData, SamePlace, SameMeetings DEF SP!Taken, Store!Taken
<1> QED BY <1>1, <1>2

(* Whom it waits for.                                                      *)
LEMMA SameWaits ==
    /\ \A p : SP!WaitsFor(p) = Store!WaitsFor(p)
    /\ \A p : SP!Granted(p) <=> Store!Granted(p)
BY SameWants, SameMeetings, SameData DEF SP!WaitsFor, Store!WaitsFor,
     SP!Granted, Store!Granted

(* And whom, in the end.                                                   *)
LEMMA SameReach ==
    /\ SP!Reach = Store!Reach
BY DEF SP!Process, Store!Process, SP!Tables, Store!Tables, SP!Surface,
     Store!Surface, SP!Preferred, Store!Preferred, SP!Versions,
     Store!Versions, SP!MetBySurface, Store!MetBySurface, SP!MetByConcept,
     Store!MetByConcept, SP!Exists, Store!Exists, SP!Linked, Store!Linked,
     SP!Row, Store!Row, SP!Key, Store!Key, SP!Edge, Store!Edge, SP!SurfaceGap,
     Store!SurfaceGap, SP!PreferredGap, Store!PreferredGap, SP!Lock,
     Store!Lock, SP!Clash, Store!Clash, SP!kept, Store!kept, SP!label,
     Store!label, SP!norm, Store!norm, SP!locale, Store!locale, SP!edgeOf,
     Store!edgeOf, SP!Ids, Store!Ids, SP!NewId, Store!NewId, SP!grade,
     Store!grade, SP!Dirty, Store!Dirty, SP!All, Store!All, SP!Wants,
     Store!Wants, SP!WaitsFor, Store!WaitsFor, SP!Reach, Store!Reach,
     SP!ToSet, Store!ToSet, SP!Cardinality, Store!Cardinality, SP!IsFiniteSet,
     Store!IsFiniteSet

(* So that the deadlocks are the same.                                     *)
LEMMA SameCycle ==
    /\ \A p : SP!InCycle(p) <=> Store!InCycle(p)
<1>1. \A p : SP!InCycle(p) <=> Store!InCycle(p)
  BY SameReach, SameData DEF SP!InCycle, Store!InCycle, SP!Cardinality,
     Store!Cardinality, SP!IsFiniteSet, Store!IsFiniteSet
<1> QED BY <1>1

(* What the steps are made of.                                             *)
LEMMA SameParts ==
    /\ \A p, to : SP!Goto(p, to) <=> Store!Goto(p, to)
    /\ \A p, new : SP!Local(p, new) <=> Store!Local(p, new)
    /\ SP!Stored <=> Store!Stored
    /\ \A p, new : SP!Sets(p, new) <=> Store!Sets(p, new)
    /\ \A p, more : SP!Locks(p, more) = Store!Locks(p, more)
    /\ \A p : SP!JustLocks(p) <=> Store!JustLocks(p)
    /\ \A p, on : SP!Gap(p, on) <=> Store!Gap(p, on)
    /\ \A p, new : SP!Writes(p, new) <=> Store!Writes(p, new)
    /\ \A p, i, row : SP!WritesRow(p, i, row) <=> Store!WritesRow(p, i, row)
    /\ \A p, i : SP!EnrichesLocked(p, i) <=> Store!EnrichesLocked(p, i)
    /\ \A w, c : SP!Found(w, c) <=> Store!Found(w, c)
    /\ \A w, c : SP!FoundIfSeen(w, c) <=> Store!FoundIfSeen(w, c)
    /\ \A p : SP!Attached(p) <=> Store!Attached(p)
    /\ \A w : SP!Undone(w) <=> Store!Undone(w)
    /\ \A p, i : SP!OwnedByOther(p, i) <=> Store!OwnedByOther(p, i)
    /\ \A p, i, row : SP!SavesTerm(p, i, row) <=> Store!SavesTerm(p, i, row)
    /\ \A w : SP!NextEdge(w) <=> Store!NextEdge(w)
    /\ \A w, e, occurrences : SP!WritesEdge(w, e, occurrences) <=> Store!WritesEdge(w, e, occurrences)
    /\ \A p : SP!Ends(p) <=> Store!Ends(p)
<1>1. \A p, to : SP!Goto(p, to) <=> Store!Goto(p, to)
  BY SameData DEF SP!Goto, Store!Goto
<1>2. \A p, new : SP!Local(p, new) <=> Store!Local(p, new)
  BY SameData DEF SP!Local, Store!Local
<1>3. SP!Stored <=> Store!Stored
  BY SameData DEF SP!Stored, Store!Stored
<1>4. \A p, new : SP!Sets(p, new) <=> Store!Sets(p, new)
  BY SameData DEF SP!Sets, Store!Sets
<1>5. \A p, more : SP!Locks(p, more) = Store!Locks(p, more)
  BY SameData, SamePlace, SameMeetings, SameWants, SameWaits DEF SP!Locks,
     Store!Locks
<1>6. \A p : SP!JustLocks(p) <=> Store!JustLocks(p)
  BY <1>4, <1>5, SameData, SamePlace, SameMeetings, SameWants, SameWaits DEF
     SP!JustLocks, Store!JustLocks
<1>7. \A p, on : SP!Gap(p, on) <=> Store!Gap(p, on)
  BY <1>4, <1>5, SameData, SamePlace, SameMeetings, SameWants, SameWaits DEF
     SP!Gap, Store!Gap
<1>8. \A p, new : SP!Writes(p, new) <=> Store!Writes(p, new)
  BY <1>4, <1>5, SameData, SamePlace, SameMeetings, SameWants, SameWaits DEF
     SP!Writes, Store!Writes
<1>9. \A p, i, row : SP!WritesRow(p, i, row) <=> Store!WritesRow(p, i, row)
  BY <1>8, SameData, SamePlace, SameMeetings, SameWants, SameWaits DEF
     SP!WritesRow, Store!WritesRow
<1>10. \A p, i : SP!EnrichesLocked(p, i) <=> Store!EnrichesLocked(p, i)
  BY <1>9, SameData, SamePlace, SameMeetings, SameWants, SameWaits DEF
     SP!EnrichesLocked, Store!EnrichesLocked
<1>11. \A w, c : SP!Found(w, c) <=> Store!Found(w, c)
  BY <1>1, SameData, SamePlace, SameMeetings, SameWants, SameWaits DEF SP!Found,
     Store!Found
<1>12. \A w, c : SP!FoundIfSeen(w, c) <=> Store!FoundIfSeen(w, c)
  BY <1>1, <1>11, SameData, SamePlace, SameMeetings, SameWants, SameWaits DEF
     SP!FoundIfSeen, Store!FoundIfSeen
<1>13. \A p : SP!Attached(p) <=> Store!Attached(p)
  BY <1>1, <1>11, <1>12, SameData, SamePlace, SameMeetings, SameWants, SameWaits
     DEF SP!Attached, Store!Attached
<1>14. \A w : SP!Undone(w) <=> Store!Undone(w)
  BY <1>4, SameData, SamePlace, SameMeetings, SameWants, SameWaits DEF
     SP!Undone, Store!Undone
<1>15. \A p, i : SP!OwnedByOther(p, i) <=> Store!OwnedByOther(p, i)
  BY <1>1, <1>2, <1>6, <1>10, <1>14, SameData, SamePlace, SameMeetings,
     SameWants, SameWaits DEF SP!OwnedByOther, Store!OwnedByOther
<1>16. \A p, i, row : SP!SavesTerm(p, i, row) <=> Store!SavesTerm(p, i, row)
  BY <1>1, <1>6, <1>3, <1>9, <1>13, SameData, SamePlace, SameMeetings,
     SameWants, SameWaits DEF SP!SavesTerm, Store!SavesTerm
<1>17. \A w : SP!NextEdge(w) <=> Store!NextEdge(w)
  BY <1>1, <1>2, SameData, SamePlace, SameMeetings, SameWants, SameWaits DEF
     SP!NextEdge, Store!NextEdge
<1>18. \A w, e, occurrences : SP!WritesEdge(w, e, occurrences) <=> Store!WritesEdge(w, e, occurrences)
  BY <1>8, SameData, SamePlace, SameMeetings, SameWants, SameWaits DEF
     SP!WritesEdge, Store!WritesEdge
<1>19. \A p : SP!Ends(p) <=> Store!Ends(p)
  BY <1>1, SameData, SamePlace, SameMeetings, SameWants, SameWaits DEF SP!Ends,
     Store!Ends
<1> QED BY <1>1, <1>2, <1>3, <1>4, <1>5, <1>6, <1>7, <1>8, <1>9, <1>10, <1>11,
     <1>12, <1>13, <1>14, <1>15, <1>16, <1>17, <1>18, <1>19

(* The steps, one by one.                                                  *)
LEMMA SameNext == SP!Next <=> Store!Next
<1>1. \A w, g : SP!Start(w, g) <=> Store!Start(w, g)
  BY SameData, SamePlace, SameMeetings, SameWants, SameWaits, SameParts DEF
     SP!Start, Store!Start
<1>2. \A w : SP!Find(w) <=> Store!Find(w)
  BY SameData, SamePlace, SameMeetings, SameWants, SameWaits, SameParts DEF
     SP!Find, Store!Find
<1>3. \A w : SP!Enrich(w) <=> Store!Enrich(w)
  BY SameData, SamePlace, SameMeetings, SameWants, SameWaits, SameParts DEF
     SP!Enrich, Store!Enrich
<1>4. \A w : SP!Create(w) <=> Store!Create(w)
  BY SameData, SamePlace, SameMeetings, SameWants, SameWaits, SameParts DEF
     SP!Create, Store!Create
<1>5. \A w : SP!Recover(w) <=> Store!Recover(w)
  BY SameData, SamePlace, SameMeetings, SameWants, SameWaits, SameParts DEF
     SP!Recover, Store!Recover
<1>6. \A w : SP!RecoverKey(w) <=> Store!RecoverKey(w)
  BY SameData, SamePlace, SameMeetings, SameWants, SameWaits, SameParts DEF
     SP!RecoverKey, Store!RecoverKey
<1>7. \A w : SP!LockConcept(w) <=> Store!LockConcept(w)
  BY SameData, SamePlace, SameMeetings, SameWants, SameWaits, SameParts DEF
     SP!LockConcept, Store!LockConcept
<1>8. \A w : SP!InsertEdge(w) <=> Store!InsertEdge(w)
  BY SameData, SamePlace, SameMeetings, SameWants, SameWaits, SameParts DEF
     SP!InsertEdge, Store!InsertEdge
<1>9. \A w : SP!CountEdge(w) <=> Store!CountEdge(w)
  BY SameData, SamePlace, SameMeetings, SameWants, SameWaits, SameParts DEF
     SP!CountEdge, Store!CountEdge, SP!EdgeForUpdate, Store!EdgeForUpdate
<1>10. \A w : SP!StoreStep(w) <=> Store!StoreStep(w)
  BY <1>1, <1>2, <1>3, <1>4, <1>5, <1>6, <1>7, <1>8, <1>9, SameData, SamePlace,
     SameMeetings, SameWants, SameWaits, SameParts DEF SP!StoreStep,
     Store!StoreStep
<1>11. \A p, c, n : SP!Localize(p, c, n) <=> Store!Localize(p, c, n)
  BY SameData, SamePlace, SameMeetings, SameWants, SameWaits, SameParts DEF
     SP!Localize, Store!Localize
<1>12. \A p : SP!LookUp(p) <=> Store!LookUp(p)
  BY SameData, SamePlace, SameMeetings, SameWants, SameWaits, SameParts DEF
     SP!LookUp, Store!LookUp
<1>13. \A p : SP!LockPreferred(p) <=> Store!LockPreferred(p)
  BY SameData, SamePlace, SameMeetings, SameWants, SameWaits, SameParts DEF
     SP!LockPreferred, Store!LockPreferred
<1>14. \A p : SP!Rename(p) <=> Store!Rename(p)
  BY SameData, SamePlace, SameMeetings, SameWants, SameWaits, SameParts DEF
     SP!Rename, Store!Rename
<1>15. \A p : SP!Insert(p) <=> Store!Insert(p)
  BY SameData, SamePlace, SameMeetings, SameWants, SameWaits, SameParts DEF
     SP!Insert, Store!Insert
<1>16. \A p : SP!Commit(p) <=> Store!Commit(p)
  BY SameData, SamePlace, SameMeetings, SameWants, SameWaits, SameParts DEF
     SP!Commit, Store!Commit
<1>17. \A p : SP!Deadlock(p) <=> Store!Deadlock(p)
  BY SameData, SamePlace, SameMeetings, SameWants, SameWaits, SameParts,
     SameCycle DEF SP!Deadlock, Store!Deadlock
<1> QED BY SameData, <1>1, <1>2, <1>3, <1>4, <1>5, <1>6, <1>7, <1>8, <1>9,
     <1>10, <1>11, <1>12, <1>13, <1>14, <1>15, <1>16, <1>17 DEF SP!Next,
     Store!Next

(* The initial states.                                                     *)
LEMMA SameInit == SP!Init <=> Store!Init
BY DEF SP!Init, Store!Init, SP!Only, Store!Only, SP!Empty, Store!Empty, SP!Idle, Store!Idle,
       SP!Process, Store!Process, SP!NoTx, Store!NoTx, SP!TermRow, Store!TermRow,
       SP!InitialRow, Store!InitialRow

(* What is asked of the graphs.                                            *)
LEMMA SameParameters == SP!StoreParameters <=> Store!StoreParameters
BY SameData DEF SP!StoreParameters, Store!StoreParameters, SP!IsFiniteSet, Store!IsFiniteSet

(* The invariant.                                                          *)
LEMMA SameSound == SP!StoreIsSound <=> Store!StoreIsSound
<1>1. SP!OnePreferred <=> Store!OnePreferred
  BY DEF SP!OnePreferred, Store!OnePreferred
<1>2. SP!EdgesAreCounted <=> Store!EdgesAreCounted
  BY DEF SP!EdgesAreCounted, Store!EdgesAreCounted
<1>3. SP!NobodyFails <=> Store!NobodyFails
  BY SameData DEF SP!NobodyFails, Store!NobodyFails
<1>4. SP!NamedInEnglish <=> Store!NamedInEnglish
  BY SameData DEF SP!NamedInEnglish, Store!NamedInEnglish
<1> QED BY <1>1, <1>2, <1>3, <1>4 DEF SP!StoreIsSound, Store!StoreIsSound

-----------------------------------------------------------------------------
(* However many jobs store graphs and translations at once: a concept has  *)
(* one preferred term in a language, each sighting of an edge is counted   *)
(* once, nobody fails to find what another has stored, and the concept     *)
(* that a label was stored for is there, with an English term              *)
(* (ConceptGraphStore, ConceptCanonicalizer).                              *)
THEOREM StoreCorrect == PartsSpec => []StoreIsSound
<1>1. SP!StoreParameters
  BY StoreAssumption, SameParameters
<1>2. PartsInit => SP!Init
  BY SameInit DEF PartsInit
<1>3. [PartsNext]_allVars => [SP!Next]_(SP!vars)
  BY SameNext DEF PartsNext, allVars, storeVars, SP!vars
<1>4. PartsInit /\ [][PartsNext]_allVars => SP!Spec
  BY <1>2, <1>3, PTL DEF SP!Spec
<1>5. SP!StoreIsSound => StoreIsSound
  BY SameSound DEF StoreIsSound
<1>6. SP!Spec => []SP!StoreIsSound
  BY <1>1, SP!StoreSound
<1> QED BY <1>4, <1>5, <1>6, PTL DEF PartsSpec
=============================================================================
