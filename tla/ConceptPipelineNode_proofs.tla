----------------------- MODULE ConceptPipelineNode_proofs ----------------------
(***************************************************************************)
(* What holds of a node and its jobs for every number of workers, locales, *)
(* attempts, deaths and retries: first that one job of a node is alive,    *)
(* then that the chain of its jobs is sound.                               *)
(***************************************************************************)
EXTENDS ConceptPipelineNode, TLAPS

-----------------------------------------------------------------------------
(* A worker inside a localize handler executes a localize job.              *)
AtItsStage ==
    \A w \in Worker : pc[w] = "localize" => StageNow(w) = "localize"

IInv == TypeOK /\ AtItsStage

-----------------------------------------------------------------------------
(* Positions in a chain.                                                   *)

(* A chain has a job of each stage.                                        *)
LEMMA LastType == Last \in Nat /\ Last >= 3
BY NodeAssumption DEF Last, LocalizeJobs

(* A chain between two positions is a job that can be queued.              *)
LEMMA ChainType ==
    ASSUME NEW i \in 1..Last, NEW j \in 1..Last, i <= j
    PROVE  Chain(i, j) \in Job
BY NodeAssumption DEF Chain, Job

(* What an idle worker holds.                                              *)
LEMMA NoJobType == NoJob \in Job
BY LastType, ChainType DEF NoJob

(* The next attempt, and the next job of a chain.                          *)
LEMMA JobType ==
    ASSUME NEW j \in Job
    PROVE  /\ j.at \in 1..Last /\ j.end \in 1..Last /\ j.at <= j.end
           /\ j.tried \in 0..Tries
           /\ j.tried # Tries => [j EXCEPT !.tried = @ + 1] \in Job
           /\ j.at < j.end => Chain(j.at + 1, j.end) \in Job
<1>1. /\ j.at \in 1..Last /\ j.end \in 1..Last /\ j.at <= j.end
      /\ j.tried \in 0..Tries
  BY DEF Job
<1>2. ASSUME j.tried # Tries PROVE [j EXCEPT !.tried = @ + 1] \in Job
  BY <1>2, NodeAssumption DEF Job
<1>3. ASSUME j.at < j.end PROVE Chain(j.at + 1, j.end) \in Job
  <2>1. j.at + 1 \in 1..Last /\ j.at + 1 <= j.end
    BY <1>1, <1>3, LastType
  <2> QED BY <1>1, <2>1, ChainType
<1> QED BY <1>1, <1>2, <1>3

(* The columns a handler writes.                                           *)
LEMMA ColumnTypes ==
    /\ {Fresh, Processing, Succeeded, Failed, Nothing, Cut} \subseteq Column
    /\ \A old, loaded, new \in Column : Written(old, loaded, new) \in Column
BY DEF Column, Status, Terminal, Error, Fresh, Processing, Succeeded, Failed,
       Nothing, Cut, Written

(* markStage() and skipPendingStages() keep the row's type.                *)
LEMMA MarkStageType ==
    ASSUME TypeOK, NEW w \in Worker, NEW s \in Stage, NEW new \in Column,
           MarkStage(w, s, new)
    PROVE  row' \in [Stage -> Column]
BY ColumnTypes DEF TypeOK, MarkStage

(* The same of the copy a handler loads and marks first,                   *)
LEMMA LoadAndMarkType ==
    ASSUME TypeOK, NEW w \in Worker, NEW s \in Stage, NEW new \in Column,
           LoadAndMark(w, s, new)
    PROVE  /\ row' \in [Stage -> Column]
           /\ mem' \in [Worker -> [Stage -> Column]]
           /\ known' \in [Worker -> BOOLEAN]
BY DEF TypeOK, LoadAndMark

(* and of the stages it cuts off.                                          *)
LEMMA SkipPendingStagesType ==
    ASSUME TypeOK, NEW w \in Worker, SkipPendingStages(w)
    PROVE  row' \in [Stage -> Column]
BY ColumnTypes DEF TypeOK, SkipPendingStages

(* The end of a handler.                                                   *)
LEMMA ForgetType ==
    ASSUME TypeOK, NEW w \in Worker, Forget(w)
    PROVE  /\ mem' \in [Worker -> [Stage -> Column]]
           /\ known' \in [Worker -> BOOLEAN]
BY ColumnTypes DEF TypeOK, Forget, NoMem

(* A queued job, and a worker without one.                                 *)
LEMMA EnqueueType ==
    ASSUME TypeOK, NEW j \in Job, Enqueue(j)
    PROVE  queue' \in [Job -> Nat]
BY DEF TypeOK, Enqueue

(* The worker is done with its job.                                        *)
LEMMA BecomeIdleType ==
    ASSUME TypeOK, NEW w \in Worker, BecomeIdle(w)
    PROVE  /\ pc' \in [Worker -> PC] /\ job' \in [Worker -> Job]
           /\ mem' \in [Worker -> [Stage -> Column]]
           /\ known' \in [Worker -> BOOLEAN]
BY NoJobType, ForgetType DEF TypeOK, BecomeIdle, Goto, PC

(* retryStage() dispatches a chain that starts at the failed stage.        *)
LEMMA RetryChainType ==
    ASSUME NEW s \in Stage, NEW t \in Stage, StageIndex(s) <= StageIndex(t)
    PROVE  Chain(FirstOf(s), LastOf(t)) \in Job
<1>1. /\ FirstOf(s) \in 1..Last /\ LastOf(t) \in 1..Last
      /\ FirstOf(s) <= LastOf(t)
  BY LastType DEF Stage, StageIndex, FirstOf, LastOf
<1> QED BY <1>1, ChainType

(* The stages it resets are an interval, and it has a last one.            *)
LEMMA ResetHasLast ==
    ASSUME NEW s \in Stage
    PROVE  \E t \in ResetBy(s) :
               \A u \in ResetBy(s) : StageIndex(u) <= StageIndex(t)
<1>1. s \in ResetBy(s) /\ ResetBy(s) \subseteq Stage
  BY DEF ResetBy, StageIndex, Stage
<1>2. CASE "complete_info" \in ResetBy(s)
  BY <1>1, <1>2 DEF StageIndex, Stage
<1>3. CASE "complete_info" \notin ResetBy(s) /\ "localize" \in ResetBy(s)
  BY <1>1, <1>3 DEF StageIndex, Stage
<1>4. CASE "complete_info" \notin ResetBy(s) /\ "localize" \notin ResetBy(s)
  BY <1>1, <1>4 DEF StageIndex, Stage
<1> QED BY <1>2, <1>3, <1>4

-----------------------------------------------------------------------------
(* dispatch() and enqueueNodeChain() establish the invariant.              *)
LEMMA InitType == Init => IInv
<1> SUFFICES ASSUME Init PROVE IInv
  OBVIOUS
<1>1. Chain(1, Last) \in Job /\ NoJob \in Job
  BY LastType, ChainType, NoJobType
<1>2. TypeOK
  <2>1. /\ row \in [Stage -> Column] /\ NoMem \in [Stage -> Column]
        /\ queue \in [Job -> Nat]
    BY ColumnTypes DEF Init, NoMem
  <2>2. concept \in BOOLEAN /\ hasty \in BOOLEAN
    BY NodeAssumption DEF Init
  <2>3. /\ pc \in [Worker -> PC] /\ job \in [Worker -> Job]
        /\ mem \in [Worker -> [Stage -> Column]]
        /\ known \in [Worker -> BOOLEAN]
    BY <1>1, <2>1 DEF Init, PC
  <2>4. /\ requeue \subseteq Job /\ served \subseteq 2..(Last - 1)
        /\ kills \in 0..MaxKills /\ retries \in 0..MaxRetries
        /\ lost \in 0..MaxLost
    BY NodeAssumption DEF Init
  <2> QED BY <2>1, <2>2, <2>3, <2>4 DEF TypeOK
<1>3. AtItsStage
  BY DEF Init, AtItsStage
<1> QED BY <1>2, <1>3 DEF IInv

(* Every step keeps the types.                                             *)
LEMMA StepType == IInv /\ [Next]_vars => TypeOK'
<1> SUFFICES ASSUME IInv, [Next]_vars PROVE TypeOK'
  OBVIOUS
<1>0. /\ TypeOK /\ AtItsStage /\ NoJob \in Job
      /\ {Fresh, Processing, Succeeded, Failed, Nothing, Cut} \subseteq Column
      /\ Stage = {"generate", "localize", "complete_info"}
  BY NoJobType, ColumnTypes DEF IInv, Stage
<1> USE <1>0, NodeAssumption DEF PC, Goto, bounds, ghosts
<1>1. ASSUME NEW w \in Worker, NEW j \in Job, Pop(w, j) PROVE TypeOK'
  <2>1. job' \in [Worker -> Job]
    BY <1>1, JobType DEF TypeOK, Pop
  <2>2. queue' \in [Job -> Nat]
    BY <1>1 DEF TypeOK, Pop
  <2> QED BY <1>1, <2>1, <2>2 DEF TypeOK, Pop
<1>2. ASSUME NEW w \in Worker, GenerateStart(w) PROVE TypeOK'
  <2>1. /\ row' \in [Stage -> Column]
        /\ mem' \in [Worker -> [Stage -> Column]]
        /\ known' \in [Worker -> BOOLEAN]
    BY <1>2, LoadAndMarkType DEF GenerateStart
  <2> QED BY <1>2, <2>1 DEF TypeOK, GenerateStart
<1>3. ASSUME NEW w \in Worker, GenerateSkips(w) PROVE TypeOK'
  <2>1. row' \in [Stage -> Column]
    BY <1>3, MarkStageType DEF GenerateSkips
  <2>2. /\ mem' \in [Worker -> [Stage -> Column]]
        /\ known' \in [Worker -> BOOLEAN]
    BY <1>3, ForgetType DEF GenerateSkips, Return
  <2> QED BY <1>3, <2>1, <2>2 DEF TypeOK, GenerateSkips, Return
<1>4. ASSUME NEW w \in Worker, GenerateStores(w) PROVE TypeOK'
  BY <1>4 DEF TypeOK, GenerateStores
<1>5. ASSUME NEW w \in Worker, GenerateSucceeds(w) PROVE TypeOK'
  <2>1. row' \in [Stage -> Column]
    BY <1>5, MarkStageType DEF GenerateSucceeds
  <2>2. /\ mem' \in [Worker -> [Stage -> Column]]
        /\ known' \in [Worker -> BOOLEAN]
    BY <1>5, ForgetType DEF GenerateSucceeds, Return
  <2> QED BY <1>5, <2>1, <2>2 DEF TypeOK, GenerateSucceeds, Return
<1>6. ASSUME NEW w \in Worker, GenerateRetries(w) PROVE TypeOK'
  <2>1. BecomeIdle(w) /\ Enqueue(job[w]) /\ job[w] \in Job
    BY <1>6 DEF TypeOK, GenerateRetries, Release
  <2>2. queue' \in [Job -> Nat]
    BY <2>1, EnqueueType
  <2>3. /\ pc' \in [Worker -> PC] /\ job' \in [Worker -> Job]
        /\ mem' \in [Worker -> [Stage -> Column]]
        /\ known' \in [Worker -> BOOLEAN]
    BY <2>1, BecomeIdleType
  <2> QED BY <1>6, <2>2, <2>3 DEF TypeOK, GenerateRetries
<1>7. ASSUME NEW w \in Worker, GenerateFails(w) PROVE TypeOK'
  <2>1. row' \in [Stage -> Column]
    BY <1>7, MarkStageType DEF GenerateFails
  <2> QED BY <1>7, <2>1 DEF TypeOK, GenerateFails
<1>8. ASSUME NEW w \in Worker, CutRest(w) PROVE TypeOK'
  <2>1. row' \in [Stage -> Column]
    BY <1>8, SkipPendingStagesType DEF CutRest
  <2>2. /\ mem' \in [Worker -> [Stage -> Column]]
        /\ known' \in [Worker -> BOOLEAN]
    BY <1>8, ForgetType DEF CutRest
  <2> QED BY <1>8, <2>1, <2>2 DEF TypeOK, CutRest
<1>9. ASSUME NEW w \in Worker, LocalizeStart(w) PROVE TypeOK'
  <2>1. CASE Return(w) /\ UNCHANGED row
    <3>1. /\ mem' \in [Worker -> [Stage -> Column]]
        /\ known' \in [Worker -> BOOLEAN]
      BY <2>1, ForgetType DEF Return
    <3> QED BY <1>9, <2>1, <3>1 DEF TypeOK, LocalizeStart, Return
  <2>2. CASE ~(Return(w) /\ UNCHANGED row)
    <3>1. /\ row' \in [Stage -> Column]
          /\ mem' \in [Worker -> [Stage -> Column]]
        /\ known' \in [Worker -> BOOLEAN]
      BY <1>9, <2>2, LoadAndMarkType DEF LocalizeStart
    <3> QED BY <1>9, <2>2, <3>1 DEF TypeOK, LocalizeStart
  <2> QED BY <2>1, <2>2
<1>10. ASSUME NEW w \in Worker, LocalizeSkips(w) PROVE TypeOK'
  <2>1. row' \in [Stage -> Column]
    BY <1>10, MarkStageType DEF LocalizeSkips
  <2>2. /\ mem' \in [Worker -> [Stage -> Column]]
        /\ known' \in [Worker -> BOOLEAN]
    BY <1>10, ForgetType DEF LocalizeSkips, Return
  <2> QED BY <1>10, <2>1, <2>2 DEF TypeOK, LocalizeSkips, Return
<1>11. ASSUME NEW w \in Worker, LocalizeSucceeds(w) PROVE TypeOK'
  <2>1. row' \in [Stage -> Column]
    BY <1>11, MarkStageType DEF LocalizeSucceeds, TypeOK
  <2>2. /\ mem' \in [Worker -> [Stage -> Column]]
        /\ known' \in [Worker -> BOOLEAN]
    BY <1>11, ForgetType DEF LocalizeSucceeds, Return
  <2>3. job[w].at \in 2..(Last - 1)
    <3>1. StageOf(job[w].at) = "localize" /\ job[w] \in Job
      BY <1>11 DEF LocalizeSucceeds, TypeOK, AtItsStage, StageNow
    <3>2. job[w].at \in 1..Last /\ job[w].at # 1 /\ job[w].at # Last
      BY <3>1, JobType DEF StageOf
    <3> QED BY <3>2, LastType
  <2>4. served' \subseteq 2..(Last - 1)
    BY <1>11, <2>3 DEF TypeOK, LocalizeSucceeds
  <2> QED BY <1>11, <2>1, <2>2, <2>4 DEF TypeOK, LocalizeSucceeds, Return
<1>12. ASSUME NEW w \in Worker, LocalizeRetries(w) PROVE TypeOK'
  <2>1. BecomeIdle(w) /\ Enqueue(job[w]) /\ job[w] \in Job
    BY <1>12 DEF TypeOK, LocalizeRetries, Release
  <2>2. queue' \in [Job -> Nat]
    BY <2>1, EnqueueType
  <2>3. /\ pc' \in [Worker -> PC] /\ job' \in [Worker -> Job]
        /\ mem' \in [Worker -> [Stage -> Column]]
        /\ known' \in [Worker -> BOOLEAN]
    BY <2>1, BecomeIdleType
  <2> QED BY <1>12, <2>2, <2>3 DEF TypeOK, LocalizeRetries
<1>13. ASSUME NEW w \in Worker, LocalizeFails(w) PROVE TypeOK'
  <2>1. row' \in [Stage -> Column]
    BY <1>13, MarkStageType DEF LocalizeFails
  <2> QED BY <1>13, <2>1 DEF TypeOK, LocalizeFails
<1>14. ASSUME NEW w \in Worker, CompleteStart(w) PROVE TypeOK'
  <2>1. CASE Return(w) /\ UNCHANGED row
    <3>1. /\ mem' \in [Worker -> [Stage -> Column]]
        /\ known' \in [Worker -> BOOLEAN]
      BY <2>1, ForgetType DEF Return
    <3> QED BY <1>14, <2>1, <3>1 DEF TypeOK, CompleteStart, Return
  <2>2. CASE ~(Return(w) /\ UNCHANGED row)
    <3>1. /\ row' \in [Stage -> Column]
          /\ mem' \in [Worker -> [Stage -> Column]]
        /\ known' \in [Worker -> BOOLEAN]
      BY <1>14, <2>2, LoadAndMarkType DEF CompleteStart
    <3> QED BY <1>14, <2>2, <3>1 DEF TypeOK, CompleteStart
  <2> QED BY <2>1, <2>2
<1>15. ASSUME NEW w \in Worker, CompleteSkips(w) PROVE TypeOK'
  <2>1. row' \in [Stage -> Column]
    BY <1>15, MarkStageType DEF CompleteSkips
  <2>2. /\ mem' \in [Worker -> [Stage -> Column]]
        /\ known' \in [Worker -> BOOLEAN]
    BY <1>15, ForgetType DEF CompleteSkips, Return
  <2> QED BY <1>15, <2>1, <2>2 DEF TypeOK, CompleteSkips, Return
<1>16. ASSUME NEW w \in Worker, CompleteReturns(w) PROVE TypeOK'
  <2>1. row' \in [Stage -> Column]
    BY <1>16, MarkStageType DEF CompleteReturns
  <2>2. /\ mem' \in [Worker -> [Stage -> Column]]
        /\ known' \in [Worker -> BOOLEAN]
    BY <1>16, ForgetType DEF CompleteReturns, Return
  <2> QED BY <1>16, <2>1, <2>2 DEF TypeOK, CompleteReturns, Return
<1>17. ASSUME NEW w \in Worker, CompleteThrows(w) PROVE TypeOK'
  <2>1. row' \in [Stage -> Column]
    BY <1>17, MarkStageType DEF CompleteThrows
  <2>2. /\ mem' \in [Worker -> [Stage -> Column]]
        /\ known' \in [Worker -> BOOLEAN]
    BY <1>17, ForgetType DEF CompleteThrows
  <2> QED BY <1>17, <2>1, <2>2 DEF TypeOK, CompleteThrows
<1>18. ASSUME NEW w \in Worker, CompleteRethrown(w) PROVE TypeOK'
  <2>1. CASE Release(w)
    <3>1. BecomeIdle(w) /\ Enqueue(job[w]) /\ job[w] \in Job
      BY <2>1 DEF TypeOK, Release
    <3>2. queue' \in [Job -> Nat]
      BY <3>1, EnqueueType
    <3>3. /\ pc' \in [Worker -> PC] /\ job' \in [Worker -> Job]
        /\ mem' \in [Worker -> [Stage -> Column]]
        /\ known' \in [Worker -> BOOLEAN]
      BY <3>1, BecomeIdleType
    <3> QED BY <1>18, <3>2, <3>3 DEF TypeOK, CompleteRethrown
  <2>2. CASE ~Release(w)
    BY <1>18, <2>2 DEF TypeOK, CompleteRethrown
  <2> QED BY <2>1, <2>2
<1>19. ASSUME NEW w \in Worker, DispatchNext(w) PROVE TypeOK'
  <2>1. queue' \in [Job -> Nat]
    BY <1>19, JobType, EnqueueType DEF TypeOK, DispatchNext
  <2> QED BY <1>19, <2>1 DEF TypeOK, DispatchNext
<1>20. ASSUME NEW w \in Worker, Ack(w) PROVE TypeOK'
  <2>1. /\ mem' \in [Worker -> [Stage -> Column]]
        /\ known' \in [Worker -> BOOLEAN]
    BY <1>20, ForgetType DEF Ack, BecomeIdle
  <2> QED BY <1>20, <2>1 DEF TypeOK, Ack, BecomeIdle
<1>21. ASSUME NEW w \in Worker, FailJob(w) PROVE TypeOK'
  <2>1. CASE BecomeIdle(w)
    <3>1. /\ mem' \in [Worker -> [Stage -> Column]]
        /\ known' \in [Worker -> BOOLEAN]
      BY <2>1, ForgetType DEF BecomeIdle
    <3>2. row' \in [Stage -> Column]
      BY <1>21, LoadAndMarkType DEF FailJob, TypeOK, StageNow, StageOf
    <3> QED BY <1>21, <2>1, <3>1, <3>2 DEF TypeOK, FailJob, BecomeIdle
  <2>2. CASE ~BecomeIdle(w)
    <3>1. /\ row' \in [Stage -> Column]
          /\ mem' \in [Worker -> [Stage -> Column]]
        /\ known' \in [Worker -> BOOLEAN]
      BY <1>21, <2>2, LoadAndMarkType DEF FailJob, StageNow, StageOf
    <3> QED BY <1>21, <2>2, <3>1 DEF TypeOK, FailJob
  <2> QED BY <2>1, <2>2
<1>22. ASSUME NEW w \in Worker, FailedHookSkips(w) PROVE TypeOK'
  <2>1. row' \in [Stage -> Column]
    BY <1>22, SkipPendingStagesType DEF FailedHookSkips
  <2>2. /\ mem' \in [Worker -> [Stage -> Column]]
        /\ known' \in [Worker -> BOOLEAN]
    BY <1>22, ForgetType DEF FailedHookSkips, BecomeIdle
  <2> QED BY <1>22, <2>1, <2>2 DEF TypeOK, FailedHookSkips, BecomeIdle
<1>23. ASSUME NEW w \in Worker, Timeout(w) PROVE TypeOK'
  <2>1. /\ mem' \in [Worker -> [Stage -> Column]]
        /\ known' \in [Worker -> BOOLEAN]
    BY <1>23, ForgetType DEF Timeout
  <2> QED BY <1>23, <2>1 DEF TypeOK, Timeout
<1>24. ASSUME NEW w \in Worker, Kill(w) PROVE TypeOK'
  <2>1. BecomeIdle(w) /\ job[w] \in Job
    BY <1>24 DEF TypeOK, Kill
  <2>2. /\ pc' \in [Worker -> PC] /\ job' \in [Worker -> Job]
        /\ mem' \in [Worker -> [Stage -> Column]]
        /\ known' \in [Worker -> BOOLEAN]
    BY <2>1, BecomeIdleType
  <2>3. queue' \in [Job -> Nat]
    BY <1>24, <2>1, EnqueueType DEF TypeOK, Kill
  <2>4. kills' \in 0..MaxKills
    BY <1>24 DEF TypeOK, Kill
  <2> QED BY <1>24, <2>2, <2>3, <2>4 DEF TypeOK, Kill
<1>25. ASSUME NEW s \in Stage, RetryStage(s) PROVE TypeOK'
  <2> DEFINE final == CHOOSE t \in ResetBy(s) :
                        \A u \in ResetBy(s) : StageIndex(u) <= StageIndex(t)
  <2>1. final \in ResetBy(s)
    BY ResetHasLast
  <2>2. final \in Stage /\ StageIndex(s) <= StageIndex(final)
    BY <2>1 DEF ResetBy
  <2>3. Chain(FirstOf(s), LastOf(final)) \in Job
    BY <2>2, RetryChainType
  <2>4. requeue' \subseteq Job
    BY <1>25, <2>3 DEF RetryStage
  <2>5. row' \in [Stage -> Column] /\ retries' \in 0..MaxRetries
    BY <1>25 DEF RetryStage, TypeOK
  <2>6. hasty' \in BOOLEAN
    BY <1>25 DEF RetryStage, TypeOK, NoLiveJob
  <2> QED BY <1>25, <2>4, <2>5, <2>6 DEF TypeOK, RetryStage
<1>26. CASE DispatchRetry
  <2>1. PICK j \in requeue : Enqueue(j) /\ requeue' = requeue \ {j}
    BY <1>26 DEF DispatchRetry
  <2>2. queue' \in [Job -> Nat]
    BY <2>1, EnqueueType DEF TypeOK
  <2> QED BY <1>26, <2>1, <2>2 DEF TypeOK, DispatchRetry
<1>27. CASE LoseRetry
  BY <1>27 DEF TypeOK, LoseRetry
<1>28. CASE UNCHANGED vars
  BY <1>28 DEF TypeOK, vars
<1> QED
  BY <1>1, <1>2, <1>3, <1>4, <1>5, <1>6, <1>7, <1>8, <1>9, <1>10, <1>11,
     <1>12, <1>13, <1>14, <1>15, <1>16, <1>17, <1>18, <1>19, <1>20, <1>21,
     <1>22, <1>23, <1>24, <1>25, <1>26, <1>27, <1>28
     DEF Next, WorkerStep, Generate, Localize, CompleteInfo

(* Only LocalizeStart enters a localize handler.                           *)
LEMMA StepAtItsStage == IInv /\ [Next]_vars => AtItsStage'
<1> SUFFICES ASSUME IInv, [Next]_vars PROVE AtItsStage'
  OBVIOUS
<1> USE DEF IInv, TypeOK, AtItsStage, StageNow, Goto, BecomeIdle, Return,
            Release, ghosts
<1>1. ASSUME NEW w \in Worker, NEW j \in Job, Pop(w, j) PROVE AtItsStage'
  BY <1>1 DEF Pop
<1>2. ASSUME NEW w \in Worker, GenerateStart(w) PROVE AtItsStage'
  BY <1>2 DEF GenerateStart
<1>3. ASSUME NEW w \in Worker, GenerateSkips(w) PROVE AtItsStage'
  BY <1>3 DEF GenerateSkips
<1>4. ASSUME NEW w \in Worker, GenerateStores(w) PROVE AtItsStage'
  BY <1>4 DEF GenerateStores
<1>5. ASSUME NEW w \in Worker, GenerateSucceeds(w) PROVE AtItsStage'
  BY <1>5 DEF GenerateSucceeds
<1>6. ASSUME NEW w \in Worker, GenerateRetries(w) PROVE AtItsStage'
  BY <1>6 DEF GenerateRetries
<1>7. ASSUME NEW w \in Worker, GenerateFails(w) PROVE AtItsStage'
  BY <1>7 DEF GenerateFails
<1>8. ASSUME NEW w \in Worker, CutRest(w) PROVE AtItsStage'
  BY <1>8 DEF CutRest
<1>9. ASSUME NEW w \in Worker, LocalizeStart(w) PROVE AtItsStage'
  BY <1>9 DEF LocalizeStart
<1>10. ASSUME NEW w \in Worker, LocalizeSkips(w) PROVE AtItsStage'
  BY <1>10 DEF LocalizeSkips
<1>11. ASSUME NEW w \in Worker, LocalizeSucceeds(w) PROVE AtItsStage'
  BY <1>11 DEF LocalizeSucceeds
<1>12. ASSUME NEW w \in Worker, LocalizeRetries(w) PROVE AtItsStage'
  BY <1>12 DEF LocalizeRetries
<1>13. ASSUME NEW w \in Worker, LocalizeFails(w) PROVE AtItsStage'
  BY <1>13 DEF LocalizeFails
<1>14. ASSUME NEW w \in Worker, CompleteStart(w) PROVE AtItsStage'
  BY <1>14 DEF CompleteStart
<1>15. ASSUME NEW w \in Worker, CompleteSkips(w) PROVE AtItsStage'
  BY <1>15 DEF CompleteSkips
<1>16. ASSUME NEW w \in Worker, CompleteReturns(w) PROVE AtItsStage'
  BY <1>16 DEF CompleteReturns
<1>17. ASSUME NEW w \in Worker, CompleteThrows(w) PROVE AtItsStage'
  BY <1>17 DEF CompleteThrows
<1>18. ASSUME NEW w \in Worker, CompleteRethrown(w) PROVE AtItsStage'
  BY <1>18 DEF CompleteRethrown
<1>19. ASSUME NEW w \in Worker, DispatchNext(w) PROVE AtItsStage'
  BY <1>19 DEF DispatchNext
<1>20. ASSUME NEW w \in Worker, Ack(w) PROVE AtItsStage'
  BY <1>20 DEF Ack
<1>21. ASSUME NEW w \in Worker, FailJob(w) PROVE AtItsStage'
  BY <1>21 DEF FailJob
<1>22. ASSUME NEW w \in Worker, FailedHookSkips(w) PROVE AtItsStage'
  BY <1>22 DEF FailedHookSkips
<1>23. ASSUME NEW w \in Worker, Timeout(w) PROVE AtItsStage'
  BY <1>23 DEF Timeout
<1>24. ASSUME NEW w \in Worker, Kill(w) PROVE AtItsStage'
  BY <1>24 DEF Kill
<1>25. ASSUME NEW s \in Stage, RetryStage(s) PROVE AtItsStage'
  BY <1>25 DEF RetryStage
<1>26. CASE DispatchRetry
  BY <1>26 DEF DispatchRetry
<1>27. CASE LoseRetry
  BY <1>27 DEF LoseRetry
<1>28. CASE UNCHANGED vars
  BY <1>28 DEF vars
<1> QED
  BY <1>1, <1>2, <1>3, <1>4, <1>5, <1>6, <1>7, <1>8, <1>9, <1>10, <1>11,
     <1>12, <1>13, <1>14, <1>15, <1>16, <1>17, <1>18, <1>19, <1>20, <1>21,
     <1>22, <1>23, <1>24, <1>25, <1>26, <1>27, <1>28
     DEF Next, WorkerStep, Generate, Localize, CompleteInfo

(* The inductive invariant, and with it the types.                         *)
THEOREM Inductive == Spec => []IInv
<1>1. Init => IInv
  BY InitType
<1>2. IInv /\ [Next]_vars => IInv'
  BY StepType, StepAtItsStage DEF IInv
<1> QED BY <1>1, <1>2, PTL DEF Spec

(* The variables of a node keep their types: in particular every queued job *)
(* is an interval of the chain with at most `tries` attempts behind it, and *)
(* every chain that retryStage() dispatches is one.                         *)
THEOREM TypeCorrect == Spec => []TypeOK
<1>1. IInv => TypeOK
  BY DEF IInv
<1> QED BY <1>1, Inductive, PTL

-----------------------------------------------------------------------------
(* One live job.  Whatever may lead to work on the node is a token: a job in*)
(* the queue, a worker that executes one, a chain a retry has yet to        *)
(* dispatch.  Without deaths and hasty retries there is at most one token.  *)

OneToken ==
    /\ \A j \in Job : queue[j] <= 1
    /\ \A i, j \in Job : queue[i] > 0 /\ queue[j] > 0 => i = j
    /\ \A v, w \in Worker : Executing(v) /\ Executing(w) => v = w
    /\ \A i, j \in requeue : i = j
    /\ \A w \in Worker, j \in Job : Executing(w) => queue[j] = 0
    /\ \A w \in Worker : Executing(w) => requeue = {}
    /\ \A j \in Job : queue[j] > 0 => requeue = {}

(* A worker hands its token on: it stops executing and queues at most one   *)
(* job, or it goes on executing and queues none.                            *)
HandsOn(w) ==
    /\ Executing(w)
    /\ \A v \in Worker \ {w} : pc'[v] = pc[v]
    /\ UNCHANGED requeue
    /\ \/ UNCHANGED queue
       \/ /\ ~Executing(w)'
          /\ \E j \in Job : Enqueue(j)

(* Handing a token on never makes two of one.                              *)
LEMMA HandsOnKeepsOne ==
    ASSUME TypeOK, OneToken, NEW w \in Worker, HandsOn(w)
    PROVE  OneToken'
<1>1. /\ \A j \in Job : queue[j] = 0
      /\ requeue = {} /\ requeue' = {}
      /\ \A v \in Worker \ {w} : ~Executing(v)
  BY DEF OneToken, HandsOn
<1>2. \A v \in Worker \ {w} : ~Executing(v)'
  BY <1>1 DEF HandsOn, Executing
<1>3. CASE UNCHANGED queue
  BY <1>1, <1>2, <1>3 DEF OneToken
<1>4. CASE ~Executing(w)' /\ \E j \in Job : Enqueue(j)
  <2>1. PICK j \in Job : Enqueue(j)
    BY <1>4
  <2>2. \A i \in Job : queue'[i] = IF i = j THEN 1 ELSE 0
    BY <1>1, <2>1 DEF Enqueue, TypeOK
  <2>3. \A v \in Worker : ~Executing(v)'
    BY <1>2, <1>4
  <2> QED BY <1>1, <2>2, <2>3 DEF OneToken
<1> QED BY <1>3, <1>4 DEF HandsOn

(* Deaths and hasty retries are remembered.                                 *)
LEMMA RestlessForGood ==
    ASSUME TypeOK, [Next]_vars, Calm'
    PROVE  Calm /\ (\A w \in Worker : ~Kill(w))
                /\ (\A s \in Stage : RetryStage(s) => NoLiveJob)
<1> USE DEF Calm
<1>1. ASSUME NEW w \in Worker, Kill(w) PROVE FALSE
  <2>1. kills' = kills + 1 /\ kills \in Nat
    BY <1>1, NodeAssumption DEF Kill, TypeOK
  <2> QED BY <2>1
<1>2. ASSUME NEW s \in Stage, RetryStage(s)
      PROVE  NoLiveJob /\ ~hasty /\ kills' = kills
  BY <1>2, Zenon DEF RetryStage
<1>3. CASE (\A w \in Worker : ~Kill(w)) /\ (\A s \in Stage : ~RetryStage(s))
  <2>1. UNCHANGED <<kills, hasty>>
    BY <1>3 DEF Next, WorkerStep, Generate, Localize, CompleteInfo, vars, Pop,
                GenerateStart, GenerateSkips, GenerateStores,
                GenerateSucceeds, GenerateRetries, GenerateFails, CutRest,
                LocalizeStart, LocalizeSkips, LocalizeSucceeds,
                LocalizeRetries, LocalizeFails, CompleteStart, CompleteSkips,
                CompleteReturns, CompleteThrows, CompleteRethrown,
                DispatchNext, Ack, FailJob, FailedHookSkips, Timeout,
                DispatchRetry, LoseRetry, ghosts, bounds
  <2> QED BY <1>3, <2>1
<1> QED BY <1>1, <1>2, <1>3

(* Every step of a calm node keeps at most one token.                      *)
LEMMA StepOneToken ==
    ASSUME IInv, OneToken, [Next]_vars, Calm'
    PROVE  OneToken'
<1>0. TypeOK /\ Stage = {"generate", "localize", "complete_info"}
  BY DEF IInv, Stage
<1> USE <1>0 DEF Goto, BecomeIdle, Return, Release, bounds, ghosts
<1>1. ASSUME NEW w \in Worker, NEW j \in Job, Pop(w, j) PROVE OneToken'
  <2>1. queue[j] = 1 /\ requeue = {} /\ requeue' = {}
    BY <1>1 DEF Pop, OneToken, TypeOK
  <2>2. /\ \A i \in Job : queue'[i] = 0
        /\ \A v \in Worker \ {w} : ~Executing(v)'
    BY <1>1, <2>1 DEF Pop, OneToken, TypeOK, Executing
  <2> QED BY <2>1, <2>2 DEF OneToken
<1>2. ASSUME NEW w \in Worker, GenerateStart(w) PROVE OneToken'
  <2>1. HandsOn(w)
    BY <1>2 DEF GenerateStart, HandsOn, Executing, TypeOK
  <2> QED BY <2>1, HandsOnKeepsOne
<1>3. ASSUME NEW w \in Worker, GenerateSkips(w) PROVE OneToken'
  <2>1. HandsOn(w)
    BY <1>3 DEF GenerateSkips, HandsOn, Executing, TypeOK
  <2> QED BY <2>1, HandsOnKeepsOne
<1>4. ASSUME NEW w \in Worker, GenerateStores(w) PROVE OneToken'
  <2>1. HandsOn(w)
    BY <1>4 DEF GenerateStores, HandsOn, Executing, TypeOK
  <2> QED BY <2>1, HandsOnKeepsOne
<1>5. ASSUME NEW w \in Worker, GenerateSucceeds(w) PROVE OneToken'
  <2>1. HandsOn(w)
    BY <1>5 DEF GenerateSucceeds, HandsOn, Executing, TypeOK
  <2> QED BY <2>1, HandsOnKeepsOne
<1>6. ASSUME NEW w \in Worker, GenerateRetries(w) PROVE OneToken'
  <2>1. HandsOn(w)
    BY <1>6 DEF GenerateRetries, HandsOn, Executing, TypeOK
  <2> QED BY <2>1, HandsOnKeepsOne
<1>7. ASSUME NEW w \in Worker, GenerateFails(w) PROVE OneToken'
  <2>1. HandsOn(w)
    BY <1>7 DEF GenerateFails, HandsOn, Executing, TypeOK
  <2> QED BY <2>1, HandsOnKeepsOne
<1>8. ASSUME NEW w \in Worker, CutRest(w) PROVE OneToken'
  <2>1. HandsOn(w)
    BY <1>8 DEF CutRest, HandsOn, Executing, TypeOK
  <2> QED BY <2>1, HandsOnKeepsOne
<1>9. ASSUME NEW w \in Worker, LocalizeStart(w) PROVE OneToken'
  <2>1. HandsOn(w)
    BY <1>9 DEF LocalizeStart, HandsOn, Executing, TypeOK
  <2> QED BY <2>1, HandsOnKeepsOne
<1>10. ASSUME NEW w \in Worker, LocalizeSkips(w) PROVE OneToken'
  <2>1. HandsOn(w)
    BY <1>10 DEF LocalizeSkips, HandsOn, Executing, TypeOK
  <2> QED BY <2>1, HandsOnKeepsOne
<1>11. ASSUME NEW w \in Worker, LocalizeSucceeds(w) PROVE OneToken'
  <2>1. HandsOn(w)
    BY <1>11 DEF LocalizeSucceeds, HandsOn, Executing, TypeOK
  <2> QED BY <2>1, HandsOnKeepsOne
<1>12. ASSUME NEW w \in Worker, LocalizeRetries(w) PROVE OneToken'
  <2>1. HandsOn(w)
    BY <1>12 DEF LocalizeRetries, HandsOn, Executing, TypeOK
  <2> QED BY <2>1, HandsOnKeepsOne
<1>13. ASSUME NEW w \in Worker, LocalizeFails(w) PROVE OneToken'
  <2>1. HandsOn(w)
    BY <1>13 DEF LocalizeFails, HandsOn, Executing, TypeOK
  <2> QED BY <2>1, HandsOnKeepsOne
<1>14. ASSUME NEW w \in Worker, CompleteStart(w) PROVE OneToken'
  <2>1. HandsOn(w)
    BY <1>14 DEF CompleteStart, HandsOn, Executing, TypeOK
  <2> QED BY <2>1, HandsOnKeepsOne
<1>15. ASSUME NEW w \in Worker, CompleteSkips(w) PROVE OneToken'
  <2>1. HandsOn(w)
    BY <1>15 DEF CompleteSkips, HandsOn, Executing, TypeOK
  <2> QED BY <2>1, HandsOnKeepsOne
<1>16. ASSUME NEW w \in Worker, CompleteReturns(w) PROVE OneToken'
  <2>1. HandsOn(w)
    BY <1>16 DEF CompleteReturns, HandsOn, Executing, TypeOK
  <2> QED BY <2>1, HandsOnKeepsOne
<1>17. ASSUME NEW w \in Worker, CompleteThrows(w) PROVE OneToken'
  <2>1. HandsOn(w)
    BY <1>17 DEF CompleteThrows, HandsOn, Executing, TypeOK
  <2> QED BY <2>1, HandsOnKeepsOne
<1>18. ASSUME NEW w \in Worker, CompleteRethrown(w) PROVE OneToken'
  <2>1. HandsOn(w)
    BY <1>18 DEF CompleteRethrown, HandsOn, Executing, TypeOK
  <2> QED BY <2>1, HandsOnKeepsOne
<1>19. ASSUME NEW w \in Worker, DispatchNext(w) PROVE OneToken'
  <2>1. HandsOn(w)
    BY <1>19, JobType DEF DispatchNext, HandsOn, Executing, TypeOK
  <2> QED BY <2>1, HandsOnKeepsOne
<1>20. ASSUME NEW w \in Worker, Ack(w) PROVE OneToken'
  <2>1. /\ \A v \in Worker : Executing(v)' => Executing(v)
        /\ UNCHANGED <<queue, requeue>>
    BY <1>20 DEF Ack, Executing, TypeOK
  <2> QED BY <2>1 DEF OneToken
<1>21. ASSUME NEW w \in Worker, FailJob(w) PROVE OneToken'
  <2>1. HandsOn(w)
    BY <1>21 DEF FailJob, HandsOn, Executing, TypeOK
  <2> QED BY <2>1, HandsOnKeepsOne
<1>22. ASSUME NEW w \in Worker, FailedHookSkips(w) PROVE OneToken'
  <2>1. HandsOn(w)
    BY <1>22 DEF FailedHookSkips, HandsOn, Executing, TypeOK
  <2> QED BY <2>1, HandsOnKeepsOne
<1>23. ASSUME NEW w \in Worker, Timeout(w) PROVE OneToken'
  <2>1. HandsOn(w)
    BY <1>23 DEF Timeout, HandsOn, Executing, TypeOK
  <2> QED BY <2>1, HandsOnKeepsOne
<1>24. ASSUME NEW w \in Worker, Kill(w) PROVE OneToken'
  BY <1>24, RestlessForGood
<1>25. ASSUME NEW s \in Stage, RetryStage(s) PROVE OneToken'
  <2>1. NoLiveJob
    BY <1>25, RestlessForGood
  <2>2. /\ \A j \in Job : queue'[j] = 0
        /\ \A w \in Worker : ~Executing(w)'
    BY <1>25, <2>1 DEF RetryStage, NoLiveJob, Executing
  <2>3. \A i, j \in requeue' : i = j
    BY <1>25 DEF RetryStage
  <2> QED BY <2>2, <2>3 DEF OneToken
<1>26. CASE DispatchRetry
  <2>1. PICK j \in requeue : Enqueue(j) /\ requeue' = requeue \ {j}
    BY <1>26 DEF DispatchRetry
  <2>2. /\ requeue' = {} /\ j \in Job
        /\ \A i \in Job : queue[i] = 0
        /\ \A w \in Worker : ~Executing(w) /\ ~Executing(w)'
    BY <1>26, <2>1 DEF OneToken, TypeOK, DispatchRetry, Executing
  <2>3. \A i \in Job : queue'[i] = IF i = j THEN 1 ELSE 0
    BY <2>1, <2>2 DEF Enqueue, TypeOK
  <2> QED BY <2>2, <2>3 DEF OneToken
<1>27. CASE LoseRetry
  <2>1. requeue' = {} /\ UNCHANGED <<queue, pc>>
    BY <1>27 DEF LoseRetry
  <2> QED BY <2>1 DEF OneToken, Executing
<1>28. CASE UNCHANGED vars
  BY <1>28 DEF vars, OneToken, Executing
<1> QED
  BY <1>1, <1>2, <1>3, <1>4, <1>5, <1>6, <1>7, <1>8, <1>9, <1>10, <1>11,
     <1>12, <1>13, <1>14, <1>15, <1>16, <1>17, <1>18, <1>19, <1>20, <1>21,
     <1>22, <1>23, <1>24, <1>25, <1>26, <1>27, <1>28
     DEF Next, WorkerStep, Generate, Localize, CompleteInfo

(* If no worker dies and no retry is made while a job of the node is live, *)
(* at most one job of the node is queued or executed at any time: stages   *)
(* of a node never overlap, and a retry starts one chain (the chain of     *)
(* enqueueNodeChain(), retryStage()).                                      *)
THEOREM OneJobAtATime == Spec => []OneLiveJob
<1>1. Init => (Calm => OneToken)
  BY DEF Init, OneToken, Executing
<1>2. IInv /\ (Calm => OneToken) /\ [Next]_vars => (Calm => OneToken)'
  <2>1. IInv /\ [Next]_vars /\ Calm' => Calm
    BY RestlessForGood DEF IInv
  <2> QED BY <2>1, StepOneToken
<1>3. IInv /\ (Calm => OneToken) => OneLiveJob
  BY DEF IInv, TypeOK, OneToken, OneLiveJob
<1> QED BY <1>1, <1>2, <1>3, Inductive, PTL DEF Spec

-----------------------------------------------------------------------------
(***************************************************************************)
(* That the chain of a node's jobs is sound, for every number of workers,  *)
(* locales, attempts, deaths and retries.                                  *)
(*                                                                         *)
(* Three invariants, each on its own ground.  As long as the operator      *)
(* retries only when nothing runs, every stage that is not done is looked  *)
(* after (Cover), which makes a node that has come to rest a finished or a *)
(* failed one; and localize jobs run in the order of their locales         *)
(* (ServedOK).  If besides no worker dies, there is one live job (OneToken *)
(* above) and the whole row has a shape that follows from where that job   *)
(* is (Shapes).                                                            *)
(***************************************************************************)

(* A worker that holds a job, and the handlers that have loaded the row.   *)
Active(w) == pc[w] # "idle"
Handling == {"generate", "save", "localize", "complete"}

(* The status column of a stage.                                           *)
Stat(s) == row[s].status

(* Which stage the job of a worker belongs to, by where the worker is in   *)
(* it.                                                                     *)
ItsStage ==
    \A w \in Worker :
        /\ pc[w] \in {"generate", "save"} => StageNow(w) = "generate"
        /\ pc[w] = "localize" => StageNow(w) = "localize"
        /\ pc[w] \in {"complete", "thrown"} => StageNow(w) = "complete_info"
        /\ pc[w] \in {"cut", "hook"} => StageNow(w) # "complete_info"

(* An idle worker has no copy of the row; the copy of a handler says that  *)
(* its own stage is processing, so that markStage() always writes the      *)
(* status it is given.                                                     *)
OwnCopy ==
    \A w \in Worker :
        /\ pc[w] = "idle" => mem[w] = NoMem
        /\ pc[w] \in Handling => mem[w][StageNow(w)].status = "processing"

Handlers == ItsStage /\ OwnCopy

(* A worker touches neither the other workers nor the requests of the      *)
(* operator.                                                               *)
Alone(w) ==
    /\ \A v \in Worker \ {w} :
           pc'[v] = pc[v] /\ job'[v] = job[v] /\ mem'[v] = mem[v]
    /\ UNCHANGED <<requeue, hasty, lost, retries>>

(* What a worker can do, or what can happen to it.                         *)
Moves(w) == WorkerStep(w) \/ Timeout(w) \/ Kill(w)

(* Which positions of a chain belong to which stage.                       *)
LEMMA StageOfType ==
    ASSUME NEW p \in 1..Last
    PROVE  /\ StageOf(p) \in Stage
           /\ StageOf(p) = "generate" <=> p = 1
           /\ StageOf(p) = "localize" <=> p \in 2..(Last - 1)
           /\ StageOf(p) = "complete_info" <=> p = Last
BY LastType DEF StageOf, Stage

(* The job a worker holds.                                                 *)
LEMMA JobOf ==
    ASSUME TypeOK, NEW w \in Worker
    PROVE  /\ job[w] \in Job /\ StageNow(w) \in Stage
           /\ job[w].at \in 1..Last /\ job[w].end \in 1..Last
           /\ job[w].at <= job[w].end
<1>1. job[w] \in Job
  BY DEF TypeOK
<1> QED BY <1>1, JobType, StageOfType DEF StageNow

(* A step of a worker is its own.                                          *)
LEMMA WorkerFrame ==
    ASSUME IInv, NEW w \in Worker, Moves(w)
    PROVE  Alone(w)
<1> USE DEF Alone, IInv, TypeOK, Goto, BecomeIdle, Return, Release, Forget,
            LoadAndMark, bounds, ghosts
<1>1. ASSUME NEW j \in Job, Pop(w, j) PROVE Alone(w)
  BY <1>1 DEF Pop
<1>2. CASE GenerateStart(w)
  BY <1>2 DEF GenerateStart
<1>3. CASE GenerateSkips(w)
  BY <1>3 DEF GenerateSkips
<1>4. CASE GenerateStores(w)
  BY <1>4 DEF GenerateStores
<1>5. CASE GenerateSucceeds(w)
  BY <1>5 DEF GenerateSucceeds
<1>6. CASE GenerateRetries(w)
  BY <1>6 DEF GenerateRetries
<1>7. CASE GenerateFails(w)
  BY <1>7 DEF GenerateFails
<1>8. CASE CutRest(w)
  BY <1>8 DEF CutRest
<1>9. CASE LocalizeStart(w)
  BY <1>9 DEF LocalizeStart
<1>10. CASE LocalizeSkips(w)
  BY <1>10 DEF LocalizeSkips
<1>11. CASE LocalizeSucceeds(w)
  BY <1>11 DEF LocalizeSucceeds
<1>12. CASE LocalizeRetries(w)
  BY <1>12 DEF LocalizeRetries
<1>13. CASE LocalizeFails(w)
  BY <1>13 DEF LocalizeFails
<1>14. CASE CompleteStart(w)
  BY <1>14 DEF CompleteStart
<1>15. CASE CompleteSkips(w)
  BY <1>15 DEF CompleteSkips
<1>16. CASE CompleteReturns(w)
  BY <1>16 DEF CompleteReturns
<1>17. CASE CompleteThrows(w)
  BY <1>17 DEF CompleteThrows
<1>18. CASE CompleteRethrown(w)
  BY <1>18 DEF CompleteRethrown
<1>19. CASE DispatchNext(w)
  BY <1>19 DEF DispatchNext
<1>20. CASE Ack(w)
  BY <1>20 DEF Ack
<1>21. CASE FailJob(w)
  BY <1>21 DEF FailJob
<1>22. CASE FailedHookSkips(w)
  BY <1>22 DEF FailedHookSkips
<1>23. CASE Timeout(w)
  BY <1>23 DEF Timeout
<1>24. CASE Kill(w)
  BY <1>24 DEF Kill
<1> QED
  BY <1>1, <1>2, <1>3, <1>4, <1>5, <1>6, <1>7, <1>8, <1>9, <1>10, <1>11, <1>12,
     <1>13, <1>14, <1>15, <1>16, <1>17, <1>18, <1>19, <1>20, <1>21, <1>22,
     <1>23, <1>24
     DEF Moves, WorkerStep, Generate, Localize, CompleteInfo

(* A handler works on the stage of its job, to the end.                    *)
LEMMA StepItsStage ==
    ASSUME IInv, ItsStage, NEW w \in Worker, Moves(w)
    PROVE  ItsStage'
<1> USE DEF IInv, TypeOK, ItsStage, StageNow, Goto, BecomeIdle, Return,
            Release, Forget, LoadAndMark, bounds, ghosts
<1>1. ASSUME NEW j \in Job, Pop(w, j) PROVE ItsStage'
  BY <1>1 DEF Pop
<1>2. CASE GenerateStart(w)
  BY <1>2 DEF GenerateStart
<1>3. CASE GenerateSkips(w)
  BY <1>3 DEF GenerateSkips
<1>4. CASE GenerateStores(w)
  BY <1>4 DEF GenerateStores
<1>5. CASE GenerateSucceeds(w)
  BY <1>5 DEF GenerateSucceeds
<1>6. CASE GenerateRetries(w)
  BY <1>6 DEF GenerateRetries
<1>7. CASE GenerateFails(w)
  BY <1>7 DEF GenerateFails
<1>8. CASE CutRest(w)
  BY <1>8 DEF CutRest
<1>9. CASE LocalizeStart(w)
  BY <1>9 DEF LocalizeStart
<1>10. CASE LocalizeSkips(w)
  BY <1>10 DEF LocalizeSkips
<1>11. CASE LocalizeSucceeds(w)
  BY <1>11 DEF LocalizeSucceeds
<1>12. CASE LocalizeRetries(w)
  BY <1>12 DEF LocalizeRetries
<1>13. CASE LocalizeFails(w)
  BY <1>13 DEF LocalizeFails
<1>14. CASE CompleteStart(w)
  BY <1>14 DEF CompleteStart
<1>15. CASE CompleteSkips(w)
  BY <1>15 DEF CompleteSkips
<1>16. CASE CompleteReturns(w)
  BY <1>16 DEF CompleteReturns
<1>17. CASE CompleteThrows(w)
  BY <1>17 DEF CompleteThrows
<1>18. CASE CompleteRethrown(w)
  BY <1>18 DEF CompleteRethrown
<1>19. CASE DispatchNext(w)
  BY <1>19 DEF DispatchNext
<1>20. CASE Ack(w)
  BY <1>20 DEF Ack
<1>21. CASE FailJob(w)
  BY <1>21 DEF FailJob
<1>22. CASE FailedHookSkips(w)
  BY <1>22 DEF FailedHookSkips
<1>23. CASE Timeout(w)
  BY <1>23 DEF Timeout
<1>24. CASE Kill(w)
  BY <1>24 DEF Kill
<1> QED
  BY <1>1, <1>2, <1>3, <1>4, <1>5, <1>6, <1>7, <1>8, <1>9, <1>10, <1>11, <1>12,
     <1>13, <1>14, <1>15, <1>16, <1>17, <1>18, <1>19, <1>20, <1>21, <1>22,
     <1>23, <1>24
     DEF Moves, WorkerStep, Generate, Localize, CompleteInfo

(* No step of a worker takes its stage out of processing in its own copy.  *)
LEMMA StepOwnCopy ==
    ASSUME IInv, Handlers, NEW w \in Worker, Moves(w)
    PROVE  OwnCopy'
<1>0. Stage = {"generate", "localize", "complete_info"} /\ StageNow(w) \in Stage
  BY JobOf DEF IInv, Stage
<1> USE <1>0
        DEF Handlers, Handling, Processing, IInv, TypeOK, ItsStage, OwnCopy,
            StageNow, Goto, BecomeIdle, Return, Release, Forget, LoadAndMark,
            bounds, ghosts
<1>1. ASSUME NEW j \in Job, Pop(w, j) PROVE OwnCopy'
  BY <1>1 DEF Pop
<1>2. CASE GenerateStart(w)
  BY <1>2 DEF GenerateStart
<1>3. CASE GenerateSkips(w)
  BY <1>3 DEF GenerateSkips
<1>4. CASE GenerateStores(w)
  BY <1>4 DEF GenerateStores
<1>5. CASE GenerateSucceeds(w)
  BY <1>5 DEF GenerateSucceeds
<1>6. CASE GenerateRetries(w)
  BY <1>6 DEF GenerateRetries
<1>7. CASE GenerateFails(w)
  BY <1>7 DEF GenerateFails
<1>8. CASE CutRest(w)
  BY <1>8 DEF CutRest
<1>9. CASE LocalizeStart(w)
  BY <1>9 DEF LocalizeStart
<1>10. CASE LocalizeSkips(w)
  BY <1>10 DEF LocalizeSkips
<1>11. CASE LocalizeSucceeds(w)
  BY <1>11 DEF LocalizeSucceeds
<1>12. CASE LocalizeRetries(w)
  BY <1>12 DEF LocalizeRetries
<1>13. CASE LocalizeFails(w)
  BY <1>13 DEF LocalizeFails
<1>14. CASE CompleteStart(w)
  BY <1>14 DEF CompleteStart
<1>15. CASE CompleteSkips(w)
  BY <1>15 DEF CompleteSkips
<1>16. CASE CompleteReturns(w)
  BY <1>16 DEF CompleteReturns
<1>17. CASE CompleteThrows(w)
  BY <1>17 DEF CompleteThrows
<1>18. CASE CompleteRethrown(w)
  BY <1>18 DEF CompleteRethrown
<1>19. CASE DispatchNext(w)
  BY <1>19 DEF DispatchNext
<1>20. CASE Ack(w)
  BY <1>20 DEF Ack
<1>21. CASE FailJob(w)
  BY <1>21 DEF FailJob
<1>22. CASE FailedHookSkips(w)
  BY <1>22 DEF FailedHookSkips
<1>23. CASE Timeout(w)
  BY <1>23 DEF Timeout
<1>24. CASE Kill(w)
  BY <1>24 DEF Kill
<1> QED
  BY <1>1, <1>2, <1>3, <1>4, <1>5, <1>6, <1>7, <1>8, <1>9, <1>10, <1>11, <1>12,
     <1>13, <1>14, <1>15, <1>16, <1>17, <1>18, <1>19, <1>20, <1>21, <1>22,
     <1>23, <1>24
     DEF Moves, WorkerStep, Generate, Localize, CompleteInfo

(* Only a retry makes a stage pending again; a copy of the row is the row  *)
(* as it was written, or none.                                             *)
LEMMA NoNewPending ==
    ASSUME IInv, Handlers, NEW w \in Worker, Moves(w),
           NEW t \in Stage
    PROVE  /\ row'[t].status = "pending" => row[t].status = "pending"
           /\ mem'[w] \in {mem[w], NoMem, row'}
<1>0. StageNow(w) \in Stage
  BY JobOf DEF IInv
<1> USE <1>0
        DEF Processing, Failed, Nothing, Succeeded, Cut, Written, MarkStage,
            SkipPendingStages, IInv, TypeOK, Goto, BecomeIdle, Return, Release,
            Forget, LoadAndMark, bounds, ghosts, Stage
<1>1. ASSUME NEW j \in Job, Pop(w, j)
      PROVE  /\ row'[t].status = "pending" => row[t].status = "pending"
             /\ mem'[w] \in {mem[w], NoMem, row'}
  BY <1>1 DEF Pop
<1>2. CASE GenerateStart(w)
  BY <1>2 DEF GenerateStart
<1>3. CASE GenerateSkips(w)
  BY <1>3 DEF GenerateSkips
<1>4. CASE GenerateStores(w)
  BY <1>4 DEF GenerateStores
<1>5. CASE GenerateSucceeds(w)
  BY <1>5 DEF GenerateSucceeds
<1>6. CASE GenerateRetries(w)
  BY <1>6 DEF GenerateRetries
<1>7. CASE GenerateFails(w)
  BY <1>7 DEF GenerateFails
<1>8. CASE CutRest(w)
  BY <1>8 DEF CutRest
<1>9. CASE LocalizeStart(w)
  BY <1>9 DEF LocalizeStart
<1>10. CASE LocalizeSkips(w)
  BY <1>10 DEF LocalizeSkips
<1>11. CASE LocalizeSucceeds(w)
  BY <1>11 DEF LocalizeSucceeds
<1>12. CASE LocalizeRetries(w)
  BY <1>12 DEF LocalizeRetries
<1>13. CASE LocalizeFails(w)
  BY <1>13 DEF LocalizeFails
<1>14. CASE CompleteStart(w)
  BY <1>14 DEF CompleteStart
<1>15. CASE CompleteSkips(w)
  BY <1>15 DEF CompleteSkips
<1>16. CASE CompleteReturns(w)
  BY <1>16 DEF CompleteReturns
<1>17. CASE CompleteThrows(w)
  BY <1>17 DEF CompleteThrows
<1>18. CASE CompleteRethrown(w)
  BY <1>18 DEF CompleteRethrown
<1>19. CASE DispatchNext(w)
  BY <1>19 DEF DispatchNext
<1>20. CASE Ack(w)
  BY <1>20 DEF Ack
<1>21. CASE FailJob(w)
  BY <1>21 DEF FailJob
<1>22. CASE FailedHookSkips(w)
  BY <1>22 DEF FailedHookSkips
<1>23. CASE Timeout(w)
  BY <1>23 DEF Timeout
<1>24. CASE Kill(w)
  BY <1>24 DEF Kill
<1> QED
  BY <1>1, <1>2, <1>3, <1>4, <1>5, <1>6, <1>7, <1>8, <1>9, <1>10, <1>11, <1>12,
     <1>13, <1>14, <1>15, <1>16, <1>17, <1>18, <1>19, <1>20, <1>21, <1>22,
     <1>23, <1>24
     DEF Moves, WorkerStep, Generate, Localize, CompleteInfo

(* Live jobs: queued, about to be dispatched, or in the hands of a worker. *)
(* A stage is waited for (Waiting), worked on (At) or over for this job    *)
(* (Finishing); while it is held something will still end it, while it has *)
(* a token something will at least hand on to the next stage.              *)
Live == {j \in Job : queue[j] > 0} \cup requeue
        \cup {job[w] : w \in {v \in Worker : Active(v)}}

Waiting(s) ==
    \E j \in Job : (queue[j] > 0 \/ j \in requeue) /\ StageOf(j.at) = s
At(w, s) == pc[w] \notin {"idle", "ack", "hook"} /\ StageNow(w) = s
Finishing(w) == pc[w] = "returned" /\ job[w].at = LastOf(StageNow(w))
Held(s) == Waiting(s) \/ \E w \in Worker : At(w, s) /\ ~Finishing(w)
Tok(s) == Waiting(s) \/ \E w \in Worker : At(w, s)

(* What is pending in the row is pending in every copy of it:              *)
(* skipPendingStages() forgets no stage.                                   *)
MemFresh ==
    \A w \in Worker, s \in Stage :
        Stat(s) = "pending" => mem[w][s].status = "pending"

(* The live jobs belong to one chain. A chain that ends before complete-   *)
(* info leaves no later stage to wait for it; one that ends with generate  *)
(* never loads a row in which localize is pending.                         *)
EndsOK ==
    \A j \in Live :
        /\ j.end \in {1, Last - 1, Last}
        /\ \A i \in Live : i.end = j.end
        /\ j.end = Last - 1 => Stat("complete_info") # "pending"
        /\ j.end = 1 =>
             /\ Stat("localize") # "pending"
             /\ Stat("complete_info") = "pending" => Stat("localize") = "failed"
             /\ \A w \in Worker : pc[w] \in {"cut", "hook"} \cup Handling =>
                    mem[w]["localize"].status # "pending"

(* Whoever is not done is looked after: by a job of his stage, or by one   *)
(* of an earlier stage that will hand on or fail. A stage that is          *)
(* processing has a job that will end it.                                  *)
Cover ==
    /\ \A s \in Stage : Stat(s) = "processing" => Held(s)
    /\ Stat("generate") = "pending" => Held("generate")
    /\ Stat("localize") = "pending" =>
         Held("localize") \/ Stat("generate") = "failed" \/ Tok("generate")
    /\ Stat("complete_info") = "pending" =>
         \/ Held("complete_info")
         \/ Stat("localize") = "failed" \/ Tok("localize")
         \/ /\ Stat("localize") \in {"pending", "skipped"}
            /\ Stat("generate") = "failed" \/ Tok("generate")

(* A worker hands no queued job over to nobody.                            *)
Keeps(w) ==
    /\ \A v \in Worker \ {w} : pc'[v] = pc[v] /\ job'[v] = job[v]
    /\ \A j \in Job : queue[j] > 0 \/ j \in requeue =>
           queue'[j] > 0 \/ j \in requeue'

(* Such a step loses no token but the worker's own.                        *)
LEMMA KeepsTokens ==
    ASSUME NEW w \in Worker, Keeps(w), NEW t \in Stage
    PROVE  /\ Held(t) => Held(t)' \/ At(w, t)
           /\ Tok(t) => Tok(t)' \/ At(w, t)
<1>1. Waiting(t) => Waiting(t)'
  BY DEF Keeps, Waiting
<1>2. ASSUME NEW v \in Worker \ {w}
      PROVE  (At(v, t) <=> At(v, t)') /\ (Finishing(v) <=> Finishing(v)')
  BY DEF Keeps, At, Finishing, StageNow
<1> QED BY <1>1, <1>2 DEF Held, Tok

(* Cover survives a step at stage s if s stays held while it is not done,  *)
(* and hands on or fails when it is.                                       *)
LEMMA CoverKept ==
    ASSUME Cover, NEW w \in Worker, Keeps(w), NEW s \in Stage,
           \A t \in Stage \ {s} : ~At(w, t) /\ Stat(t)' = Stat(t),
           Stat(s)' \in {"pending", "processing"} => Held(s)',
           Stat(s)' = "failed" \/ Tok(s)'
    PROVE  Cover'
<1>1. \A t \in Stage \ {s} : (Held(t) => Held(t)') /\ (Tok(t) => Tok(t)')
  BY KeepsTokens
<1> HIDE DEF Held, Tok
<1>2. CASE s = "generate"
  BY <1>1, <1>2 DEF Cover, Stage, Stat
<1>3. CASE s = "localize"
  BY <1>1, <1>3 DEF Cover, Stage, Stat
<1>4. CASE s = "complete_info"
  BY <1>1, <1>4 DEF Cover, Stage, Stat
<1> QED BY <1>2, <1>3, <1>4 DEF Stage

(* The same, if the worker's own token is not worth anything.              *)
LEMMA CoverSame ==
    ASSUME Cover, NEW w \in Worker, Keeps(w), \A t \in Stage : ~At(w, t),
           UNCHANGED row
    PROVE  Cover'
<1>1. \A t \in Stage : (Held(t) => Held(t)') /\ (Tok(t) => Tok(t)')
  BY KeepsTokens
<1> QED BY <1>1 DEF Cover, Stage, Stat

(* skipPendingStages() leaves no stage pending.                            *)
LEMMA SkipsAllPending ==
    ASSUME TypeOK, MemFresh, NEW w \in Worker, SkipPendingStages(w), NEW t \in Stage
    PROVE  /\ Stat(t)' # "pending"
           /\ Stat(t)' = "processing" => Stat(t) = "processing"
BY DEF TypeOK, MemFresh, SkipPendingStages, Written, Cut, Stat

(* The job a worker has popped.                                            *)
LEMMA NextTry ==
    ASSUME NEW j \in Job, NEW w \in Worker,
           \/ job' = [job EXCEPT ![w] = j] /\ j.tried = Tries
           \/ job' = [job EXCEPT ![w] = [j EXCEPT !.tried = @ + 1]] /\ j.tried # Tries
    PROVE  \E k \in Job : job' = [job EXCEPT ![w] = k] /\ k.at = j.at /\ k.end = j.end
<1>1. [j EXCEPT !.tried = @ + 1].at = j.at /\ [j EXCEPT !.tried = @ + 1].end = j.end
  BY DEF Job
<1> QED BY <1>1, JobType

(* A live job is one that was live before, or the next one of its chain.   *)
LiveStep(w) ==
    \A j \in Live' : \E i \in Live :
        /\ j.end = i.end
        /\ \/ j.at = i.at
           \/ pc[w] = "returned" /\ i = job[w] /\ j.at = i.at + 1

(* No step of a worker starts another chain.                               *)
LEMMA LiveSteps ==
    ASSUME IInv, NEW w \in Worker, Moves(w)
    PROVE  LiveStep(w)
<1> USE DEF LiveStep, Alone, Active, Live, IInv, TypeOK, Goto, BecomeIdle,
            Return, Release, Enqueue, bounds, ghosts
<1>1. ASSUME NEW j \in Job, Pop(w, j) PROVE LiveStep(w)
  <2>1. PICK k \in Job : job' = [job EXCEPT ![w] = k] /\ k.at = j.at /\ k.end = j.end
    BY <1>1, NextTry DEF Pop
  <2> QED BY <1>1, <2>1, WorkerFrame DEF Pop
<1>2. CASE GenerateStart(w)
  BY <1>2, WorkerFrame DEF GenerateStart
<1>3. CASE GenerateSkips(w)
  BY <1>3, WorkerFrame DEF GenerateSkips
<1>4. CASE GenerateStores(w)
  BY <1>4, WorkerFrame DEF GenerateStores
<1>5. CASE GenerateSucceeds(w)
  BY <1>5, WorkerFrame DEF GenerateSucceeds
<1>6. CASE GenerateRetries(w)
  BY <1>6, WorkerFrame DEF GenerateRetries
<1>7. CASE GenerateFails(w)
  BY <1>7, WorkerFrame DEF GenerateFails
<1>8. CASE CutRest(w)
  BY <1>8, WorkerFrame DEF CutRest
<1>9. CASE LocalizeStart(w)
  BY <1>9, WorkerFrame DEF LocalizeStart
<1>10. CASE LocalizeSkips(w)
  BY <1>10, WorkerFrame DEF LocalizeSkips
<1>11. CASE LocalizeSucceeds(w)
  BY <1>11, WorkerFrame DEF LocalizeSucceeds
<1>12. CASE LocalizeRetries(w)
  BY <1>12, WorkerFrame DEF LocalizeRetries
<1>13. CASE LocalizeFails(w)
  BY <1>13, WorkerFrame DEF LocalizeFails
<1>14. CASE CompleteStart(w)
  BY <1>14, WorkerFrame DEF CompleteStart
<1>15. CASE CompleteSkips(w)
  BY <1>15, WorkerFrame DEF CompleteSkips
<1>16. CASE CompleteReturns(w)
  BY <1>16, WorkerFrame DEF CompleteReturns
<1>17. CASE CompleteThrows(w)
  BY <1>17, WorkerFrame DEF CompleteThrows
<1>18. CASE CompleteRethrown(w)
  <2>1. CASE Release(w)
    <3>1. pc[w] = "thrown" /\ UNCHANGED requeue
      BY <1>18, <2>1 DEF CompleteRethrown
    <3> QED BY <2>1, <3>1, WorkerFrame
  <2>2. CASE ~Release(w)
    BY <1>18, <2>2, WorkerFrame DEF CompleteRethrown
  <2> QED BY <2>1, <2>2
<1>19. CASE DispatchNext(w)
  <2>1. CASE job[w].at < job[w].end
    <3>1. Chain(job[w].at + 1, job[w].end) \in Job
      BY <2>1, JobType
    <3> QED BY <1>19, <2>1, <3>1, WorkerFrame DEF DispatchNext, Chain
  <2>2. CASE ~(job[w].at < job[w].end)
    BY <1>19, <2>2, WorkerFrame DEF DispatchNext
  <2> QED BY <2>1, <2>2
<1>20. CASE Ack(w)
  BY <1>20, WorkerFrame DEF Ack
<1>21. CASE FailJob(w)
  BY <1>21, WorkerFrame DEF FailJob
<1>22. CASE FailedHookSkips(w)
  BY <1>22, WorkerFrame DEF FailedHookSkips
<1>23. CASE Timeout(w)
  BY <1>23, WorkerFrame DEF Timeout
<1>24. CASE Kill(w)
  BY <1>24, WorkerFrame DEF Kill
<1> QED
  BY <1>1, <1>2, <1>3, <1>4, <1>5, <1>6, <1>7, <1>8, <1>9, <1>10, <1>11, <1>12,
     <1>13, <1>14, <1>15, <1>16, <1>17, <1>18, <1>19, <1>20, <1>21, <1>22,
     <1>23, <1>24
     DEF Moves, WorkerStep, Generate, Localize, CompleteInfo

(* No step of a worker makes a copy miss a pending stage.                  *)
LEMMA StepMemFresh ==
    ASSUME IInv, Handlers, MemFresh, NEW w \in Worker, Moves(w)
    PROVE  MemFresh'
<1> SUFFICES ASSUME NEW v \in Worker, NEW t \in Stage, Stat(t)' = "pending"
             PROVE  mem'[v][t].status = "pending"
  BY DEF MemFresh
<1>1. Stat(t) = "pending" /\ mem'[w] \in {mem[w], NoMem, row'}
  BY NoNewPending DEF Stat
<1>2. CASE v = w
  BY <1>1, <1>2 DEF MemFresh, NoMem, Fresh, Stat
<1>3. CASE v # w
  BY <1>1, <1>3, WorkerFrame DEF MemFresh, Alone
<1> QED BY <1>2, <1>3

(* Only Pop takes a job out of the queue.                                  *)
LEMMA StepsKeep ==
    ASSUME IInv, NEW w \in Worker, Moves(w)
    PROVE  (\A j \in Job : ~Pop(w, j)) => Keeps(w)
<1> SUFFICES ASSUME \A j \in Job : ~Pop(w, j)
             PROVE  \A j \in Job : queue[j] > 0 => queue'[j] > 0
  BY WorkerFrame DEF Alone, Keeps
<1> USE DEF IInv, TypeOK, BecomeIdle, Return, Release, Enqueue, ghosts
<1>1. ASSUME NEW j \in Job, Pop(w, j) PROVE \A i \in Job : queue[i] > 0 => queue'[i] > 0
  BY <1>1 DEF Pop
<1>2. CASE GenerateStart(w)
  BY <1>2 DEF GenerateStart
<1>3. CASE GenerateSkips(w)
  BY <1>3 DEF GenerateSkips
<1>4. CASE GenerateStores(w)
  BY <1>4 DEF GenerateStores
<1>5. CASE GenerateSucceeds(w)
  BY <1>5 DEF GenerateSucceeds
<1>6. CASE GenerateRetries(w)
  BY <1>6 DEF GenerateRetries
<1>7. CASE GenerateFails(w)
  BY <1>7 DEF GenerateFails
<1>8. CASE CutRest(w)
  BY <1>8 DEF CutRest
<1>9. CASE LocalizeStart(w)
  BY <1>9 DEF LocalizeStart
<1>10. CASE LocalizeSkips(w)
  BY <1>10 DEF LocalizeSkips
<1>11. CASE LocalizeSucceeds(w)
  BY <1>11 DEF LocalizeSucceeds
<1>12. CASE LocalizeRetries(w)
  BY <1>12 DEF LocalizeRetries
<1>13. CASE LocalizeFails(w)
  BY <1>13 DEF LocalizeFails
<1>14. CASE CompleteStart(w)
  BY <1>14 DEF CompleteStart
<1>15. CASE CompleteSkips(w)
  BY <1>15 DEF CompleteSkips
<1>16. CASE CompleteReturns(w)
  BY <1>16 DEF CompleteReturns
<1>17. CASE CompleteThrows(w)
  BY <1>17 DEF CompleteThrows
<1>18. CASE CompleteRethrown(w)
  BY <1>18 DEF CompleteRethrown
<1>19. CASE DispatchNext(w)
  <2>1. CASE job[w].at < job[w].end
    <3>1. Chain(job[w].at + 1, job[w].end) \in Job
      BY <2>1, JobType
    <3> QED BY <1>19, <2>1, <3>1 DEF DispatchNext
  <2>2. CASE ~(job[w].at < job[w].end)
    BY <1>19, <2>2 DEF DispatchNext
  <2> QED BY <2>1, <2>2
<1>20. CASE Ack(w)
  BY <1>20 DEF Ack
<1>21. CASE FailJob(w)
  BY <1>21 DEF FailJob
<1>22. CASE FailedHookSkips(w)
  BY <1>22 DEF FailedHookSkips
<1>23. CASE Timeout(w)
  BY <1>23 DEF Timeout
<1>24. CASE Kill(w)
  <2>1. CASE pc[w] = "hook"
    BY <1>24, <2>1 DEF Kill
  <2>2. CASE pc[w] # "hook"
    BY <1>24, <2>2 DEF Kill
  <2> QED BY <2>1, <2>2
<1> QED
  BY <1>1, <1>2, <1>3, <1>4, <1>5, <1>6, <1>7, <1>8, <1>9, <1>10, <1>11, <1>12,
     <1>13, <1>14, <1>15, <1>16, <1>17, <1>18, <1>19, <1>20, <1>21, <1>22,
     <1>23, <1>24
     DEF Moves, WorkerStep, Generate, Localize, CompleteInfo

(* A worker in the middle of its job, or whose job is queued again, still  *)
(* holds its stage.                                                        *)
LEMMA StillThere ==
    ASSUME TypeOK, NEW w \in Worker, NEW s \in Stage, s = StageNow(w)
    PROVE  /\ pc'[w] \notin {"idle", "ack", "hook", "returned"} /\ job'[w] = job[w]
                => Held(s)' /\ Tok(s)'
           /\ pc'[w] = "returned" /\ job'[w] = job[w]
                => Tok(s)' /\ (job[w].at # LastOf(s) => Held(s)')
           /\ Enqueue(job[w]) => Held(s)' /\ Tok(s)'
<1>1. ASSUME job'[w] = job[w] PROVE StageNow(w)' = s
  BY <1>1 DEF StageNow
<1>2. ASSUME Enqueue(job[w]) PROVE Waiting(s)'
  BY <1>2 DEF Enqueue, TypeOK, Waiting, StageNow
<1> QED BY <1>1, <1>2 DEF Held, Tok, At, Finishing

(* The three ways for a stage to stay looked after, and the fourth: it     *)
(* failed.                                                                 *)
LEMMA CoverAt ==
    ASSUME TypeOK, Cover, NEW w \in Worker, Keeps(w), NEW s \in Stage, s = StageNow(w),
           \A t \in Stage \ {s} : row'[t] = row[t],
           \/ pc'[w] \notin {"idle", "ack", "hook", "returned"} /\ job'[w] = job[w]
           \/ Enqueue(job[w])
           \/ /\ pc'[w] = "returned" /\ job'[w] = job[w]
              /\ job[w].at # LastOf(s) \/ row'[s].status \notin {"pending", "processing"}
           \/ row'[s].status = "failed"
    PROVE  Cover'
<1>1. \A t \in Stage \ {s} : ~At(w, t) /\ Stat(t)' = Stat(t)
  BY DEF At, Stat
<1>2. Stat(s)' \in {"pending", "processing"} => Held(s)'
  BY StillThere DEF Stat
<1>3. Stat(s)' = "failed" \/ Tok(s)'
  BY StillThere DEF Stat
<1> QED BY <1>1, <1>2, <1>3, CoverKept

(* A failure that cuts the rest off leaves nothing to look after.          *)
LEMMA CoverCut ==
    ASSUME IInv, MemFresh, Cover, NEW w \in Worker, Keeps(w), SkipPendingStages(w),
           \A t \in Stage : At(w, t) => Held(t)'
    PROVE  Cover'
<1>1. \A t \in Stage : Stat(t)' # "pending" /\ (Stat(t)' = "processing" => Stat(t) = "processing")
  BY SkipsAllPending DEF IInv
<1>2. \A t \in Stage : Held(t) => Held(t)'
  BY KeepsTokens
<1> QED BY <1>1, <1>2 DEF Cover, Stage

(* Every step of a worker leaves the unfinished stages looked after.       *)
LEMMA StepCover ==
    ASSUME IInv, Handlers, MemFresh, EndsOK, Cover, NEW w \in Worker, Moves(w)
    PROVE  Cover'
<1>s. PICK s \in Stage : s = StageNow(w)
  BY JobOf DEF IInv
<1>0. /\ TypeOK /\ s = StageNow(w) /\ job[w] \in Job
      /\ job[w].at \in 1..Last /\ job[w].end \in 1..Last /\ job[w].at <= job[w].end
      /\ Stage = {"generate", "localize", "complete_info"}
      /\ (\A j \in Job : ~Pop(w, j)) => Keeps(w)
  BY <1>s, JobOf, StepsKeep DEF IInv, Stage
<1>e. job[w].at < job[w].end \/ job[w].at = job[w].end
  <2>1. job[w].at \in Nat /\ job[w].end \in Nat
    BY JobOf, LastType DEF IInv
  <2>2. job[w].at <= job[w].end
    BY JobOf DEF IInv
  <2> QED BY <2>1, <2>2
<1>p. ASSUME NEW j \in Job, Pop(w, j) PROVE Keeps(w) \/ pc[w] = "idle"
  BY <1>p DEF Pop
<1> USE <1>0
        DEF Handlers, Handling, ItsStage, OwnCopy, Processing, Nothing, Failed,
            Succeeded, Written, MarkStage, TypeOK, Goto, BecomeIdle, Return,
            Release, Forget, LoadAndMark, bounds, ghosts
<1>1. ASSUME NEW j \in Job, Pop(w, j) PROVE Cover'
  <2>1. PICK k \in Job : job' = [job EXCEPT ![w] = k] /\ k.at = j.at /\ k.end = j.end
    BY <1>1, NextTry DEF Pop
  <2>2. StageOf(j.at) \in Stage /\ pc[w] = "idle" /\ UNCHANGED <<row, requeue>>
    BY <1>1, JobType, StageOfType DEF Pop
  <2>3. StageNow(w)' = StageOf(j.at) /\ pc'[w] \in {"start", "fail"}
    BY <1>1, <2>1 DEF Pop, StageNow
  <2>4. \A t \in Stage :
           \/ Held(t)' /\ Tok(t)'
           \/ t # StageOf(j.at) /\ (Held(t) => Held(t)') /\ (Tok(t) => Tok(t)')
    <3> SUFFICES ASSUME NEW t \in Stage
                 PROVE  \/ Held(t)' /\ Tok(t)'
                        \/ /\ t # StageOf(j.at)
                           /\ Held(t) => Held(t)'
                           /\ Tok(t) => Tok(t)'
      OBVIOUS
    <3>1. CASE t = StageOf(j.at)
      BY <2>3, <3>1 DEF Held, Tok, At, Finishing
    <3>2. CASE t # StageOf(j.at)
      <4>1. Waiting(t) => Waiting(t)'
        BY <1>1, <2>2, <3>2 DEF Waiting, Pop
      <4>2. ASSUME NEW v \in Worker \ {w}
            PROVE  (At(v, t) <=> At(v, t)') /\ (Finishing(v) <=> Finishing(v)')
        BY WorkerFrame DEF Alone, At, Finishing, StageNow, IInv
      <4> QED BY <2>2, <3>2, <4>1, <4>2 DEF Held, Tok, At
    <3> QED BY <3>1, <3>2
  <2> QED BY <2>2, <2>4 DEF Cover, Stat
<1>2. CASE GenerateStart(w)
  BY <1>2, <1>p, CoverAt DEF GenerateStart
<1>3. CASE GenerateSkips(w)
  BY <1>3, <1>p, CoverAt DEF GenerateSkips
<1>4. CASE GenerateStores(w)
  BY <1>4, <1>p, CoverAt DEF GenerateStores
<1>5. CASE GenerateSucceeds(w)
  BY <1>5, <1>p, CoverAt DEF GenerateSucceeds
<1>6. CASE GenerateRetries(w)
  BY <1>6, <1>p, CoverAt DEF GenerateRetries
<1>7. CASE GenerateFails(w)
  BY <1>7, <1>p, CoverAt DEF GenerateFails
<1>8. CASE CutRest(w)
  <2>1. Keeps(w) /\ SkipPendingStages(w) /\ pc'[w] = "fail" /\ job'[w] = job[w]
    BY <1>8, <1>p DEF CutRest
  <2>2. \A t \in Stage : At(w, t) => Held(t)'
    BY <2>1 DEF At, Held, Finishing, StageNow
  <2> QED BY <2>1, <2>2, CoverCut
<1>9. CASE LocalizeStart(w)
  BY <1>9, <1>p, CoverAt DEF LocalizeStart
<1>10. CASE LocalizeSkips(w)
  BY <1>10, <1>p, CoverAt DEF LocalizeSkips
<1>11. CASE LocalizeSucceeds(w)
  BY <1>11, <1>p, CoverAt DEF LocalizeSucceeds
<1>12. CASE LocalizeRetries(w)
  BY <1>12, <1>p, CoverAt DEF LocalizeRetries
<1>13. CASE LocalizeFails(w)
  BY <1>13, <1>p, CoverAt DEF LocalizeFails
<1>14. CASE CompleteStart(w)
  BY <1>14, <1>p, CoverAt DEF CompleteStart
<1>15. CASE CompleteSkips(w)
  BY <1>15, <1>p, CoverAt DEF CompleteSkips
<1>16. CASE CompleteReturns(w)
  BY <1>16, <1>p, CoverAt DEF CompleteReturns
<1>17. CASE CompleteThrows(w)
  BY <1>17, <1>p, CoverAt DEF CompleteThrows
<1>18. CASE CompleteRethrown(w)
  BY <1>18, <1>p, CoverAt DEF CompleteRethrown
<1>19. CASE DispatchNext(w)
  <2>1. CASE job[w].at < job[w].end
    <3>1. Chain(job[w].at + 1, job[w].end) \in Job
      BY <2>1, JobType
    <3>t. PICK t \in Stage : t = StageOf(job[w].at + 1)
      BY <2>1, StageOfType, LastType
    <3>2. Held(t)' /\ Tok(t)'
      <4>2. Waiting(t)'
        BY <1>19, <2>1, <3>1, <3>t DEF DispatchNext, Enqueue, Waiting, Chain
      <4> QED BY <4>2 DEF Held, Tok
    <3>3. t = s \/ (s = "generate" /\ t = "localize") \/ (s = "localize" /\ t = "complete_info")
      BY <2>1, <3>t, StageOfType, LastType DEF StageNow
    <3>4. UNCHANGED row /\ pc[w] = "returned" /\ Keeps(w)
      BY <1>19, <1>p DEF DispatchNext
    <3>5. \A u \in Stage \ {s} : (Held(u) => Held(u)') /\ (Tok(u) => Tok(u)')
      BY <3>4, KeepsTokens DEF At
    <3>6. t # s => (Held(s) => Held(s)')
      <4>1. t # s => job[w].at = LastOf(s)
        BY <2>1, <3>t, StageOfType, LastType DEF StageNow, LastOf
      <4>2. \A v \in Worker \ {w} : (At(v, s) <=> At(v, s)') /\ (Finishing(v) <=> Finishing(v)')
        BY <3>4 DEF Keeps, At, Finishing, StageNow
      <4>3. Waiting(s) => Waiting(s)'
        BY <3>4 DEF Keeps, Waiting
      <4> QED BY <3>4, <4>1, <4>2, <4>3 DEF Held, At, Finishing
    <3>7. \A u \in Stage : Stat(u)' = Stat(u)
      BY <3>4 DEF Stat
    <3>8. CASE t = s
      <4>1. \A u \in Stage : (Held(u) => Held(u)') /\ (Tok(u) => Tok(u)')
        BY <3>2, <3>5, <3>8
      <4> QED BY <3>7, <4>1 DEF Cover
    <3>9. CASE s = "generate" /\ t = "localize"
      BY <3>2, <3>5, <3>6, <3>7, <3>9 DEF Cover
    <3>10. CASE s = "localize" /\ t = "complete_info"
      BY <3>2, <3>5, <3>6, <3>7, <3>10 DEF Cover
    <3> QED BY <3>3, <3>8, <3>9, <3>10
  <2>2. CASE ~(job[w].at < job[w].end)
    <3>1. UNCHANGED row /\ pc[w] = "returned" /\ Keeps(w)
      BY <1>19, <1>p DEF DispatchNext
    <3>2. \A u \in Stage \ {s} : (Held(u) => Held(u)') /\ (Tok(u) => Tok(u)')
      BY <3>1, KeepsTokens DEF At
    <3>3. job[w] \in Live /\ job[w].at = job[w].end
      <4>1. job[w].at = job[w].end
        BY <2>2, <1>e
      <4>2. w \in {v \in Worker : Active(v)}
        BY <3>1 DEF Active
      <4> QED BY <4>1, <4>2 DEF Live
    <3>4. /\ job[w].end \in {1, Last - 1, Last}
          /\ job[w].end = Last - 1 => Stat("complete_info") # "pending"
          /\ job[w].end = 1 =>
               /\ Stat("localize") # "pending"
               /\ Stat("complete_info") = "pending" => Stat("localize") = "failed"
      BY <3>3 DEF EndsOK
    <3>5. job[w].at = LastOf(s) /\ (s = "generate" <=> job[w].end = 1)
           /\ (s = "localize" <=> job[w].end = Last - 1)
      BY <3>3, <3>4, StageOfType, LastType DEF StageNow, LastOf
    <3>6. Held(s) => Held(s)'
      <4>2. \A v \in Worker \ {w} : (At(v, s) <=> At(v, s)') /\ (Finishing(v) <=> Finishing(v)')
        BY <3>1 DEF Keeps, At, Finishing, StageNow
      <4>3. Waiting(s) => Waiting(s)'
        BY <3>1 DEF Keeps, Waiting
      <4> QED BY <3>1, <3>5, <4>2, <4>3 DEF Held, At, Finishing
    <3> QED BY <3>1, <3>2, <3>4, <3>5, <3>6 DEF Cover, Stat
  <2> QED BY <2>1, <2>2
<1>20. CASE Ack(w)
  <2>1. Keeps(w) /\ UNCHANGED row /\ \A t \in Stage : ~At(w, t)
    BY <1>20, <1>p DEF Ack, At
  <2> QED BY <2>1, CoverSame
<1>21. CASE FailJob(w)
  BY <1>21, <1>p, CoverAt DEF FailJob
<1>22. CASE FailedHookSkips(w)
  <2>1. Keeps(w) /\ SkipPendingStages(w) /\ \A t \in Stage : ~At(w, t)
    BY <1>22, <1>p DEF FailedHookSkips, At
  <2> QED BY <2>1, CoverCut
<1>23. CASE Timeout(w)
  BY <1>23, <1>p, CoverAt DEF Timeout
<1>24. CASE Kill(w)
  <2>1. Keeps(w) /\ UNCHANGED row
    BY <1>24, <1>p DEF Kill
  <2>2. CASE pc[w] = "hook"
    <3>1. \A t \in Stage : ~At(w, t)
      BY <2>2 DEF At
    <3> QED BY <2>1, <3>1, CoverSame
  <2>3. CASE pc[w] = "ack"
    <3>1. \A t \in Stage : ~At(w, t)
      BY <2>3 DEF At
    <3> QED BY <2>1, <3>1, CoverSame
  <2>4. CASE pc[w] \notin {"hook", "ack"}
    <3>1. Enqueue(job[w])
      BY <1>24, <2>4 DEF Kill
    <3> QED BY <2>1, <3>1, CoverAt
  <2> QED BY <2>2, <2>3, <2>4
<1> QED
  BY <1>1, <1>2, <1>3, <1>4, <1>5, <1>6, <1>7, <1>8, <1>9, <1>10, <1>11, <1>12,
     <1>13, <1>14, <1>15, <1>16, <1>17, <1>18, <1>19, <1>20, <1>21, <1>22,
     <1>23, <1>24
     DEF Moves, WorkerStep, Generate, Localize, CompleteInfo

(* The copy a handler works on is the one it loaded when it began.         *)
LEMMA CopyInHand ==
    ASSUME IInv, NEW w \in Worker, Moves(w),
           pc'[w] \in {"cut", "hook"} \cup Handling
    PROVE  \/ mem'[w] = row'
           \/ mem'[w] = mem[w] /\ pc[w] \in Handling
<1> USE DEF IInv, TypeOK, Handling, Goto, BecomeIdle, Return, Release, Forget,
            LoadAndMark, bounds, ghosts
<1>1. ASSUME NEW j \in Job, Pop(w, j)
      PROVE  \/ mem'[w] = row'
             \/ mem'[w] = mem[w] /\ pc[w] \in Handling
  BY <1>1 DEF Pop
<1>2. CASE GenerateStart(w)
  BY <1>2 DEF GenerateStart
<1>3. CASE GenerateSkips(w)
  BY <1>3 DEF GenerateSkips
<1>4. CASE GenerateStores(w)
  BY <1>4 DEF GenerateStores
<1>5. CASE GenerateSucceeds(w)
  BY <1>5 DEF GenerateSucceeds
<1>6. CASE GenerateRetries(w)
  BY <1>6 DEF GenerateRetries
<1>7. CASE GenerateFails(w)
  BY <1>7 DEF GenerateFails
<1>8. CASE CutRest(w)
  BY <1>8 DEF CutRest
<1>9. CASE LocalizeStart(w)
  BY <1>9 DEF LocalizeStart
<1>10. CASE LocalizeSkips(w)
  BY <1>10 DEF LocalizeSkips
<1>11. CASE LocalizeSucceeds(w)
  BY <1>11 DEF LocalizeSucceeds
<1>12. CASE LocalizeRetries(w)
  BY <1>12 DEF LocalizeRetries
<1>13. CASE LocalizeFails(w)
  BY <1>13 DEF LocalizeFails
<1>14. CASE CompleteStart(w)
  BY <1>14 DEF CompleteStart
<1>15. CASE CompleteSkips(w)
  BY <1>15 DEF CompleteSkips
<1>16. CASE CompleteReturns(w)
  BY <1>16 DEF CompleteReturns
<1>17. CASE CompleteThrows(w)
  BY <1>17 DEF CompleteThrows
<1>18. CASE CompleteRethrown(w)
  BY <1>18 DEF CompleteRethrown
<1>19. CASE DispatchNext(w)
  BY <1>19 DEF DispatchNext
<1>20. CASE Ack(w)
  BY <1>20 DEF Ack
<1>21. CASE FailJob(w)
  BY <1>21 DEF FailJob
<1>22. CASE FailedHookSkips(w)
  BY <1>22 DEF FailedHookSkips
<1>23. CASE Timeout(w)
  BY <1>23 DEF Timeout
<1>24. CASE Kill(w)
  BY <1>24 DEF Kill
<1> QED
  BY <1>1, <1>2, <1>3, <1>4, <1>5, <1>6, <1>7, <1>8, <1>9, <1>10, <1>11, <1>12,
     <1>13, <1>14, <1>15, <1>16, <1>17, <1>18, <1>19, <1>20, <1>21, <1>22,
     <1>23, <1>24
     DEF Moves, WorkerStep, Generate, Localize, CompleteInfo

(* While only generate jobs are live and none of them has seen localize    *)
(* pending, a failure of localize stays.                                   *)
LEMMA FailureStays ==
    ASSUME IInv, Handlers, NEW w \in Worker, Moves(w),
           Active(w) => StageNow(w) = "generate",
           pc[w] \in {"cut", "hook"} => mem[w]["localize"].status # "pending",
           Stat("localize") = "failed"
    PROVE  Stat("localize")' = "failed"
<1> USE DEF IInv, TypeOK, Active, Stat, Handlers, ItsStage, Handling,
            MarkStage, SkipPendingStages, LoadAndMark, Stage, bounds, ghosts
<1>1. ASSUME NEW j \in Job, Pop(w, j) PROVE Stat("localize")' = "failed"
  BY <1>1 DEF Pop
<1>2. CASE GenerateStart(w)
  BY <1>2 DEF GenerateStart
<1>3. CASE GenerateSkips(w)
  BY <1>3 DEF GenerateSkips
<1>4. CASE GenerateStores(w)
  BY <1>4 DEF GenerateStores
<1>5. CASE GenerateSucceeds(w)
  BY <1>5 DEF GenerateSucceeds
<1>6. CASE GenerateRetries(w)
  BY <1>6 DEF GenerateRetries
<1>7. CASE GenerateFails(w)
  BY <1>7 DEF GenerateFails
<1>8. CASE CutRest(w)
  BY <1>8 DEF CutRest
<1>9. CASE LocalizeStart(w)
  BY <1>9 DEF LocalizeStart
<1>10. CASE LocalizeSkips(w)
  BY <1>10 DEF LocalizeSkips
<1>11. CASE LocalizeSucceeds(w)
  BY <1>11 DEF LocalizeSucceeds
<1>12. CASE LocalizeRetries(w)
  BY <1>12 DEF LocalizeRetries
<1>13. CASE LocalizeFails(w)
  BY <1>13 DEF LocalizeFails
<1>14. CASE CompleteStart(w)
  BY <1>14 DEF CompleteStart
<1>15. CASE CompleteSkips(w)
  BY <1>15 DEF CompleteSkips
<1>16. CASE CompleteReturns(w)
  BY <1>16 DEF CompleteReturns
<1>17. CASE CompleteThrows(w)
  BY <1>17 DEF CompleteThrows
<1>18. CASE CompleteRethrown(w)
  BY <1>18 DEF CompleteRethrown
<1>19. CASE DispatchNext(w)
  BY <1>19 DEF DispatchNext
<1>20. CASE Ack(w)
  BY <1>20 DEF Ack
<1>21. CASE FailJob(w)
  BY <1>21 DEF FailJob
<1>22. CASE FailedHookSkips(w)
  BY <1>22 DEF FailedHookSkips
<1>23. CASE Timeout(w)
  BY <1>23 DEF Timeout
<1>24. CASE Kill(w)
  BY <1>24 DEF Kill
<1> QED
  BY <1>1, <1>2, <1>3, <1>4, <1>5, <1>6, <1>7, <1>8, <1>9, <1>10, <1>11, <1>12,
     <1>13, <1>14, <1>15, <1>16, <1>17, <1>18, <1>19, <1>20, <1>21, <1>22,
     <1>23, <1>24
     DEF Moves, WorkerStep, Generate, Localize, CompleteInfo

(* The chains keep the ends they have.                                     *)
LEMMA StepEnds ==
    ASSUME IInv, Handlers, EndsOK, NEW w \in Worker, Moves(w)
    PROVE  EndsOK'
<1> SUFFICES ASSUME NEW j \in Live'
             PROVE  /\ j.end \in {1, Last - 1, Last}
                    /\ \A i \in Live' : i.end = j.end
                    /\ j.end = Last - 1 => Stat("complete_info")' # "pending"
                    /\ j.end = 1 =>
                         /\ Stat("localize")' # "pending"
                         /\ Stat("complete_info")' = "pending" => Stat("localize")' = "failed"
                         /\ \A v \in Worker : pc'[v] \in {"cut", "hook"} \cup Handling =>
                                mem'[v]["localize"].status # "pending"
  BY DEF EndsOK
<1>1. PICK k \in Live : j.end = k.end
  BY LiveSteps DEF LiveStep
<1>2. \A i \in Live' : i.end = j.end
  BY <1>1, LiveSteps DEF EndsOK, LiveStep
<1>3. \A t \in Stage : Stat(t)' = "pending" => Stat(t) = "pending"
  BY NoNewPending DEF Stat
<1>4. ASSUME j.end = 1
      PROVE  /\ Stat("complete_info")' = "pending" => Stat("localize")' = "failed"
             /\ \A v \in Worker : pc'[v] \in {"cut", "hook"} \cup Handling =>
                    mem'[v]["localize"].status # "pending"
  <2>1. \A i \in Live : i.end = 1
    BY <1>1, <1>4 DEF EndsOK
  <2>2. /\ Stat("localize") # "pending"
        /\ Stat("complete_info") = "pending" => Stat("localize") = "failed"
        /\ \A v \in Worker : pc[v] \in {"cut", "hook"} \cup Handling =>
               mem[v]["localize"].status # "pending"
    BY <1>1, <1>4 DEF EndsOK
  <2>3. Active(w) => StageNow(w) = "generate"
    <3>1. Active(w) => job[w] \in Live
      BY DEF Live
    <3>2. Active(w) => job[w].at = 1
      BY <3>1, <2>1, JobOf, LastType DEF IInv
    <3> QED BY <3>2 DEF StageNow, StageOf
  <2>4. Stat("localize") = "failed" => Stat("localize")' = "failed"
    BY <2>2, <2>3, FailureStays DEF Handling
  <2>5. \A v \in Worker \ {w} : pc'[v] = pc[v] /\ mem'[v] = mem[v]
    BY WorkerFrame DEF Alone
  <2>6. pc'[w] \in {"cut", "hook"} \cup Handling => mem'[w]["localize"].status # "pending"
    BY <1>3, <2>2, CopyInHand DEF Stat, Stage
  <2> QED BY <1>3, <2>2, <2>4, <2>5, <2>6 DEF Stage
<1> QED BY <1>1, <1>2, <1>3, <1>4 DEF EndsOK, Stage

(* Where the stages begin and end in a chain.                              *)
LEMMA StagePositions ==
    ASSUME NEW s \in Stage
    PROVE  /\ StageOf(FirstOf(s)) = s /\ FirstOf(s) \in 1..Last
           /\ LastOf(s) \in {1, Last - 1, Last} /\ LastOf(s) \in 1..Last
           /\ LastOf(s) = 1 <=> s = "generate"
           /\ LastOf(s) = Last <=> s = "complete_info"
           /\ FirstOf(s) = 1 <=> s = "generate"
           /\ FirstOf(s) = 2 <=> s = "localize"
           /\ FirstOf(s) = Last <=> s = "complete_info"
BY LastType DEF Stage, StageOf, FirstOf, LastOf

(* The chain a retry commits to.                                           *)
LEMMA RetryFacts ==
    ASSUME TypeOK, NEW s \in Stage, RetryStage(s)
    PROVE  \E f \in ResetBy(s) :
               /\ \A u \in ResetBy(s) : StageIndex(u) <= StageIndex(f)
               /\ requeue' = {Chain(FirstOf(s), LastOf(f))}
               /\ Chain(FirstOf(s), LastOf(f)) \in Job
               /\ f \in Stage
<1> DEFINE f == CHOOSE t \in ResetBy(s) :
                    \A u \in ResetBy(s) : StageIndex(u) <= StageIndex(t)
<1>1. f \in ResetBy(s) /\ \A u \in ResetBy(s) : StageIndex(u) <= StageIndex(f)
  BY ResetHasLast
<1>2. f \in Stage /\ StageIndex(s) <= StageIndex(f)
  BY <1>1 DEF ResetBy
<1>3. requeue' = {Chain(FirstOf(s), LastOf(f))}
  BY DEF RetryStage
<1> HIDE DEF f
<1> QED BY <1>1, <1>2, <1>3, RetryChainType

(* Nobody holds anything when no job is live.                              *)
LEMMA IdleFacts ==
    ASSUME TypeOK, NoLiveJob
    PROVE  /\ \A t \in Stage : ~Held(t) /\ ~Tok(t)
           /\ \A v \in Worker : pc[v] = "idle"
BY DEF NoLiveJob, Held, Tok, Waiting, At

(* A retry that overlaps no live job resets the stages its chain covers,   *)
(* and no other stage was unfinished.                                      *)
LEMMA RetryCover ==
    ASSUME IInv, Cover, NoLiveJob, NEW s \in Stage, RetryStage(s)
    PROVE  EndsOK' /\ Cover'
<1>0. TypeOK /\ Stage = {"generate", "localize", "complete_info"}
  BY DEF IInv, Stage
<1>1. PICK f \in ResetBy(s) :
               /\ \A u \in ResetBy(s) : StageIndex(u) <= StageIndex(f)
               /\ requeue' = {Chain(FirstOf(s), LastOf(f))}
               /\ Chain(FirstOf(s), LastOf(f)) \in Job
               /\ f \in Stage
  BY <1>0, RetryFacts
<1>2. /\ \A v \in Worker : pc'[v] = "idle" /\ pc[v] = "idle"
      /\ \A j \in Job : queue'[j] = 0
      /\ row[s].status = "failed"
      /\ \A t \in Stage : row'[t] = IF t \in ResetBy(s) THEN Fresh ELSE row[t]
      /\ ResetBy(s) \subseteq Stage /\ s \in ResetBy(s)
  BY IdleFacts DEF NoLiveJob, RetryStage, ResetBy, StageIndex, Stage
<1>3. /\ \A t \in Stage : Stat(t) # "processing"
      /\ Stat("generate") # "pending"
      /\ Stat("localize") = "pending" => Stat("generate") = "failed"
      /\ Stat("complete_info") = "pending" =>
         \/ Stat("localize") = "failed"
         \/ Stat("localize") \in {"pending", "skipped"} /\ Stat("generate") = "failed"
  BY <1>0, IdleFacts DEF Cover
<1>4. Held(s)' /\ Tok(s)'
  <2> DEFINE c == Chain(FirstOf(s), LastOf(f))
  <2>1. c \in Job /\ c \in requeue' /\ c.at = FirstOf(s)
    BY <1>1 DEF Chain
  <2> HIDE DEF c
  <2>2. Waiting(s)'
    BY <2>1, StagePositions DEF Waiting
  <2> QED BY <2>2 DEF Held, Tok
<1>5. \A j \in Live' : j.end = LastOf(f)
  BY <1>1, <1>2 DEF Live, Active, Chain
<1>6. \A t \in Stage : Stat(t)' = IF t \in ResetBy(s) THEN "pending" ELSE Stat(t)
  BY <1>2 DEF Stat, Fresh
<1>7. Stat(s) = "failed"
  BY <1>2 DEF Stat
<1>8. /\ s = "generate" => /\ "localize" \in ResetBy(s) <=>
                                Stat("localize") \in {"skipped", "pending"}
                           /\ "complete_info" \in ResetBy(s) <=>
                                /\ Stat("localize") \in {"skipped", "pending"}
                                /\ Stat("complete_info") \in {"skipped", "pending"}
      /\ s = "localize" => /\ "generate" \notin ResetBy(s)
                           /\ "complete_info" \in ResetBy(s) <=>
                                Stat("complete_info") \in {"skipped", "pending"}
      /\ s = "complete_info" => ResetBy(s) = {s}
  BY <1>0 DEF ResetBy, StageIndex, Stat
<1>9. Cover'
  <2>1. CASE s = "generate"
    BY <1>0, <1>2, <1>3, <1>4, <1>6, <1>7, <1>8, <2>1 DEF Cover
  <2>2. CASE s = "localize"
    BY <1>0, <1>2, <1>3, <1>4, <1>6, <1>7, <1>8, <2>2 DEF Cover
  <2>3. CASE s = "complete_info"
    BY <1>0, <1>2, <1>3, <1>4, <1>6, <1>7, <1>8, <2>3 DEF Cover
  <2> QED BY <1>0, <2>1, <2>2, <2>3
<1>10. /\ LastOf(f) \in {1, Last - 1, Last}
       /\ LastOf(f) = Last - 1 => Stat("complete_info")' # "pending"
       /\ LastOf(f) = 1 => /\ Stat("localize")' # "pending"
                           /\ \/ Stat("complete_info")' # "pending"
                              \/ Stat("localize")' = "failed"
  <2>1. /\ LastOf(f) \in {1, Last - 1, Last}
        /\ LastOf(f) = 1 <=> f = "generate"
        /\ LastOf(f) = Last - 1 <=> f = "localize"
    BY <1>1, StagePositions, LastType DEF LastOf, Stage
  <2>2. f = "generate" => /\ s = "generate"
                          /\ "localize" \notin ResetBy(s)
                          /\ "complete_info" \notin ResetBy(s)
    BY <1>0, <1>1, <1>2 DEF StageIndex, ResetBy
  <2>3. f = "localize" => /\ s # "complete_info"
                          /\ "localize" \in ResetBy(s)
                          /\ "complete_info" \notin ResetBy(s)
    BY <1>0, <1>1, <1>2 DEF StageIndex, ResetBy
  <2> QED BY <1>0, <2>1, <2>2, <2>3, <1>3, <1>6, <1>7, <1>8
<1>11. EndsOK'
  BY <1>2, <1>5, <1>10 DEF EndsOK, Handling
<1> QED BY <1>9, <1>11

(* Dispatching the chain changes where it waits.                           *)
LEMMA DispatchCover ==
    ASSUME IInv, EndsOK, Cover, DispatchRetry
    PROVE  EndsOK' /\ Cover'
<1>1. PICK j \in requeue : Enqueue(j) /\ requeue' = requeue \ {j}
  BY DEF DispatchRetry
<1>2. /\ UNCHANGED <<row, pc, job, mem>> /\ j \in Job
      /\ \A i \in Job : queue[i] > 0 \/ i \in requeue => queue'[i] > 0 \/ i \in requeue'
      /\ \A i \in Job : queue'[i] > 0 \/ i \in requeue' => queue[i] > 0 \/ i \in requeue
      /\ requeue' \subseteq Job
  BY <1>1 DEF DispatchRetry, Enqueue, IInv, TypeOK
<1>3. \A t \in Stage : (Held(t) => Held(t)') /\ (Tok(t) => Tok(t)')
  BY <1>2 DEF Held, Tok, Waiting, At, Finishing, StageNow
<1>4. Live' \subseteq Live
  BY <1>2 DEF Live, Active
<1>5. EndsOK'
  BY <1>2, <1>4 DEF EndsOK, Stat
<1>6. Cover'
  BY <1>2, <1>3 DEF Cover, Stat, Stage
<1> QED BY <1>5, <1>6

(* What holds as long as the operator retries only when nothing runs.      *)
PatientOK ==
    /\ ~hasty => MemFresh
    /\ ~hasty /\ lost = 0 => EndsOK /\ Cover

PatientInv == IInv /\ Handlers /\ PatientOK

(* It holds of the node that enqueueNodeChain() starts,                    *)
LEMMA InitPatient == Init => PatientInv
<1> SUFFICES ASSUME Init PROVE PatientInv
  OBVIOUS
<1>1. IInv /\ TypeOK
  BY InitType DEF IInv
<1>2. Handlers /\ MemFresh
  BY DEF Init, Handlers, ItsStage, OwnCopy, Handling, MemFresh, NoMem, Stat
<1>3. Chain(1, Last) \in Job /\ queue[Chain(1, Last)] = 1
  BY LastType, ChainType DEF Init
<1>4. Held("generate") /\ Tok("generate")
  BY <1>3 DEF Held, Tok, Waiting, Chain, StageOf
<1>5. Cover
  <2>1. \A s \in Stage : Stat(s) = "pending"
    BY DEF Init, Stat, Fresh
  <2> QED BY <1>4, <2>1 DEF Cover, Stage
<1>6. \A j \in Live : j.end = Last
  BY DEF Init, Live, Active, Chain
<1>7. EndsOK
  BY <1>6, LastType DEF EndsOK
<1> QED BY <1>1, <1>2, <1>5, <1>7 DEF PatientInv, PatientOK

(* and every step keeps it.                                                *)
LEMMA StepPatient == PatientInv /\ [Next]_vars => PatientInv'
<1> SUFFICES ASSUME PatientInv, [Next]_vars PROVE PatientInv'
  OBVIOUS
<1>1. IInv /\ IInv' /\ TypeOK /\ TypeOK' /\ Handlers
  BY StepType, StepAtItsStage DEF IInv, PatientInv
<1>2. ASSUME NEW w \in Worker, Moves(w) PROVE Handlers' /\ PatientOK'
  <2>1. Handlers'
    BY <1>1, <1>2, StepItsStage, StepOwnCopy DEF Handlers
  <2>2. UNCHANGED <<hasty, lost>>
    BY <1>1, <1>2, WorkerFrame DEF Alone
  <2>3. MemFresh => MemFresh'
    BY <1>1, <1>2, StepMemFresh
  <2>4. MemFresh /\ EndsOK /\ Cover => EndsOK' /\ Cover'
    BY <1>1, <1>2, StepEnds, StepCover
  <2> QED BY <2>1, <2>2, <2>3, <2>4 DEF PatientInv, PatientOK
<1>3. ASSUME NEW s \in Stage, RetryStage(s) PROVE Handlers' /\ PatientOK'
  <2>1. UNCHANGED <<pc, job, mem, lost>>
    BY <1>3 DEF RetryStage
  <2>2. Handlers'
    BY <1>1, <2>1 DEF Handlers, ItsStage, OwnCopy, StageNow
  <2>3. ~hasty' => ~hasty /\ NoLiveJob
    BY <1>3, Zenon DEF RetryStage
  <2>4. NoLiveJob => MemFresh'
    BY <1>1, <2>1 DEF NoLiveJob, Handlers, OwnCopy, MemFresh, NoMem, Fresh
  <2>5. NoLiveJob /\ Cover => EndsOK' /\ Cover'
    BY <1>1, <1>3, RetryCover
  <2> QED BY <2>1, <2>2, <2>3, <2>4, <2>5 DEF PatientInv, PatientOK
<1>4. CASE DispatchRetry
  <2>1. UNCHANGED <<row, pc, job, mem, lost, hasty>>
    BY <1>4 DEF DispatchRetry, ghosts, bounds
  <2>2. Handlers' /\ (MemFresh => MemFresh')
    BY <1>1, <2>1 DEF Handlers, ItsStage, OwnCopy, StageNow, MemFresh, Stat
  <2>3. EndsOK /\ Cover => EndsOK' /\ Cover'
    BY <1>1, <1>4, DispatchCover
  <2> QED BY <1>1, <2>1, <2>2, <2>3 DEF PatientInv, PatientOK
<1>5. CASE LoseRetry
  <2>1. UNCHANGED <<row, pc, job, mem, hasty>> /\ lost' # 0
    BY <1>1, <1>5, NodeAssumption DEF LoseRetry, TypeOK
  <2>2. Handlers' /\ (MemFresh => MemFresh')
    BY <1>1, <2>1 DEF Handlers, ItsStage, OwnCopy, StageNow, MemFresh, Stat
  <2> QED BY <1>1, <2>1, <2>2 DEF PatientInv, PatientOK
<1>6. CASE UNCHANGED vars
  BY <1>6, <1>1
     DEF vars, PatientInv, PatientOK, Handlers, ItsStage, OwnCopy, StageNow,
         MemFresh, Stat, EndsOK, Cover, Live, Active, Held, Tok, Waiting, At,
         Finishing
<1> QED BY <1>1, <1>2, <1>3, <1>4, <1>5, <1>6 DEF PatientInv, Next, Moves

(* When no job is live, nothing is held: every stage is done or cut off by *)
(* a failure.                                                              *)
LEMMA PatientEnough == PatientInv => NeverStuck
<1> SUFFICES ASSUME PatientInv, ~hasty, lost = 0, NoLiveJob,
                    NEW s \in Stage, row[s].status \notin Terminal
             PROVE  \E t \in Stage : row[t].status = "failed"
  BY DEF NeverStuck
<1>1. Cover /\ TypeOK
  BY DEF PatientInv, PatientOK, IInv
<1>2. \A t \in Stage : ~Held(t) /\ ~Tok(t)
  BY <1>1, IdleFacts
<1>3. Stat(s) \in {"pending", "processing"}
  BY <1>1 DEF TypeOK, Column, Status, Stat
<1> QED BY <1>1, <1>2, <1>3 DEF Cover, Stat, Stage

(* Localize has failed or was skipped: its remaining jobs return at once,  *)
(* and only a retry brings it back.                                        *)
Gone == Stat("localize") \in {"skipped", "failed"}
Covers(jobs, p) == 2..p \subseteq jobs

(* A localize job is queued or run only when those before it have served   *)
(* their locales, or when localize is gone.                                *)
ServedOK ==
    /\ Stat("localize") = "succeeded" => Covers(served, Last - 1)
    /\ \A j \in Live : j.at \in 2..(Last - 1) => Covers(served, j.at - 1) \/ Gone
    /\ \A w \in Worker :
        /\ pc[w] = "localize" => Covers(served, job[w].at - 1)
        /\ pc[w] = "returned" /\ StageNow(w) = "localize"
              => Covers(served, job[w].at) \/ Gone

(* What a step of a worker does to the locales served.                     *)
ServedStep(w) ==
    /\ served \subseteq served'
    /\ Gone => Gone' \/ Covers(served', Last - 1)
    /\ Stat("localize")' = "succeeded" =>
          Stat("localize") = "succeeded" \/ Covers(served', Last - 1)
    /\ pc'[w] = "localize" =>
          Active(w) /\ StageNow(w) = "localize" /\ ~Gone /\ job' = job
    /\ pc'[w] = "returned" /\ StageNow(w)' = "localize" =>
          /\ job' = job
          /\ Gone' \/ (pc[w] = "localize" /\ job[w].at \in served')

(* And that it does so.                                                    *)
LEMMA ServedSteps ==
    ASSUME IInv, Handlers, ServedOK, NEW w \in Worker, Moves(w)
    PROVE  ServedStep(w)
<1>0. Stage = {"generate", "localize", "complete_info"} /\ StageNow(w) \in Stage
  BY JobOf DEF IInv, Stage
<1>1s. ASSUME LocalizeSucceeds(w), job[w].at = LastOf("localize")
       PROVE  Covers(served', Last - 1)
  <2>1. /\ Covers(served, job[w].at - 1)
        /\ job[w].at = Last - 1
        /\ served' = served \cup {job[w].at}
    BY <1>1s DEF ServedOK, LocalizeSucceeds, LastOf
  <2> QED BY <2>1, LastType DEF Covers
<1> USE <1>0
        DEF ServedStep, Gone, Active, IInv, TypeOK, Stat, Handlers, ItsStage,
            OwnCopy, Handling, Processing, Succeeded, Failed, Nothing, Cut,
            Written, MarkStage, SkipPendingStages, StageNow, Goto, BecomeIdle,
            Return, Release, Forget, LoadAndMark, bounds, ghosts
<1>1. ASSUME NEW j \in Job, Pop(w, j) PROVE ServedStep(w)
  BY <1>1 DEF Pop
<1>2. CASE GenerateStart(w)
  BY <1>2 DEF GenerateStart
<1>3. CASE GenerateSkips(w)
  BY <1>3 DEF GenerateSkips
<1>4. CASE GenerateStores(w)
  BY <1>4 DEF GenerateStores
<1>5. CASE GenerateSucceeds(w)
  BY <1>5 DEF GenerateSucceeds
<1>6. CASE GenerateRetries(w)
  BY <1>6 DEF GenerateRetries
<1>7. CASE GenerateFails(w)
  BY <1>7 DEF GenerateFails
<1>8. CASE CutRest(w)
  BY <1>8 DEF CutRest
<1>9. CASE LocalizeStart(w)
  BY <1>9 DEF LocalizeStart
<1>10. CASE LocalizeSkips(w)
  BY <1>10 DEF LocalizeSkips
<1>11. CASE LocalizeSucceeds(w)
  BY <1>11, <1>1s DEF LocalizeSucceeds
<1>12. CASE LocalizeRetries(w)
  BY <1>12 DEF LocalizeRetries
<1>13. CASE LocalizeFails(w)
  BY <1>13 DEF LocalizeFails
<1>14. CASE CompleteStart(w)
  BY <1>14 DEF CompleteStart
<1>15. CASE CompleteSkips(w)
  BY <1>15 DEF CompleteSkips
<1>16. CASE CompleteReturns(w)
  BY <1>16 DEF CompleteReturns
<1>17. CASE CompleteThrows(w)
  BY <1>17 DEF CompleteThrows
<1>18. CASE CompleteRethrown(w)
  BY <1>18 DEF CompleteRethrown
<1>19. CASE DispatchNext(w)
  BY <1>19 DEF DispatchNext
<1>20. CASE Ack(w)
  BY <1>20 DEF Ack
<1>21. CASE FailJob(w)
  BY <1>21 DEF FailJob
<1>22. CASE FailedHookSkips(w)
  BY <1>22 DEF FailedHookSkips
<1>23. CASE Timeout(w)
  BY <1>23 DEF Timeout
<1>24. CASE Kill(w)
  BY <1>24 DEF Kill
<1> QED
  BY <1>1, <1>2, <1>3, <1>4, <1>5, <1>6, <1>7, <1>8, <1>9, <1>10, <1>11, <1>12,
     <1>13, <1>14, <1>15, <1>16, <1>17, <1>18, <1>19, <1>20, <1>21, <1>22,
     <1>23, <1>24
     DEF Moves, WorkerStep, Generate, Localize, CompleteInfo

(* Every step of a worker keeps the order in which locales are served.     *)
LEMMA StepServed ==
    ASSUME IInv, Handlers, ServedOK, NEW w \in Worker, Moves(w)
    PROVE  ServedOK'
<1>1. ServedStep(w) /\ LiveStep(w) /\ TypeOK /\ Alone(w)
  BY ServedSteps, LiveSteps, WorkerFrame DEF IInv
<1>2. \A p : Covers(served, p) => Covers(served', p)
  BY <1>1 DEF ServedStep, Covers
<1>3. Stat("localize")' = "succeeded" => Covers(served', Last - 1)
  BY <1>1, <1>2 DEF ServedStep, ServedOK
<1>4. ASSUME NEW j \in Live', j.at \in 2..(Last - 1)
      PROVE  Covers(served', j.at - 1) \/ Gone'
  <2>0. Covers(served', Last - 1) => Covers(served', j.at - 1)
    BY <1>4, LastType DEF Covers
  <2>1. PICK i \in Live : \/ j.at = i.at
                          \/ pc[w] = "returned" /\ i = job[w] /\ j.at = i.at + 1
    BY <1>1 DEF LiveStep
  <2>2. CASE j.at = i.at
    BY <1>1, <1>2, <1>4, <2>0, <2>2 DEF ServedOK, ServedStep
  <2>3. CASE pc[w] = "returned" /\ i = job[w] /\ j.at = i.at + 1
    <3>1. job[w].at \in 1..Last /\ job[w].at + 1 \in 2..(Last - 1)
      BY <1>1, <1>4, <2>3, JobOf
    <3>2. CASE job[w].at = 1
      BY <2>3, <3>2 DEF Covers
    <3>3. CASE job[w].at # 1
      <4>1. StageNow(w) = "localize"
        BY <3>1, <3>3, StageOfType, LastType DEF StageNow
      <4>2. Covers(served, job[w].at) \/ Gone
        BY <2>3, <4>1 DEF ServedOK
      <4>3. j.at - 1 = job[w].at
        BY <2>3, <3>1
      <4> QED BY <1>1, <1>2, <2>0, <4>2, <4>3 DEF ServedStep
    <3> QED BY <3>2, <3>3
  <2> QED BY <2>1, <2>2, <2>3
<1>5. ASSUME NEW v \in Worker, pc'[v] = "localize" PROVE Covers(served', job'[v].at - 1)
  <2>1. CASE v = w
    <3>1. Active(w) /\ StageNow(w) = "localize" /\ ~Gone /\ job' = job
      BY <1>1, <1>5, <2>1 DEF ServedStep
    <3>2. job[w] \in Live /\ job[w].at \in 2..(Last - 1)
      BY <1>1, <3>1, JobOf, StageOfType DEF Live, StageNow
    <3> QED BY <1>2, <2>1, <3>1, <3>2 DEF ServedOK
  <2>2. CASE v # w
    BY <1>1, <1>2, <1>5, <2>2 DEF ServedOK, Alone
  <2> QED BY <2>1, <2>2
<1>6. ASSUME NEW v \in Worker, pc'[v] = "returned", StageNow(v)' = "localize"
      PROVE  Covers(served', job'[v].at) \/ Gone'
  <2>1. CASE v = w
    <3>1. job' = job /\ (Gone' \/ (pc[w] = "localize" /\ job[w].at \in served'))
      BY <1>1, <1>6, <2>1 DEF ServedStep
    <3>2. CASE pc[w] = "localize" /\ job[w].at \in served'
      <4>1. Covers(served', job[w].at - 1) /\ job[w].at \in Nat
        BY <1>1, <1>2, <3>2, JobOf, LastType DEF ServedOK
      <4>2. Covers(served', job[w].at)
        BY <3>1, <3>2, <4>1 DEF Covers
      <4> QED BY <2>1, <3>1, <4>2
    <3> QED BY <3>1, <3>2
  <2>2. CASE v # w
    <3>1. pc[v] = "returned" /\ StageNow(v) = "localize" /\ job'[v] = job[v]
      BY <1>1, <1>6, <2>2 DEF Alone, StageNow
    <3>2. Covers(served, job[v].at) \/ Gone
      BY <3>1 DEF ServedOK
    <3>3. job[v].at \in 2..(Last - 1)
      BY <1>1, <3>1, JobOf, StageOfType DEF StageNow
    <3>4. Covers(served', Last - 1) => Covers(served', job[v].at)
      BY <3>1, <3>3, LastType DEF Covers
    <3> QED BY <1>1, <1>2, <3>1, <3>2, <3>4 DEF ServedStep
  <2> QED BY <2>1, <2>2
<1> QED BY <1>3, <1>4, <1>5, <1>6 DEF ServedOK

(* A retry starts with the first locale again.                             *)
LEMMA RetryServed ==
    ASSUME IInv, ServedOK, NoLiveJob, NEW s \in Stage, RetryStage(s)
    PROVE  ServedOK'
<1>0. TypeOK /\ served' = served
  BY DEF IInv, RetryStage
<1>1. PICK f \in ResetBy(s) : requeue' = {Chain(FirstOf(s), LastOf(f))}
  BY <1>0, RetryFacts
<1>2. /\ \A v \in Worker : pc'[v] = "idle"
      /\ \A j \in Job : queue'[j] = 0
  BY DEF NoLiveJob, RetryStage
<1>3. \A j \in Live' : j.at = FirstOf(s)
  BY <1>1, <1>2 DEF Live, Active, Chain
<1>4. FirstOf(s) \in 2..(Last - 1) => FirstOf(s) = 2
  BY LastType DEF FirstOf, Stage
<1>5. Covers(served', 2 - 1)
  BY DEF Covers
<1>6. Stat("localize")' = "succeeded" => Stat("localize") = "succeeded"
  BY <1>0 DEF RetryStage, Stat, Fresh, TypeOK, Stage
<1> QED BY <1>0, <1>2, <1>3, <1>4, <1>5, <1>6 DEF ServedOK

(* Dispatching its chain, or losing it, serves nobody.                     *)
LEMMA DispatchServed ==
    ASSUME IInv, ServedOK, DispatchRetry \/ LoseRetry
    PROVE  ServedOK'
<1>1. UNCHANGED <<row, pc, job, served>>
  BY DEF DispatchRetry, LoseRetry, ghosts
<1>2. Live' \subseteq Live
  BY DEF DispatchRetry, LoseRetry, Enqueue, IInv, TypeOK, Live, Active
<1> QED BY <1>1, <1>2 DEF ServedOK, Gone, Stat, StageNow

(* The chain's invariant, with and without the locales.                    *)
ChainInv == PatientInv /\ (~hasty => ServedOK)

(* It holds at first,                                                      *)
LEMMA InitChain == Init => ChainInv
<1> SUFFICES ASSUME Init PROVE ServedOK
  BY InitPatient DEF ChainInv
<1>1. \A j \in Live : j.at = 1
  BY DEF Init, Live, Active, Chain
<1> QED BY <1>1 DEF Init, ServedOK, Stat, Fresh, Stage

(* and every step keeps it.                                                *)
LEMMA StepChain == ChainInv /\ [Next]_vars => ChainInv'
<1> SUFFICES ASSUME ChainInv, [Next]_vars PROVE ~hasty' => ServedOK'
  BY StepPatient DEF ChainInv
<1>1. IInv /\ Handlers
  BY DEF ChainInv, PatientInv
<1>2. ASSUME NEW w \in Worker, Moves(w) PROVE ~hasty' => ServedOK'
  <2>1. UNCHANGED hasty
    BY <1>1, <1>2, WorkerFrame DEF Alone
  <2>2. ServedOK => ServedOK'
    BY <1>1, <1>2, StepServed
  <2> QED BY <2>1, <2>2 DEF ChainInv
<1>3. ASSUME NEW s \in Stage, RetryStage(s) PROVE ~hasty' => ServedOK'
  <2>1. ~hasty' => ~hasty /\ NoLiveJob
    BY <1>3, Zenon DEF RetryStage
  <2>2. NoLiveJob /\ ServedOK => ServedOK'
    BY <1>1, <1>3, RetryServed
  <2> QED BY <2>1, <2>2 DEF ChainInv
<1>4. CASE DispatchRetry \/ LoseRetry
  <2>1. UNCHANGED hasty
    BY <1>4 DEF DispatchRetry, LoseRetry, ghosts
  <2>2. ServedOK => ServedOK'
    BY <1>1, <1>4, DispatchServed
  <2> QED BY <2>1, <2>2 DEF ChainInv
<1>5. CASE UNCHANGED vars
  BY <1>5 DEF vars, ChainInv, ServedOK, Gone, Stat, StageNow, Live, Active
<1> QED BY <1>2, <1>3, <1>4, <1>5 DEF Next, Moves

(* Localize succeeds only when every locale is served.                     *)
LEMMA ServedEnough == ChainInv => LocalizedMeansServed
BY DEF ChainInv, PatientInv, IInv, TypeOK, ServedOK, Covers, Stat,
       LocalizedMeansServed

-----------------------------------------------------------------------------
(* The row of a calm node, by stage: what is before the stage at work is   *)
(* done, what is behind it is untouched or cut off, and the stage itself   *)
(* may begin.                                                              *)
DoneUpTo(s) ==
    \A t \in Stage : StageIndex(t) < StageIndex(s) => row[t] \in {Succeeded, Nothing}
From(s, column) ==
    \A t \in Stage : StageIndex(t) > StageIndex(s) => row[t] = column
Begun(s) ==
    \/ row[s] \in {Fresh, Processing}
    \/ row[s] = Nothing /\ s = "localize"
    \/ row[s] = Failed /\ s = "complete_info"

Ready(s) == DoneUpTo(s) /\ Begun(s) /\ From(s, Fresh)
Stopped(s) == DoneUpTo(s) /\ row[s] = Failed /\ From(s, Cut)

(* The row and the copy of it that a worker has, by where the worker is in *)
(* its job.                                                                *)
Shape(s, w) ==
    /\ DoneUpTo(s) /\ job[w].end = Last
    /\ pc[w] # "fail" => From(s, Fresh)
    /\ pc[w] = "start" => Begun(s)
    /\ pc[w] \in Handling => row[s] = Processing /\ mem[w] = row
    /\ pc[w] = "cut" => row[s] = Failed /\ mem[w] = [row EXCEPT ![s] = Processing]
    /\ pc[w] = "hook" => row[s] = Failed /\ mem[w] = row
    /\ pc[w] = "thrown" => row[s] = Failed
    /\ pc[w] = "fail" => Ready(s) \/ Stopped(s)
    /\ pc[w] = "returned" =>
         \/ row[s] = Nothing
         \/ row[s] = Succeeded /\ job[w].at = LastOf(s)
         \/ row[s] = Processing /\ job[w].at # LastOf(s)
         \/ row[s] = Failed /\ s = "complete_info"

(* The row when nothing is left to run: all done, stopped by a failure     *)
(* that cut the rest off, or reset by a retry whose chain was lost.        *)
AtRest ==
    \/ \A s \in Stage : row[s] \in {Succeeded, Nothing}
    \/ \E s \in Stage : Stopped(s)
    \/ \E s \in Stage : DoneUpTo(s) /\ row[s] = Fresh /\ From(s, Fresh) /\ lost > 0

NoToken ==
    /\ \A j \in Job : queue[j] = 0
    /\ requeue = {}
    /\ \A w \in Worker : ~Executing(w)

(* A calm node has one of these shapes.                                    *)
Shapes ==
    /\ \A j \in Job : queue[j] > 0 => j.end = Last /\ Ready(StageOf(j.at))
    /\ \A j \in requeue : /\ j.end = Last /\ Ready(StageOf(j.at))
                          /\ row[StageOf(j.at)] = Fresh
    /\ \A w \in Worker : Executing(w) => Shape(StageNow(w), w)
    /\ NoToken => AtRest

(* A stage is entered after the earlier ones have ended, and success is    *)
(* kept.                                                                   *)
KeptStep ==
    /\ \A s, t \in Stage :
          /\ StageIndex(t) < StageIndex(s)
          /\ row[s].status # "processing" /\ row'[s].status = "processing"
          => row[t].status \in Terminal
    /\ \A s \in Stage :
          row[s].status = "succeeded" => row'[s].status = "succeeded"

(* What save() writes over a row that nobody else has changed.             *)
LEMMA WrittenFacts ==
    /\ \A new \in {Succeeded, Nothing, Failed} : Written(Processing, Processing, new) = new
    /\ Written(Fresh, Fresh, Cut) = Cut
    /\ Fresh.status = "pending" /\ Processing.status = "processing"
    /\ Succeeded.status = "succeeded" /\ Failed.status = "failed"
    /\ Nothing.status = "skipped" /\ Cut.status = "skipped"
BY DEF Written, Processing, Succeeded, Nothing, Failed, Fresh, Cut

(* The one live job of a calm node is in the hands of a worker,            *)
LEMMA ShapeOfWorker ==
    ASSUME OneToken', NEW w \in Worker, Executing(w)', Shape(StageNow(w), w)'
    PROVE  Shapes'
BY DEF OneToken, Shapes, NoToken

(* or it is queued,                                                        *)
LEMMA ShapeOfJob ==
    ASSUME OneToken', NEW j \in Job, queue'[j] > 0, j.end = Last,
           Ready(StageOf(j.at))'
    PROVE  Shapes'
BY DEF OneToken, Shapes, NoToken

(* or there is none,                                                       *)
LEMMA ShapeAtRest ==
    ASSUME NoToken', AtRest'
    PROVE  Shapes'
BY DEF NoToken, Shapes

(* or it has just been put back.                                           *)
LEMMA ShapeReleased ==
    ASSUME TypeOK, OneToken', NEW w \in Worker, NEW s \in Stage, s = StageNow(w),
           job[w].end = Last, Ready(s), UNCHANGED row, Enqueue(job[w])
    PROVE  Shapes'
<1>1. PICK j \in Job : j = job[w]
  BY DEF TypeOK
<1>2. queue'[j] > 0 /\ j.end = Last /\ StageOf(j.at) = s
  BY <1>1 DEF Enqueue, TypeOK, StageNow
<1>3. Ready(s)'
  BY DEF Ready, DoneUpTo, Begun, From
<1> QED BY <1>2, <1>3, ShapeOfJob

(* skipPendingStages() cuts off what is behind the failed stage.           *)
LEMMA SkipsRest ==
    ASSUME TypeOK, NEW w \in Worker, NEW s \in Stage, SkipPendingStages(w),
           DoneUpTo(s), From(s, Fresh), row[s] = Failed,
           mem[w] = row \/ mem[w] = [row EXCEPT ![s] = Processing]
    PROVE  Stopped(s)' /\ KeptStep
<1>1. \A t \in Stage : row'[t] = IF mem[w][t].status = "pending"
                                 THEN Written(row[t], mem[w][t], Cut) ELSE row[t]
  BY DEF SkipPendingStages
<1>2. row'[s] = Failed
  BY <1>1, WrittenFacts DEF TypeOK
<1>3. \A t \in Stage : StageIndex(t) < StageIndex(s) => row'[t] = row[t]
  BY <1>1, WrittenFacts DEF TypeOK, DoneUpTo, StageIndex, Stage
<1>4. \A t \in Stage : StageIndex(t) > StageIndex(s) => row'[t] = Cut /\ row[t] = Fresh
  BY <1>1, WrittenFacts DEF TypeOK, From, StageIndex, Stage
<1>5. \A t \in Stage : t = s \/ StageIndex(t) < StageIndex(s) \/ StageIndex(t) > StageIndex(s)
  BY DEF StageIndex, Stage
<1> QED BY <1>2, <1>3, <1>4, <1>5, WrittenFacts
           DEF Stopped, DoneUpTo, From, KeptStep

(* Nothing else is live while a worker of a calm node executes.            *)
LEMMA OwnToken ==
    ASSUME IInv, OneToken, NEW w \in Worker, Executing(w), Moves(w)
    PROVE  /\ \A j \in Job : queue[j] = 0
           /\ requeue = {} /\ requeue' = {}
           /\ \A v \in Worker \ {w} : ~Executing(v)'
BY WorkerFrame DEF OneToken, Alone, Executing

(* A step at one stage leaves the others as they were.                     *)
LEMMA OwnStage ==
    ASSUME NEW s \in Stage, \A t \in Stage \ {s} : row'[t] = row[t]
    PROVE  /\ DoneUpTo(s) => DoneUpTo(s)'
           /\ \A c : From(s, c) => From(s, c)'
BY DEF DoneUpTo, From, StageIndex, Stage

(* A step at one stage keeps order and success,                            *)
LEMMA KeptAt ==
    ASSUME NEW s \in Stage, \A t \in Stage \ {s} : row'[t] = row[t], DoneUpTo(s),
           row[s].status = "succeeded" => row'[s].status = "succeeded"
    PROVE  KeptStep
<1>1. \A t \in Stage : StageIndex(t) < StageIndex(s) => row[t].status \in Terminal
  BY WrittenFacts DEF DoneUpTo, Terminal
<1> QED BY <1>1 DEF KeptStep

(* and so does one that leaves the row alone.                              *)
LEMMA KeptSame ==
    ASSUME UNCHANGED row
    PROVE  KeptStep
BY DEF KeptStep

(* A worker that goes on with its job goes on in shape.                    *)
LEMMA ShapeStep ==
    ASSUME OneToken', NEW w \in Worker, NEW s \in Stage, s = StageNow(w),
           Shape(s, w), job'[w] = job[w],
           \A t \in Stage \ {s} : row'[t] = row[t],
           row[s].status = "succeeded" => row'[s].status = "succeeded",
           From(s, Fresh), pc'[w] \notin {"idle", "ack", "start"},
           pc'[w] \in Handling => row'[s] = Processing /\ mem'[w] = row',
           pc'[w] = "cut" => row'[s] = Failed /\ mem'[w] = [row' EXCEPT ![s] = Processing],
           pc'[w] = "hook" => row'[s] = Failed /\ mem'[w] = row',
           pc'[w] = "thrown" => row'[s] = Failed,
           pc'[w] = "fail" => Begun(s)',
           pc'[w] = "returned" =>
             \/ row'[s] = Nothing
             \/ row'[s] = Succeeded /\ job[w].at = LastOf(s)
             \/ row'[s] = Processing /\ job[w].at # LastOf(s)
             \/ row'[s] = Failed /\ s = "complete_info"
    PROVE  Shapes' /\ KeptStep
<1>1. DoneUpTo(s) /\ DoneUpTo(s)' /\ From(s, Fresh)' /\ job[w].end = Last
  BY OwnStage DEF Shape
<1>2. StageNow(w)' = s /\ Executing(w)'
  BY DEF StageNow, Executing
<1>3. Shape(s, w)'
  BY <1>1 DEF Shape, Ready
<1> QED BY <1>1, <1>2, <1>3, ShapeOfWorker, KeptAt

(* Every step of a worker takes a calm node from shape to shape.           *)
LEMMA StepShapes ==
    ASSUME IInv, Handlers, OneToken, OneToken', Shapes, NEW w \in Worker, Moves(w), ~Kill(w)
    PROVE  Shapes' /\ KeptStep
<1>s. PICK s \in Stage : s = StageNow(w)
  BY JobOf DEF IInv
<1>0. /\ TypeOK /\ s = StageNow(w) /\ job[w] \in Job /\ ItsStage
      /\ Stage = {"generate", "localize", "complete_info"}
      /\ Executing(w) => Shape(s, w)
  BY <1>s, JobOf DEF IInv, Stage, Shapes, Handlers
<1> USE <1>0
        DEF Executing, ItsStage, Handling, TypeOK, Goto, BecomeIdle, Return,
            Forget, LoadAndMark, MarkStage, bounds, ghosts
<1>1. ASSUME NEW j \in Job, Pop(w, j) PROVE Shapes' /\ KeptStep
  <2>1. PICK k \in Job : job' = [job EXCEPT ![w] = k] /\ k.at = j.at /\ k.end = j.end
    BY <1>1, NextTry DEF Pop
  <2>2. UNCHANGED row /\ queue[j] > 0 /\ pc'[w] \in {"start", "fail"}
    BY <1>1 DEF Pop
  <2>3. PICK t \in Stage : t = StageOf(j.at)
    BY JobType, StageOfType
  <2>4. j.end = Last /\ DoneUpTo(t) /\ Begun(t) /\ From(t, Fresh)
    BY <2>2, <2>3 DEF Shapes, Ready
  <2>5. DoneUpTo(t)' /\ Begun(t)' /\ From(t, Fresh)'
    BY <2>2, <2>4 DEF DoneUpTo, Begun, From
  <2>6. job'[w].end = Last /\ StageNow(w)' = t
    BY <2>1, <2>3, <2>4 DEF StageNow
  <2>7. Shape(t, w)'
    BY <2>2, <2>5, <2>6 DEF Shape, Ready
  <2> QED BY <2>2, <2>6, <2>7, ShapeOfWorker, KeptSame
<1>2. CASE GenerateStart(w)
  <2>1. Shape(s, w) /\ From(s, Fresh) /\ DoneUpTo(s)
    BY <1>2 DEF GenerateStart, Shape
  <2> QED BY <1>2, <2>1, ShapeStep, WrittenFacts
             DEF GenerateStart, Shape, Begun
<1>3. CASE GenerateSkips(w)
  <2>1. Shape(s, w) /\ From(s, Fresh) /\ DoneUpTo(s)
    BY <1>3 DEF GenerateSkips, Shape
  <2> QED BY <1>3, <2>1, ShapeStep, WrittenFacts
             DEF GenerateSkips, Shape, Begun
<1>4. CASE GenerateStores(w)
  <2>1. Shape(s, w) /\ From(s, Fresh) /\ DoneUpTo(s)
    BY <1>4 DEF GenerateStores, Shape
  <2> QED BY <1>4, <2>1, ShapeStep, WrittenFacts
             DEF GenerateStores, Shape, Begun
<1>5. CASE GenerateSucceeds(w)
  <2>1. Shape(s, w) /\ From(s, Fresh) /\ DoneUpTo(s)
    BY <1>5 DEF GenerateSucceeds, Shape
  <2>2. job[w].at = LastOf(s)
    BY <1>5, JobOf, StageOfType DEF GenerateSucceeds, StageNow, LastOf
  <2> QED BY <1>5, <2>1, <2>2, ShapeStep, WrittenFacts
             DEF GenerateSucceeds, Shape, Begun
<1>6. CASE GenerateRetries(w)
  <2>1. Shape(s, w) /\ UNCHANGED row /\ Enqueue(job[w]) /\ Executing(w)
    BY <1>6 DEF GenerateRetries, Release
  <2> QED BY <2>1, <1>6, ShapeReleased, KeptSame
             DEF GenerateRetries, Shape, Begun, Ready
<1>7. CASE GenerateFails(w)
  <2>1. Shape(s, w) /\ From(s, Fresh) /\ DoneUpTo(s)
    BY <1>7 DEF GenerateFails, Shape
  <2> QED BY <1>7, <2>1, ShapeStep, WrittenFacts
             DEF GenerateFails, Shape, Begun
<1>8. CASE CutRest(w)
  <2>1. /\ DoneUpTo(s) /\ From(s, Fresh) /\ row[s] = Failed /\ job[w].end = Last
        /\ mem[w] = [row EXCEPT ![s] = Processing]
    BY <1>8 DEF CutRest, Shape
  <2>2. SkipPendingStages(w) /\ pc'[w] = "fail" /\ job'[w] = job[w]
    BY <1>8 DEF CutRest
  <2>3. Stopped(s)' /\ KeptStep
    BY <2>1, <2>2, SkipsRest
  <2>4. Shape(s, w)' /\ StageNow(w)' = s
    BY <2>1, <2>2, <2>3 DEF Shape, Stopped, StageNow
  <2> QED BY <2>2, <2>3, <2>4, ShapeOfWorker
<1>9. CASE LocalizeStart(w)
  <2>1. Shape(s, w) /\ From(s, Fresh) /\ DoneUpTo(s)
    BY <1>9 DEF LocalizeStart, Shape
  <2> QED BY <1>9, <2>1, ShapeStep, WrittenFacts
             DEF LocalizeStart, Shape, Begun
<1>10. CASE LocalizeSkips(w)
  <2>1. Shape(s, w) /\ From(s, Fresh) /\ DoneUpTo(s)
    BY <1>10 DEF LocalizeSkips, Shape
  <2> QED BY <1>10, <2>1, ShapeStep, WrittenFacts
             DEF LocalizeSkips, Shape, Begun
<1>11. CASE LocalizeSucceeds(w)
  <2>1. Shape(s, w) /\ From(s, Fresh) /\ DoneUpTo(s)
    BY <1>11 DEF LocalizeSucceeds, Shape
  <2> QED BY <1>11, <2>1, ShapeStep, WrittenFacts
             DEF LocalizeSucceeds, Shape, Begun
<1>12. CASE LocalizeRetries(w)
  <2>1. Shape(s, w) /\ UNCHANGED row /\ Enqueue(job[w]) /\ Executing(w)
    BY <1>12 DEF LocalizeRetries, Release
  <2> QED BY <2>1, <1>12, ShapeReleased, KeptSame
             DEF LocalizeRetries, Shape, Begun, Ready
<1>13. CASE LocalizeFails(w)
  <2>1. Shape(s, w) /\ From(s, Fresh) /\ DoneUpTo(s)
    BY <1>13 DEF LocalizeFails, Shape
  <2>2. /\ row'[s] = Failed /\ mem'[w] = [row' EXCEPT ![s] = Processing]
        /\ \A t \in Stage \ {s} : row'[t] = row[t]
    BY <1>13, <2>1, WrittenFacts DEF LocalizeFails, Shape
  <2> QED BY <1>13, <2>1, <2>2, ShapeStep, WrittenFacts
             DEF LocalizeFails, Shape
<1>14. CASE CompleteStart(w)
  <2>1. Shape(s, w) /\ From(s, Fresh) /\ DoneUpTo(s)
    BY <1>14 DEF CompleteStart, Shape
  <2> QED BY <1>14, <2>1, ShapeStep, WrittenFacts
             DEF CompleteStart, Shape, Begun
<1>15. CASE CompleteSkips(w)
  <2>1. Shape(s, w) /\ From(s, Fresh) /\ DoneUpTo(s)
    BY <1>15 DEF CompleteSkips, Shape
  <2> QED BY <1>15, <2>1, ShapeStep, WrittenFacts
             DEF CompleteSkips, Shape, Begun
<1>16. CASE CompleteReturns(w)
  <2>1. Shape(s, w) /\ From(s, Fresh) /\ DoneUpTo(s)
    BY <1>16 DEF CompleteReturns, Shape
  <2>2. job[w].at = LastOf(s)
    BY <1>16, JobOf, StageOfType DEF CompleteReturns, StageNow, LastOf
  <2> QED BY <1>16, <2>1, <2>2, ShapeStep, WrittenFacts
             DEF CompleteReturns, Shape, Begun
<1>17. CASE CompleteThrows(w)
  <2>1. Shape(s, w) /\ From(s, Fresh) /\ DoneUpTo(s)
    BY <1>17 DEF CompleteThrows, Shape
  <2> QED BY <1>17, <2>1, ShapeStep, WrittenFacts
             DEF CompleteThrows, Shape, Begun
<1>18. CASE CompleteRethrown(w)
  <2>1. Shape(s, w) /\ row[s] = Failed /\ s = "complete_info" /\ UNCHANGED row
    BY <1>18 DEF CompleteRethrown, Shape
  <2>2. Begun(s) /\ From(s, Fresh) /\ DoneUpTo(s)
    BY <1>18, <2>1 DEF CompleteRethrown, Shape, Begun
  <2>3. CASE Release(w)
    BY <1>18, <2>1, <2>2, <2>3, ShapeReleased, KeptSame
       DEF CompleteRethrown, Release, Ready, Shape
  <2>4. CASE ~Release(w)
    BY <1>18, <2>1, <2>2, <2>4, ShapeStep DEF CompleteRethrown, Begun
  <2> QED BY <2>3, <2>4
<1>19. CASE DispatchNext(w)
  <2>1. /\ DoneUpTo(s) /\ From(s, Fresh) /\ job[w].end = Last
        /\ \/ row[s] = Nothing
           \/ row[s] = Succeeded /\ job[w].at = LastOf(s)
           \/ row[s] = Processing /\ job[w].at # LastOf(s)
           \/ row[s] = Failed /\ s = "complete_info"
        /\ UNCHANGED row /\ pc'[w] = "ack" /\ Executing(w)
    BY <1>19 DEF DispatchNext, Shape
  <2>2. CASE job[w].at < job[w].end
    <3>1. Chain(job[w].at + 1, Last) \in Job
      BY <2>1, <2>2, JobType
    <3>2. PICK t \in Stage : t = StageOf(job[w].at + 1)
      BY <2>2, JobOf, StageOfType, LastType
    <3>3. \/ t = s /\ s = "localize" /\ job[w].at # LastOf(s)
          \/ s = "generate" /\ t = "localize" /\ job[w].at = LastOf(s)
          \/ s = "localize" /\ t = "complete_info" /\ job[w].at = LastOf(s)
      BY <2>1, <2>2, <3>2, JobOf, StageOfType, LastType DEF StageNow, LastOf
    <3>4. DoneUpTo(t) /\ Begun(t) /\ From(t, Fresh)
      BY <2>1, <3>3 DEF DoneUpTo, Begun, From, StageIndex
    <3>5. Ready(t)'
      BY <2>1, <3>4 DEF Ready, DoneUpTo, Begun, From
    <3>6. queue'[Chain(job[w].at + 1, Last)] > 0
      BY <1>19, <2>1, <2>2, <3>1 DEF DispatchNext, Enqueue
    <3> DEFINE c == Chain(job[w].at + 1, Last)
    <3>7. PICK d \in Job : queue'[d] > 0 /\ d.end = Last /\ t = StageOf(d.at)
      BY <3>1, <3>2, <3>6 DEF Chain
    <3> QED BY <2>1, <3>5, <3>7, ShapeOfJob, KeptSame
  <2>3. CASE ~(job[w].at < job[w].end)
    <3>1. job[w].at = Last
      BY <2>1, <2>3, JobOf, LastType
    <3>2. s = "complete_info" /\ job[w].at = LastOf(s)
      BY <3>1, LastType DEF StageNow, StageOf, LastOf
    <3>3. AtRest
      BY <2>1, <3>2 DEF AtRest, DoneUpTo, Stopped, From, StageIndex
    <3>4. AtRest'
      <4>1. lost' = lost
        BY WorkerFrame DEF Alone
      <4> QED BY <2>1, <3>3, <4>1 DEF AtRest, DoneUpTo, Stopped, From
    <3>5. NoToken'
      BY <1>19, <2>1, <2>3, OwnToken DEF DispatchNext, NoToken
    <3> QED BY <2>1, <3>4, <3>5, ShapeAtRest, KeptSame
  <2> QED BY <2>2, <2>3
<1>20. CASE Ack(w)
  <2>1. UNCHANGED <<row, queue, requeue>> /\ ~Executing(w) /\ ~Executing(w)'
    BY <1>20 DEF Ack
  <2>2. /\ \A v \in Worker \ {w} : pc'[v] = pc[v] /\ job'[v] = job[v] /\ mem'[v] = mem[v]
        /\ lost' = lost
    BY WorkerFrame DEF Alone
  <2>3. NoToken' => NoToken
    BY <2>1, <2>2 DEF NoToken
  <2>4. AtRest => AtRest'
    BY <2>1, <2>2 DEF AtRest, DoneUpTo, Stopped, From
  <2>5. \A t \in Stage : (DoneUpTo(t) <=> DoneUpTo(t)') /\ (Begun(t) <=> Begun(t)')
                         /\ (From(t, Fresh) <=> From(t, Fresh)')
                         /\ (From(t, Cut) <=> From(t, Cut)')
    BY <2>1 DEF DoneUpTo, Begun, From
  <2>6. ASSUME NEW v \in Worker, Executing(v)' PROVE Shape(StageNow(v), v)'
    <3>1. v # w /\ Executing(v)
      BY <2>1, <2>2, <2>6
    <3>2. PICK t \in Stage : t = StageNow(v)
      BY JobOf
    <3>3. Shape(t, v) /\ StageNow(v)' = t
      BY <2>2, <3>1, <3>2 DEF Shapes, StageNow
    <3>4. Shape(t, v)'
      BY <2>1, <2>2, <2>5, <3>1, <3>3 DEF Shape, Ready, Stopped
    <3> QED BY <3>3, <3>4
  <2>7. \A j \in Job : Ready(StageOf(j.at)) => Ready(StageOf(j.at))'
    BY <2>1 DEF Ready, DoneUpTo, Begun, From
  <2>8. requeue \subseteq Job
    OBVIOUS
  <2> QED BY <2>1, <2>3, <2>4, <2>6, <2>7, <2>8, KeptSame DEF Shapes
<1>21. CASE FailJob(w)
  <2>1. /\ DoneUpTo(s) /\ job[w].end = Last /\ Executing(w)
        /\ Ready(s) \/ Stopped(s)
    BY <1>21 DEF FailJob, Shape
  <2>2. \A j \in Job : queue[j] = 0 /\ queue'[j] = 0
    BY <1>21, <2>1, OwnToken DEF FailJob
  <2>3. CASE row[s].status = "failed"
    <3>1. UNCHANGED row /\ pc'[w] = "idle"
      BY <1>21, <2>3 DEF FailJob
    <3>2. Stopped(s)
      BY <2>1, <2>3, WrittenFacts DEF Ready, Begun, Stopped, From, StageIndex
    <3>3. Stopped(s)'
      BY <3>1, <3>2 DEF Stopped, DoneUpTo, From
    <3>4. NoToken'
      BY <2>1, <2>2, <3>1, OwnToken DEF NoToken
    <3> QED BY <3>1, <3>3, <3>4, ShapeAtRest, KeptSame DEF AtRest
  <2>4. CASE row[s].status # "failed" /\ s = "complete_info"
    <3>1. /\ \A t \in Stage \ {s} : row'[t] = row[t]
          /\ row'[s] = Failed /\ pc'[w] = "idle"
      BY <1>21, <2>4 DEF FailJob
    <3>2. row[s].status # "succeeded"
      BY <2>1, WrittenFacts DEF Ready, Begun, Stopped
    <3>3. Stopped(s)'
      BY <2>1, <2>4, <3>1, OwnStage DEF Stopped, From, StageIndex
    <3>4. NoToken'
      BY <2>1, <2>2, <3>1, OwnToken DEF NoToken
    <3> QED BY <2>1, <3>1, <3>2, <3>3, <3>4, ShapeAtRest, KeptAt DEF AtRest
  <2>5. CASE row[s].status # "failed" /\ s # "complete_info"
    <3>1. /\ \A t \in Stage \ {s} : row'[t] = row[t]
          /\ row'[s] = Failed /\ mem'[w] = row' /\ pc'[w] = "hook" /\ job'[w] = job[w]
      BY <1>21, <2>5 DEF FailJob
    <3>2. row[s].status # "succeeded" /\ From(s, Fresh)
      BY <2>1, <2>5, WrittenFacts DEF Ready, Begun, Stopped
    <3>3. Shape(s, w)
      BY <2>1
    <3> QED BY <3>1, <3>2, <3>3, ShapeStep
  <2> QED BY <2>3, <2>4, <2>5
<1>22. CASE FailedHookSkips(w)
  <2>1. /\ DoneUpTo(s) /\ From(s, Fresh) /\ row[s] = Failed /\ mem[w] = row
        /\ Executing(w)
    BY <1>22 DEF FailedHookSkips, Shape
  <2>2. SkipPendingStages(w) /\ pc'[w] = "idle"
    BY <1>22 DEF FailedHookSkips
  <2>3. Stopped(s)' /\ KeptStep
    BY <2>1, <2>2, SkipsRest
  <2>4. NoToken'
    BY <1>22, <2>1, <2>2, OwnToken DEF NoToken, FailedHookSkips
  <2> QED BY <2>3, <2>4, ShapeAtRest DEF AtRest
<1>23. CASE Timeout(w)
  <2>1. Shape(s, w) /\ From(s, Fresh) /\ DoneUpTo(s)
    BY <1>23 DEF Timeout, Shape
  <2> QED BY <1>23, <2>1, ShapeStep, WrittenFacts DEF Timeout, Shape, Begun
<1>24. CASE Kill(w)
  BY <1>24 DEF Kill
<1> QED
  BY <1>1, <1>2, <1>3, <1>4, <1>5, <1>6, <1>7, <1>8, <1>9, <1>10, <1>11, <1>12,
     <1>13, <1>14, <1>15, <1>16, <1>17, <1>18, <1>19, <1>20, <1>21, <1>22,
     <1>23, <1>24
     DEF Moves, WorkerStep, Generate, Localize, CompleteInfo

(* A retry of a calm node resets the failed stage and all behind it.       *)
LEMMA RetryShapes ==
    ASSUME IInv, OneToken', Shapes, NoLiveJob, NEW s \in Stage, RetryStage(s)
    PROVE  Shapes' /\ KeptStep
<1>0. TypeOK /\ Stage = {"generate", "localize", "complete_info"}
  BY DEF IInv, Stage
<1>1. PICK f \in ResetBy(s) :
               /\ \A u \in ResetBy(s) : StageIndex(u) <= StageIndex(f)
               /\ requeue' = {Chain(FirstOf(s), LastOf(f))}
               /\ Chain(FirstOf(s), LastOf(f)) \in Job
               /\ f \in Stage
  BY <1>0, RetryFacts
<1>2. /\ \A v \in Worker : pc'[v] = "idle" /\ pc[v] = "idle"
      /\ \A j \in Job : queue'[j] = 0 /\ queue[j] = 0
      /\ requeue = {} /\ row[s].status = "failed"
      /\ \A t \in Stage : row'[t] = IF t \in ResetBy(s) THEN Fresh ELSE row[t]
  BY DEF NoLiveJob, RetryStage
<1>3. AtRest
  BY <1>2 DEF Shapes, NoToken, Executing
<1>4. Stopped(s)
  <2>1. PICK t \in Stage : Stopped(t) \/ (DoneUpTo(t) /\ row[t] = Fresh /\ From(t, Fresh))
    BY <1>2, <1>3, WrittenFacts DEF AtRest
  <2>2. s = t
    BY <1>0, <1>2, <2>1, WrittenFacts DEF Stopped, DoneUpTo, From, StageIndex
  <2> QED BY <1>2, <2>1, <2>2, WrittenFacts
<1>5. ResetBy(s) = {t \in Stage : StageIndex(s) <= StageIndex(t)}
  <2>1. \A u \in Stage : StageIndex(s) < StageIndex(u) => row[u].status = "skipped"
    BY <1>4, WrittenFacts DEF Stopped, From
  <2> QED BY <2>1 DEF ResetBy
<1>6. f = "complete_info"
  BY <1>0, <1>1, <1>5 DEF StageIndex
<1>7. /\ DoneUpTo(s)' /\ From(s, Fresh)' /\ row'[s] = Fresh
  BY <1>0, <1>2, <1>4, <1>5 DEF Stopped, DoneUpTo, From, StageIndex
<1>8. KeptStep
  BY <1>2, <1>4, <1>5, WrittenFacts
     DEF KeptStep, Stopped, From, StageIndex, Stage
<1>9. \A j \in requeue' : j.at = FirstOf(s) /\ j.end = Last
  BY <1>1, <1>6 DEF Chain, LastOf
<1>10. requeue' # {}
  BY <1>1
<1>11. \A v \in Worker : ~Executing(v)'
  BY <1>2 DEF Executing
<1>12. Shapes'
  BY <1>2, <1>7, <1>9, <1>10, <1>11, StagePositions
     DEF Shapes, NoToken, Ready, Begun
<1> QED BY <1>8, <1>12

(* Its chain is dispatched, or lost.                                       *)
LEMMA DispatchShapes ==
    ASSUME IInv, OneToken, OneToken', Shapes, DispatchRetry \/ LoseRetry
    PROVE  Shapes' /\ KeptStep
<1>1. UNCHANGED <<row, pc, job, mem>> /\ TypeOK /\ requeue # {}
  BY DEF DispatchRetry, LoseRetry, ghosts, IInv
<1>2. PICK j \in requeue : requeue = {j}
  BY <1>1 DEF OneToken
<1>3. /\ \A v \in Worker : ~Executing(v) /\ ~Executing(v)'
      /\ \A i \in Job : queue[i] = 0
      /\ j \in Job
  BY <1>1, <1>2 DEF OneToken, Executing, TypeOK
<1>4. PICK s \in Stage : s = StageOf(j.at)
  BY <1>3, JobType, StageOfType
<1>5. j.end = Last /\ Ready(s) /\ row[s] = Fresh
  BY <1>2, <1>4 DEF Shapes
<1>6. Ready(s)' /\ DoneUpTo(s)' /\ From(s, Fresh)' /\ row'[s] = Fresh
  BY <1>1, <1>5 DEF Ready, DoneUpTo, Begun, From
<1>7. CASE DispatchRetry
  <2>1. queue'[j] > 0
    BY <1>2, <1>3, <1>7 DEF DispatchRetry, Enqueue, TypeOK, IInv
  <2> QED BY <1>1, <1>3, <1>4, <1>5, <1>6, <2>1, ShapeOfJob, KeptSame
<1>8. CASE LoseRetry
  <2>1. requeue' = {} /\ queue' = queue /\ lost' > 0
    BY <1>1, <1>8, NodeAssumption DEF LoseRetry, TypeOK
  <2>2. NoToken'
    BY <1>3, <2>1 DEF NoToken
  <2>3. AtRest'
    BY <1>6, <2>1 DEF AtRest
  <2> QED BY <1>1, <2>2, <2>3, ShapeAtRest, KeptSame
<1> QED BY <1>7, <1>8

(* Nothing happens.                                                        *)
LEMMA SameShapes ==
    ASSUME Shapes, UNCHANGED vars
    PROVE  Shapes' /\ KeptStep
BY DEF vars, Shapes, NoToken, AtRest, Shape, Ready, Stopped, DoneUpTo, Begun,
       From, Executing, StageNow, KeptStep

(* The invariant of the node, calm or not.                                 *)
CalmInv == ChainInv /\ (Calm => OneToken /\ Shapes)

(* It holds at first,                                                      *)
LEMMA InitCalm == Init => CalmInv
<1> SUFFICES ASSUME Init PROVE OneToken /\ Shapes
  BY InitChain DEF CalmInv
<1>1. OneToken
  BY DEF Init, OneToken, Executing
<1>2. \A s \in Stage : row[s] = Fresh
  BY DEF Init
<1>3. Chain(1, Last) \in Job /\ queue[Chain(1, Last)] = 1
  BY LastType, ChainType DEF Init
<1>4. Ready("generate")
  BY <1>2 DEF Ready, DoneUpTo, Begun, From, StageIndex, Stage
<1>5. \A j \in Job : queue[j] > 0 => j.at = 1 /\ j.end = Last
  BY DEF Init, Chain
<1>6. StageOf(1) = "generate"
  BY DEF StageOf
<1>7. Shapes
  BY <1>3, <1>4, <1>5, <1>6 DEF Shapes, NoToken, Init, Executing
<1> QED BY <1>1, <1>7

(* every step keeps it, and a step of a calm node keeps order and success. *)
LEMMA StepCalm == CalmInv /\ [Next]_vars => CalmInv' /\ (Calm' => KeptStep)
<1> SUFFICES ASSUME CalmInv, [Next]_vars, Calm'
             PROVE  OneToken' /\ Shapes' /\ KeptStep
  BY StepChain DEF CalmInv
<1>1. IInv /\ TypeOK /\ Handlers
  BY DEF CalmInv, ChainInv, PatientInv, IInv
<1>2. /\ Calm /\ OneToken /\ Shapes
      /\ \A w \in Worker : ~Kill(w)
      /\ \A s \in Stage : RetryStage(s) => NoLiveJob
  BY <1>1, RestlessForGood DEF CalmInv
<1>3. OneToken'
  BY <1>1, <1>2, StepOneToken
<1>4. ASSUME NEW w \in Worker, Moves(w) PROVE Shapes' /\ KeptStep
  BY <1>1, <1>2, <1>3, <1>4, StepShapes
<1>5. ASSUME NEW s \in Stage, RetryStage(s) PROVE Shapes' /\ KeptStep
  BY <1>1, <1>2, <1>3, <1>5, RetryShapes
<1>6. CASE DispatchRetry \/ LoseRetry
  BY <1>1, <1>2, <1>3, <1>6, DispatchShapes
<1>7. CASE UNCHANGED vars
  BY <1>2, <1>3, <1>7, SameShapes
<1> QED BY <1>3, <1>4, <1>5, <1>6, <1>7 DEF Next, Moves

(* What was cut off has a failure before it.                               *)
LEMMA CalmEnough == CalmInv => CutHasCauseWhenCalm
<1> SUFFICES ASSUME CalmInv, Calm, NoLiveJob, NEW s \in Stage, row[s].error = "cut"
             PROVE  \E t \in Stage : /\ StageIndex(t) < StageIndex(s)
                                     /\ row[t].status = "failed"
  BY DEF CutHasCauseWhenCalm, CutHasCause
<1>1. AtRest
  BY DEF CalmInv, Shapes, NoToken, NoLiveJob, Executing
<1>2. /\ Succeeded.error # "cut" /\ Nothing.error # "cut" /\ Fresh.error # "cut"
      /\ Failed.error # "cut" /\ Failed.status = "failed"
  BY DEF Succeeded, Nothing, Fresh, Failed
<1>3. PICK t \in Stage : Stopped(t)
  <2>1. ASSUME NEW t \in Stage, DoneUpTo(t), row[t] = Fresh, From(t, Fresh) PROVE FALSE
    BY <1>2, <2>1 DEF DoneUpTo, From, StageIndex, Stage
  <2> QED BY <1>1, <1>2, <2>1 DEF AtRest
<1>4. StageIndex(t) < StageIndex(s)
  BY <1>2, <1>3 DEF Stopped, DoneUpTo, From, StageIndex, Stage
<1> QED BY <1>2, <1>3, <1>4 DEF Stopped

(* The invariant of the node's chain of jobs.                              *)
THEOREM CalmInductive == Spec => []CalmInv
<1> QED BY InitCalm, StepCalm, PTL DEF Spec

(* Whatever deaths, redeliveries and timeouts there are, the chain of a    *)
(* node never strands: when nothing is left to run every stage is done or  *)
(* one has failed and can be retried, localize has succeeded only if every *)
(* locale was served, and (if no worker died) a stage that was cut off has *)
(* a failure before it. Retries that overlap a live job are excluded; see  *)
(* NeverStuck (handle(), failed(), retryStage()).                          *)
THEOREM ChainCorrect == Spec => []ChainIsSound
<1>1. CalmInv => ChainIsSound
  BY PatientEnough, ServedEnough, CalmEnough
     DEF CalmInv, ChainInv, ChainIsSound
<1> QED BY <1>1, CalmInductive, PTL

(* If no worker dies and no retry overlaps a live job, the stages of a     *)
(* node are entered in their order, and no retry, timeout or failed() hook *)
(* takes back a success ("succeeded earlier stages are left alone").       *)
THEOREM StagesCorrect == Spec => StagesAreKept
<1>1. CalmInv /\ [Next]_vars => [Calm' => \A s, t \in Stage :
          /\ StageIndex(t) < StageIndex(s)
          /\ row[s].status # "processing" /\ row'[s].status = "processing"
          => row[t].status \in Terminal]_vars
  BY StepCalm DEF KeptStep
<1>2. CalmInv /\ [Next]_vars => [Calm' => \A s \in Stage :
          row[s].status = "succeeded" => row'[s].status = "succeeded"]_vars
  BY StepCalm DEF KeptStep
<1> QED BY <1>1, <1>2, CalmInductive, PTL
           DEF Spec, StagesAreKept, StageOrder, SucceededIsKept
=============================================================================
