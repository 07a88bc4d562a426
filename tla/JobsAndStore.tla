---------------------------- MODULE JobsAndStore ----------------------------
(***************************************************************************)
(* The batch jobs of a run (DeferredBatches) and the tables that jobs      *)
(* write at once (ConceptStore).  To a job, writing a translation is one   *)
(* call that returns; to the tables, a job is whoever calls.  Neither sees *)
(* more of the other, so that a behaviour here is one of the part chosen   *)
(* at its start.                                                           *)
(***************************************************************************)
EXTENDS DeferredBatches

CONSTANTS
    Norm, Writer, Localizer, Graphs, Given, Grade, MaxGraphs, MaxWords,
    Nobody                                                 \* ConceptStore

VARIABLES
    part,       \* "jobs" or "store"
    keys, terms, edges, evidence, tx, storePc, at, rounds, named

Store == INSTANCE ConceptStore WITH pc <- storePc, None <- Nobody

ASSUME StoreAssumption == Store!StoreParameters

storeVars == <<keys, terms, edges, evidence, tx, storePc, at, rounds, named>>
allVars == <<part, vars, storeVars>>

(* The tables matter where they are looked at.                             *)
PartsInit ==
    /\ part \in {"jobs", "store"}
    /\ Init /\ Store!Init
    /\ part = "jobs" => keys = {}

PartsNext ==
    /\ UNCHANGED part
    /\ \/ part = "jobs" /\ Next /\ UNCHANGED storeVars
       \/ part = "store" /\ Store!Next /\ UNCHANGED vars

(* A step of the jobs, where they are looked at.                           *)
OfJobs(A) == part = "jobs" /\ A /\ UNCHANGED <<part, storeVars>>

PartsSpec ==
    /\ PartsInit /\ [][PartsNext]_allVars
    /\ \A w \in Worker : WF_allVars(OfJobs(WorkerStep(w)))
    /\ WF_allVars(OfJobs(\E b \in Batch : Dispatch(b)))
    /\ WF_allVars(OfJobs(DispatchRetry))

-----------------------------------------------------------------------------
(* What is stored is told once and found again: see the module             *)
(* (ConceptCanonicalizer, ConceptGraphStore).                              *)
StoreIsSound == Store!StoreIsSound

(* The run comes to rest, however often it is retried, where the jobs are  *)
(* looked at.                                                              *)
RunRests == part = "jobs" => RunComesToRest
=============================================================================
