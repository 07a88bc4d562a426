-------------------------- MODULE ConceptPipelineRun --------------------------
(***************************************************************************)
(* One generation run as a whole: the tree of nodes it grows, the concepts *)
(* it adds to the graph, and the budget of new concepts its generate jobs  *)
(* share.  The jobs of a node's chain that follow generate (localize,      *)
(* complete_info) are in ConceptPipelineNode.                              *)
(*                                                                         *)
(* The budget is two counters in the JSON column `seeds` of the run row.   *)
(* A generate job reserves slots before it asks the model provider for a   *)
(* graph, stores at most that many new concepts, and settles: it gives the *)
(* slots back and adds what it created.  Then it creates a node for every  *)
(* new key of the graph and dispatches a chain for each.  Every step is    *)
(* one transaction (or one queue operation); a worker can die between any  *)
(* two.                                                                    *)
(*                                                                         *)
(* A concept and the canonical key of its label are identified.            *)
(***************************************************************************)
EXTENDS Integers, FiniteSets

CONSTANTS
    Key,           \* canonical keys of concepts
    Roots,         \* the starting concepts of the run
    Stored,        \* the concepts that exist when the run is dispatched
    Worker,        \* queue workers
    MaxDepth,      \* depth of the run
    MaxConcepts,   \* MAX_CONCEPTS: the budget, and the cap on nodes
    Count,         \* concepts a generate job asks for
    Tries,         \* attempts the queue allows a job
    MaxKills,      \* bound: how often a process dies
    MaxTimeouts,   \* bound: how often a generate job times out
    MaxDbErrors,   \* bound: how often a transaction or a dispatch fails
    MaxRetries,    \* bound: how often the operator retries a generate stage,
                   \* and how often before its job is over
    MaxKinds       \* bound: how many kinds of these meet in one behaviour

ASSUME RunAssumption ==
    /\ IsFiniteSet(Worker) /\ IsFiniteSet(Key)
    /\ Roots \subseteq Key /\ Stored \subseteq Key
    /\ Roots # {}
    /\ MaxDepth \in Nat \ {0}
    /\ MaxConcepts \in Nat /\ Cardinality(Roots) <= MaxConcepts
    /\ Count \in Nat \ {0}
    /\ Tries \in Nat \ {0}
    /\ {MaxKills, MaxTimeouts, MaxDbErrors, MaxRetries, MaxKinds} \subseteq Nat

VARIABLES
    nodes,       \* keys that have a node in this run
    depth,       \* [Key -> Nat]: depth of a node
    parent,      \* [Key -> Key]: its parent (itself for a root)
    generate,    \* [Key -> Status]: its generate_status
    linked,      \* nodes whose concept_id is set
    concepts,    \* concepts in the database
    created,     \* seeds.conceptsCreated
    reserved,    \* seeds.conceptsReserved
    starting,    \* roots whose chain dispatch() has still to queue
    waiting,     \* [Key \X 0..Tries -> Nat]: generate jobs in the queue, by
                 \* node and attempts already made
    pc, at, tried,   \* what a worker does, for which node, in which attempt
    held,        \* [Worker -> Nat]: slots its handler has reserved
    got,         \* [Worker -> SUBSET Key]: labels of the limited graph
    before,      \* [Worker -> SUBSET Key]: those that existed before storing
    todo,        \* [Worker -> SUBSET Key]: child nodes without a chain yet
    leaked,      \* slots reserved by handlers that died (history)
    faults       \* how much of each bound is used

runVars == <<created, reserved>>
treeVars == <<nodes, depth, parent, linked>>
jobVars == <<at, tried>>
memVars == <<held, got, before, todo>>
vars == <<treeVars, generate, concepts, runVars, starting, waiting, pc,
          jobVars, memVars, leaked, faults>>

-----------------------------------------------------------------------------
Terminal == {"succeeded", "failed", "skipped"}
Status == {"pending", "processing"} \cup Terminal

PC == {"idle", "start",
       "reserve",   \* marked processing, about to look at depth and budget
       "llm",       \* waiting for the model provider
       "lookup", "store", "settle", "link", "children", "dispatch",
       "unwind",    \* the provider failed or was late; slots still held
       "abort",     \* an exception of the database; slots still held
       "caught", "doomed",    \* the same two after settling
       "fail",      \* about to call $this->fail(), or killed by the timeout
       "returned"}

FaultKind == {"kill", "timeout", "db", "retry", "haste"}
Bound(f) == CASE f = "kill" -> MaxKills
              [] f = "timeout" -> MaxTimeouts
              [] f = "db" -> MaxDbErrors
              [] f \in {"retry", "haste"} -> MaxRetries
Fault(f) == /\ faults[f] < Bound(f)
            /\ Cardinality({f} \cup {g \in FaultKind : faults[g] > 0})
                 <= MaxKinds
            /\ faults' = [faults EXCEPT ![f] = @ + 1]

NoKey == CHOOSE k \in Key : TRUE
Least(a, b) == IF a <= b THEN a ELSE b
AtLeastZero(a) == IF a <= 0 THEN 0 ELSE a

(* dispatch() has created the run and its root nodes.                      *)
Init ==
    /\ nodes = Roots
    /\ depth = [k \in Key |-> 0]
    /\ parent = [k \in Key |-> k]
    /\ generate = [k \in Key |-> "pending"]
    /\ linked = Roots \cap Stored
    /\ concepts = Stored
    /\ created = 0 /\ reserved = 0
    /\ starting = Roots
    /\ waiting = [x \in Key \X (0..Tries) |-> 0]
    /\ pc = [w \in Worker |-> "idle"]
    /\ at = [w \in Worker |-> NoKey]
    /\ tried = [w \in Worker |-> 0]
    /\ held = [w \in Worker |-> 0]
    /\ got = [w \in Worker |-> {}]
    /\ before = [w \in Worker |-> {}]
    /\ todo = [w \in Worker |-> {}]
    /\ leaked = 0
    /\ faults = [f \in FaultKind |-> 0]

-----------------------------------------------------------------------------
Goto(w, to) == pc' = [pc EXCEPT ![w] = to]
Mark(w, st) == generate' = [generate EXCEPT ![at[w]] = st]
Enqueue(k, a) == waiting' = [waiting EXCEPT ![<<k, a>>] = @ + 1]

(* What a handler has in memory: the graph and the children of it, and the *)
(* slots it holds.                                                         *)
ForgetGraph(w) ==
    /\ got' = [got EXCEPT ![w] = {}]
    /\ before' = [before EXCEPT ![w] = {}]
    /\ todo' = [todo EXCEPT ![w] = {}]

Forget(w) ==
    /\ held' = [held EXCEPT ![w] = 0]
    /\ ForgetGraph(w)

BecomeIdle(w) ==
    /\ Forget(w)
    /\ at' = [at EXCEPT ![w] = NoKey]
    /\ tried' = [tried EXCEPT ![w] = 0]
    /\ Goto(w, "idle")

(* enqueueNodeChain() for a root, and the death of the dispatching process *)
(* before it has done all of them.                                         *)
DispatchRoot(k) ==
    /\ k \in starting
    /\ starting' = starting \ {k}
    /\ Enqueue(k, 0)
    /\ UNCHANGED <<treeVars, generate, concepts, runVars, pc, jobVars,
                   memVars, leaked, faults>>

DispatcherDies ==
    /\ starting # {} /\ Fault("kill")
    /\ starting' = {}
    /\ UNCHANGED <<treeVars, generate, concepts, runVars, waiting, pc,
                   jobVars, memVars, leaked>>

Pop(w, k, a) ==
    /\ pc[w] = "idle" /\ waiting[<<k, a>>] > 0
    /\ waiting' = [waiting EXCEPT ![<<k, a>>] = @ - 1]
    /\ at' = [at EXCEPT ![w] = k]
    /\ tried' = [tried EXCEPT ![w] = Least(a + 1, Tries)]
    /\ Goto(w, IF a = Tries THEN "fail" ELSE "start")
    /\ UNCHANGED <<treeVars, generate, concepts, runVars, starting, memVars,
                   leaked, faults>>

(* The first markStage of handle(): no status is checked.                  *)
Start(w) ==
    /\ pc[w] = "start"
    /\ Mark(w, "processing")
    /\ Goto(w, "reserve")
    /\ UNCHANGED <<treeVars, concepts, runVars, starting, waiting, jobVars,
                   memVars, leaked, faults>>

Remaining == AtLeastZero(MaxConcepts - created - reserved)

Skip(w) ==
    /\ pc[w] = "reserve"
    /\ depth[at[w]] >= MaxDepth \/ Remaining = 0
    /\ Mark(w, "skipped")
    /\ Goto(w, "returned")
    /\ UNCHANGED <<treeVars, concepts, runVars, starting, waiting, jobVars,
                   memVars, leaked, faults>>

(* Mutant of Reserve: all that remains, not what the job asks for.          *)
ReserveAllThatRemains(w) ==
    /\ pc[w] = "reserve"
    /\ depth[at[w]] < MaxDepth /\ Remaining > 0
    /\ reserved' = reserved + Remaining
    /\ held' = [held EXCEPT ![w] = Remaining]
    /\ Goto(w, "llm")
    /\ UNCHANGED <<treeVars, generate, concepts, created, starting, waiting,
                   jobVars, got, before, todo, leaked, faults>>

(* reserveConceptBudget().                                                 *)
Reserve(w) ==
    /\ pc[w] = "reserve"
    /\ depth[at[w]] < MaxDepth /\ Remaining > 0
    /\ reserved' = reserved + Least(Count, Remaining)
    /\ held' = [held EXCEPT ![w] = Least(Count, Remaining)]
    /\ Goto(w, "llm")
    /\ UNCHANGED <<treeVars, generate, concepts, created, starting, waiting,
                   jobVars, got, before, todo, leaked, faults>>

(* limitNewConcepts(): the labels that exist and the seed are kept, and    *)
(* new labels up to the slots held.  A new seed uses a slot too, but only  *)
(* if it is listed before the slots are used up: it is kept in any case.   *)
Limited(seed, labels, allowed, seedFirst) ==
    LET fresh == (labels \ concepts) \ {seed}
        room == IF seed \in labels \ concepts /\ seedFirst
                THEN allowed - 1 ELSE allowed
    IN {(labels \cap (concepts \cup {seed})) \cup n :
            n \in {m \in SUBSET fresh :
                       Cardinality(m) = Least(room, Cardinality(fresh))}}

(* The provider answers, and the graph is limited.                         *)
Answer(w) ==
    /\ pc[w] = "llm"
    /\ \E labels \in SUBSET Key, seedFirst \in BOOLEAN :
         \E kept \in Limited(at[w], labels, held[w], seedFirst) :
             got' = [got EXCEPT ![w] = kept]
    /\ Goto(w, "lookup")
    /\ UNCHANGED <<treeVars, generate, concepts, runVars, starting, waiting,
                   jobVars, held, before, todo, leaked, faults>>

(* existingConceptIds(): which of them exist before the graph is stored.   *)
Lookup(w) ==
    /\ pc[w] = "lookup"
    /\ before' = [before EXCEPT ![w] = got[w] \cap concepts]
    /\ Goto(w, "store")
    /\ UNCHANGED <<treeVars, generate, concepts, runVars, starting, waiting,
                   jobVars, held, got, todo, leaked, faults>>

(* storeGraph(): one transaction.                                          *)
Store(w) ==
    /\ pc[w] = "store"
    /\ concepts' = concepts \cup got[w]
    /\ Goto(w, "settle")
    /\ UNCHANGED <<treeVars, generate, runVars, starting, waiting, jobVars,
                   memVars, leaked, faults>>

(* settleConceptBudget().                                                  *)
SettleBudget(w, n) ==
    /\ reserved' = AtLeastZero(reserved - held[w])
    /\ created' = created + n
    /\ held' = [held EXCEPT ![w] = 0]

(* Mutant of Settle: what existed is looked up after the graph is stored.   *)
SettleByLateLookup(w) ==
    /\ pc[w] = "settle"
    /\ SettleBudget(w, Cardinality(got[w] \ concepts))
    /\ Goto(w, "link")
    /\ before' = [before EXCEPT ![w] = {}]
    /\ UNCHANGED <<treeVars, generate, concepts, starting, waiting, jobVars,
                   got, todo, leaked, faults>>

Settle(w) ==
    /\ pc[w] = "settle"
    /\ SettleBudget(w, Cardinality(got[w] \ before[w]))
    /\ before' = [before EXCEPT ![w] = {}]
    /\ Goto(w, "link")
    /\ UNCHANGED <<treeVars, generate, concepts, starting, waiting, jobVars,
                   got, todo, leaked, faults>>

Link(w) ==
    /\ pc[w] = "link"
    /\ linked' = IF at[w] \in got[w] THEN linked \cup {at[w]} ELSE linked
    /\ Goto(w, "children")
    /\ UNCHANGED <<nodes, depth, parent, generate, concepts, runVars,
                   starting, waiting, jobVars, memVars, leaked, faults>>

(* Mutant of NewChildren: nodes without the cap.                            *)
AllNewChildren(w) == {got[w] \ nodes}

(* enqueueChildren(): a node for every key that has none, up to the cap.   *)
NewChildren(w) ==
    LET candidates == got[w] \ nodes
    IN {c \in SUBSET candidates :
            Cardinality(c) =
                Least(AtLeastZero(MaxConcepts - Cardinality(nodes)),
                      Cardinality(candidates))}

CreateChildren(w) ==
    /\ pc[w] = "children"
    /\ \E c \in NewChildren(w) :
         /\ nodes' = nodes \cup c
         /\ depth' = [k \in Key |-> IF k \in c THEN depth[at[w]] + 1
                                               ELSE depth[k]]
         /\ parent' = [k \in Key |-> IF k \in c THEN at[w] ELSE parent[k]]
         /\ linked' = linked \cup c
         /\ todo' = [todo EXCEPT ![w] = c]
    /\ got' = [got EXCEPT ![w] = {}]
    /\ Goto(w, "dispatch")
    /\ UNCHANGED <<generate, concepts, runVars, starting, waiting, jobVars,
                   held, before, leaked, faults>>

DispatchChild(w, k) ==
    /\ pc[w] = "dispatch" /\ k \in todo[w]
    /\ Enqueue(k, 0)
    /\ todo' = [todo EXCEPT ![w] = @ \ {k}]
    /\ UNCHANGED <<treeVars, generate, concepts, runVars, starting, pc,
                   jobVars, held, got, before, leaked, faults>>

(* Mutant of Succeed: children that have no chain yet are left behind.      *)
SucceedEarly(w) ==
    /\ pc[w] = "dispatch"
    /\ Mark(w, "succeeded")
    /\ Goto(w, "returned")
    /\ UNCHANGED <<treeVars, concepts, runVars, starting, waiting, jobVars,
                   memVars, leaked, faults>>

Succeed(w) ==
    /\ pc[w] = "dispatch" /\ todo[w] = {}
    /\ Mark(w, "succeeded")
    /\ Goto(w, "returned")
    /\ UNCHANGED <<treeVars, concepts, runVars, starting, waiting, jobVars,
                   memVars, leaked, faults>>

(* The rest of the chain is dispatched and the job is deleted.             *)
Return(w) ==
    /\ pc[w] = "returned"
    /\ BecomeIdle(w)
    /\ UNCHANGED <<treeVars, generate, concepts, runVars, starting, waiting,
                   leaked, faults>>

-----------------------------------------------------------------------------
(* Errors.                                                                 *)

(* The provider fails or answers too late.                                 *)
ProviderFails(w) ==
    /\ pc[w] = "llm"
    /\ Goto(w, "unwind")
    /\ UNCHANGED <<treeVars, generate, concepts, runVars, starting, waiting,
                   jobVars, memVars, leaked, faults>>

(* A transaction is rolled back, or a chain cannot be queued: the handler  *)
(* drops what it was about to do.                                          *)
DbError(w) ==
    /\ pc[w] \in {"store", "settle", "link", "children", "dispatch"}
    /\ Fault("db")
    /\ ForgetGraph(w)
    /\ Goto(w, "abort")
    /\ UNCHANGED <<treeVars, generate, concepts, runVars, starting, waiting,
                   jobVars, held, leaked>>

(* Mutant of Unwind: the slots held are forgotten.                          *)
UnwindWithoutSettling(w) ==
    /\ pc[w] \in {"unwind", "abort"}
    /\ held' = [held EXCEPT ![w] = 0]
    /\ Goto(w, IF pc[w] = "unwind" THEN "caught" ELSE "doomed")
    /\ UNCHANGED <<treeVars, generate, concepts, runVars, starting, waiting,
                   jobVars, got, before, todo, leaked, faults>>

(* The slots still held go back to the budget.                             *)
Unwind(w) ==
    /\ pc[w] \in {"unwind", "abort"}
    /\ SettleBudget(w, 0)
    /\ Goto(w, IF pc[w] = "unwind" THEN "caught" ELSE "doomed")
    /\ UNCHANGED <<treeVars, generate, concepts, starting, waiting, jobVars,
                   got, before, todo, leaked, faults>>

(* Mutant of Release: the job comes back as a new one.                      *)
ReleaseAsNew(w) ==
    /\ pc[w] = "caught" /\ tried[w] < Tries
    /\ Enqueue(at[w], 0)
    /\ BecomeIdle(w)
    /\ UNCHANGED <<treeVars, generate, concepts, runVars, starting, leaked,
                   faults>>

(* A provider error that may pass: the job is released for another attempt. *)
Release(w) ==
    /\ pc[w] = "caught" /\ tried[w] < Tries
    /\ Enqueue(at[w], tried[w])
    /\ BecomeIdle(w)
    /\ UNCHANGED <<treeVars, generate, concepts, runVars, starting, leaked,
                   faults>>

MarkFailed(w) ==
    /\ pc[w] \in {"caught", "doomed"}
    /\ Mark(w, "failed")
    /\ Goto(w, "fail")
    /\ UNCHANGED <<treeVars, concepts, runVars, starting, waiting, jobVars,
                   memVars, leaked, faults>>

(* The job is deleted, and failed() marks a stage that is not marked yet.  *)
FailJob(w) ==
    /\ pc[w] = "fail"
    /\ Mark(w, "failed")
    /\ BecomeIdle(w)
    /\ UNCHANGED <<treeVars, concepts, runVars, starting, waiting, leaked,
                   faults>>

(* The worker timeout strikes while the provider is being asked: the job   *)
(* is failed by the alarm handler, not by handle(), and nothing settles.   *)
Timeout(w) ==
    /\ pc[w] = "llm" /\ Fault("timeout")
    /\ leaked' = leaked + held[w]
    /\ Forget(w)
    /\ Goto(w, "fail")
    /\ UNCHANGED <<treeVars, generate, concepts, runVars, starting, waiting,
                   jobVars>>

(* The process dies; its job is available again after retry_after.         *)
Kill(w) ==
    /\ pc[w] # "idle" /\ Fault("kill")
    /\ leaked' = leaked + held[w]
    /\ Enqueue(at[w], tried[w])
    /\ BecomeIdle(w)
    /\ UNCHANGED <<treeVars, generate, concepts, runVars, starting>>

HasJob(k) ==
    \/ \E a \in 0..Tries : waiting[<<k, a>>] > 0
    \/ k \in starting
    \/ \E w \in Worker : k \in todo[w]
    \/ \E w \in Worker : at[w] = k /\ pc[w] # "idle"

(* retryStage() of a failed generate stage: the status is looked at, not    *)
(* whether its job is over, for which failed() is still to come.           *)
RetryGenerate(k) ==
    /\ k \in nodes /\ generate[k] = "failed"
    /\ Fault(IF HasJob(k) THEN "haste" ELSE "retry")
    /\ generate' = [generate EXCEPT ![k] = "pending"]
    /\ Enqueue(k, 0)
    /\ UNCHANGED <<treeVars, concepts, runVars, starting, pc, jobVars,
                   memVars, leaked>>

-----------------------------------------------------------------------------
WorkerStep(w) ==
    \/ \E k \in Key, a \in 0..Tries : Pop(w, k, a)
    \/ Start(w) \/ Skip(w) \/ Reserve(w) \/ Answer(w) \/ ProviderFails(w)
    \/ Lookup(w) \/ Store(w) \/ Settle(w) \/ Link(w) \/ CreateChildren(w)
    \/ \E k \in Key : DispatchChild(w, k)
    \/ Succeed(w) \/ Return(w)
    \/ Unwind(w) \/ Release(w) \/ MarkFailed(w) \/ FailJob(w)

Next ==
    \/ \E k \in Key : DispatchRoot(k) \/ RetryGenerate(k)
    \/ DispatcherDies
    \/ \E w \in Worker : WorkerStep(w) \/ DbError(w) \/ Timeout(w) \/ Kill(w)

Spec == Init /\ [][Next]_vars

FairSpec ==
    /\ Spec
    /\ \A w \in Worker : WF_vars(WorkerStep(w))
    /\ WF_vars(\E k \in Key : DispatchRoot(k))

-----------------------------------------------------------------------------
(* Each variable has its type: no node lies below the run's max depth, and  *)
(* no handler holds more slots than it asked for.                          *)
TypeOK ==
    /\ nodes \subseteq Key
    /\ depth \in [Key -> 0..MaxDepth]
    /\ parent \in [Key -> Key]
    /\ generate \in [Key -> Status]
    /\ linked \subseteq nodes
    /\ concepts \subseteq Key
    /\ created \in Nat /\ reserved \in Nat
    /\ starting \subseteq Roots
    /\ waiting \in [Key \X (0..Tries) -> Nat]
    /\ pc \in [Worker -> PC]
    /\ at \in [Worker -> Key]
    /\ tried \in [Worker -> 0..Tries]
    /\ held \in [Worker -> 0..Count]
    /\ got \in [Worker -> SUBSET Key]
    /\ before \in [Worker -> SUBSET Key]
    /\ todo \in [Worker -> SUBSET Key]
    /\ leaked \in Nat
    /\ faults \in [FaultKind -> Nat]

(* No process died and no transaction failed after the graph was built.    *)
Undisturbed == faults["kill"] = 0 /\ faults["db"] = 0

(* The sum of a function to the natural numbers.                           *)
Total(n) == Cardinality(UNION {{w} \X (1..n[w]) : w \in DOMAIN n})

(* The reservation counter is the slots of the running handlers plus those *)
(* of handlers that died: nothing is given back twice or kept by mistake,  *)
(* whatever path a handler leaves by (reserve, settle, catch).             *)
LedgerBalanced == reserved = Total(held) + leaked

(* The run creates at most as many concepts as its budget allows.          *)
CreatedWithinBudget == created <= MaxConcepts

NewSeeds == Cardinality(Roots \ Stored)

(* What has been created and what may yet be created never exceed the      *)
(* budget by more than the new starting concepts, which limitNewConcepts() *)
(* keeps in any case.  (A node that is retried before its job is over may  *)
(* have two, and its concept be counted by each.)                          *)
CreatedWithinBudgetAndSeeds ==
    Undisturbed /\ faults["haste"] = 0 =>
        created + reserved <= MaxConcepts + NewSeeds

(* The same of the concepts themselves, also when workers die, time out    *)
(* and the operator retries: a job that runs again cannot create more than *)
(* the budget, because a dead handler's slots stay reserved.               *)
ConceptsWithinBudget ==
    faults["db"] = 0 =>
        Cardinality(concepts \ Stored) <= MaxConcepts + NewSeeds

ToSettle ==
    [w \in Worker |->
        IF pc[w] = "settle" THEN Cardinality(got[w] \ before[w]) ELSE 0]

(* Every concept the run has created is counted in conceptsCreated, or     *)
(* will be by a handler that is about to settle: the lookup before the     *)
(* graph is stored may be stale, but it never makes a job count too little.*)
ConceptsAreCounted ==
    Undisturbed =>
        Cardinality(concepts \ Stored)
            <= created + Total(ToSettle)

(* The counters of the run tell the truth about its budget: what exists is *)
(* counted, and what is counted or reserved stays within the budget and    *)
(* the starting concepts (reserveConceptBudget(), settleConceptBudget()).  *)
BudgetIsCounted == ConceptsAreCounted /\ CreatedWithinBudgetAndSeeds

(* The same under deaths, timeouts, database errors and retries: slots are *)
(* held or leaked and never lost, and the concepts stay within the budget. *)
BudgetSurvivesFaults == LedgerBalanced /\ ConceptsWithinBudget

(* Both: no order of reservations, late answers, settlements and faults    *)
(* leads the budget astray.                                                *)
BudgetIsSound == BudgetIsCounted /\ BudgetSurvivesFaults

(* At most MAX_CONCEPTS nodes; each node that is not a root has a concept  *)
(* and lies one level below the node that generated it, whichever jobs     *)
(* meet the same key at the same time (enqueueChildren()).                 *)
TreeGrowsDownwards ==
    /\ Cardinality(nodes) <= MaxConcepts
    /\ \A k \in nodes \ Roots :
          /\ k \in concepts /\ k \in linked
          /\ parent[k] \in nodes
          /\ depth[k] = depth[parent[k]] + 1

(* A node that waits for generate has a job that will do it: "Persist child*)
(* nodes for newly generated concepts and enqueue their chains".           *)
EveryNodeHasJob ==
    \A k \in nodes : generate[k] \in {"pending", "processing"} => HasJob(k)

(* The same as long as no process dies between creating a node and         *)
(* dispatching its chain, and no dispatch fails.                           *)
EveryNodeHasJobIfUndisturbed == Undisturbed => EveryNodeHasJob

(* When no job is left, no slot is reserved.                               *)
BudgetIsReleased == (\A k \in Key : ~HasJob(k)) => reserved = 0

(* Every node gets past generate, however often jobs fail, time out or are *)
(* retried, unless a process dies.                                         *)
EveryNodeIsExpanded ==
    <>(\/ ~Undisturbed
       \/ [](\A k \in nodes : generate[k] \in Terminal))
=============================================================================
