----------------------- MODULE ConceptPipelineRun_proofs -----------------------
(***************************************************************************)
(* What holds of a generation run for every set of keys, every number of   *)
(* workers, every budget and depth, and every number of deaths, timeouts,  *)
(* failed transactions and retries.                                        *)
(***************************************************************************)
EXTENDS ConceptPipelineRun, FiniteSetTheorems, TLAPS

-----------------------------------------------------------------------------
(* The strengthening TypeOK and the tree need: who works on which node, and*)
(* what a handler may rely on at the point it has reached.                 *)

(* Between the depth check and the creation of the children.               *)
Growing == {"llm", "lookup", "store", "settle", "link", "children"}

InTree ==
    /\ starting \subseteq nodes
    /\ \A x \in Key \X (0..Tries) : waiting[x] > 0 => x[1] \in nodes
    /\ \A w \in Worker : /\ pc[w] # "idle" => at[w] \in nodes
                         /\ pc[w] \in Growing => depth[at[w]] < MaxDepth
                         /\ todo[w] \subseteq nodes

(* What is stored is a concept; chains are dispatched at one place only.   *)
InMemory ==
    \A w \in Worker :
        /\ pc[w] \in {"settle", "link", "children"} =>
               got[w] \subseteq concepts
        /\ todo[w] # {} => pc[w] = "dispatch"

IInv == TypeOK /\ InTree /\ InMemory

-----------------------------------------------------------------------------
(* The helpers of the model.                                               *)

(* A worker without a job holds some key.                                  *)
LEMMA NoKeyType == NoKey \in Key
BY RunAssumption DEF NoKey

(* What is cut off at zero is a natural number.                            *)
LEMMA AtLeastZeroType ==
    ASSUME NEW a \in Int
    PROVE  AtLeastZero(a) \in Nat
BY DEF AtLeastZero

(* Every set of keys is finite.                                            *)
LEMMA SubsetCardinality ==
    ASSUME NEW S \in SUBSET Key
    PROVE  IsFiniteSet(S) /\ Cardinality(S) \in Nat
BY RunAssumption, FS_Subset, FS_CardinalityType

(* A fault is counted, so a run that had one knows it had.                 *)
LEMMA FaultType ==
    ASSUME TypeOK, NEW f \in FaultKind, Fault(f)
    PROVE  faults' \in [FaultKind -> Nat] /\ faults'[f] # 0
BY DEF TypeOK, Fault

(* What is left of the budget is never negative.                           *)
LEMMA RemainingType == TypeOK => Remaining \in Nat
BY RunAssumption, AtLeastZeroType DEF TypeOK, Remaining

(* limitNewConcepts() drops labels and adds none.                          *)
LEMMA LimitedType ==
    ASSUME NEW seed, NEW labels \in SUBSET Key, NEW allowed,
           NEW seedFirst \in BOOLEAN,
           NEW kept \in Limited(seed, labels, allowed, seedFirst)
    PROVE  kept \in SUBSET Key
BY DEF Limited

(* enqueueChildren() creates nodes for keys that have none, and leaves at   *)
(* most MaxConcepts of them.                                               *)
LEMMA NewChildrenFit ==
    ASSUME NEW w \in Worker, NEW c \in NewChildren(w),
           TypeOK, Cardinality(nodes) <= MaxConcepts
    PROVE  Cardinality(nodes \cup c) <= MaxConcepts
<1>1. c \subseteq got[w] \ nodes
  BY DEF NewChildren
<1>2. nodes \in SUBSET Key /\ got[w] \in SUBSET Key /\ c \in SUBSET Key
  BY <1>1 DEF TypeOK
<1>3. /\ IsFiniteSet(nodes) /\ IsFiniteSet(c)
      /\ Cardinality(nodes) \in Nat /\ Cardinality(c) \in Nat
      /\ Cardinality(got[w] \ nodes) \in Nat
  BY <1>2, SubsetCardinality
<1>4. nodes \cap c = {}
  BY <1>1
<1>5. Cardinality(nodes \cup c) = Cardinality(nodes) + Cardinality(c)
  <2>1. Cardinality(nodes \cup c)
            = Cardinality(nodes) + Cardinality(c) - Cardinality(nodes \cap c)
    BY <1>3, FS_Union
  <2>2. Cardinality(nodes \cap c) = 0
    BY <1>4, FS_EmptySet
  <2> QED BY <2>1, <2>2, <1>3
<1>6. Cardinality(c) <= MaxConcepts - Cardinality(nodes)
  <2>1. Cardinality(c) =
            Least(AtLeastZero(MaxConcepts - Cardinality(nodes)),
                  Cardinality(got[w] \ nodes))
    BY DEF NewChildren
  <2>2. AtLeastZero(MaxConcepts - Cardinality(nodes))
            = MaxConcepts - Cardinality(nodes)
    BY <1>3, RunAssumption DEF AtLeastZero
  <2> QED BY <2>1, <2>2, <1>3, RunAssumption DEF Least
<1> QED BY <1>3, <1>5, <1>6, RunAssumption

(* enqueueChildren() never touches an existing node.                       *)
LEMMA NewChildrenType ==
    ASSUME NEW w \in Worker, NEW c \in NewChildren(w), TypeOK
    PROVE  c \in SUBSET Key /\ c \subseteq got[w] /\ c \cap nodes = {}
BY DEF NewChildren, TypeOK

-----------------------------------------------------------------------------
(* The type invariant.                                                     *)

(* dispatch() establishes the invariant.                                   *)
LEMMA InitType == Init => IInv
<1> SUFFICES ASSUME Init PROVE IInv
  OBVIOUS
<1>1. NoKey \in Key
  BY NoKeyType
<1>2. TypeOK
  BY <1>1, RunAssumption
     DEF Init, TypeOK, Status, Terminal, PC, FaultKind
<1>3. InTree
  BY DEF Init, InTree, Growing
<1>4. InMemory
  BY DEF Init, InMemory
<1> QED BY <1>2, <1>3, <1>4 DEF IInv

(* Every step keeps the types.                                             *)
LEMMA StepType == IInv /\ [Next]_vars => TypeOK'
<1> SUFFICES ASSUME IInv, [Next]_vars PROVE TypeOK'
  OBVIOUS
<1>0. TypeOK /\ InTree /\ NoKey \in Key
  BY NoKeyType DEF IInv
<1> USE <1>0, RunAssumption
    DEF TypeOK, Status, Terminal, PC, treeVars, runVars, jobVars, memVars,
        Goto, Mark, Enqueue
<1>1. ASSUME NEW k \in Key, DispatchRoot(k) PROVE TypeOK'
  BY <1>1 DEF DispatchRoot
<1>2. ASSUME NEW k \in Key, RetryGenerate(k) PROVE TypeOK'
  <2>1. faults' \in [FaultKind -> Nat]
    BY <1>2, FaultType DEF RetryGenerate, FaultKind
  <2> QED BY <1>2, <2>1 DEF RetryGenerate
<1>3. CASE DispatcherDies
  <2>1. faults' \in [FaultKind -> Nat]
    BY <1>3, FaultType DEF DispatcherDies, FaultKind
  <2> QED BY <1>3, <2>1 DEF DispatcherDies
<1>4. ASSUME NEW w \in Worker, NEW k \in Key, NEW a \in 0..Tries, Pop(w, k, a)
      PROVE  TypeOK'
  <2>1. Least(a + 1, Tries) \in 0..Tries
    BY DEF Least
  <2>2. tried' \in [Worker -> 0..Tries]
    BY <1>4, <2>1 DEF Pop
  <2>3. waiting' \in [Key \X (0..Tries) -> Nat]
    BY <1>4 DEF Pop
  <2>4. pc' \in [Worker -> PC] /\ at' \in [Worker -> Key]
    BY <1>4 DEF Pop
  <2> QED BY <1>4, <2>2, <2>3, <2>4 DEF Pop
<1>5. ASSUME NEW w \in Worker, Start(w) PROVE TypeOK'
  BY <1>5 DEF Start
<1>6. ASSUME NEW w \in Worker, Skip(w) PROVE TypeOK'
  BY <1>6 DEF Skip
<1>7. ASSUME NEW w \in Worker, Reserve(w) PROVE TypeOK'
  <2>1. Remaining \in Nat /\ Count \in Nat
    BY RemainingType
  <2>2. Least(Count, Remaining) \in 0..Count
    BY <2>1 DEF Least
  <2> QED BY <1>7, <2>1, <2>2 DEF Reserve
<1>8. ASSUME NEW w \in Worker, Answer(w) PROVE TypeOK'
  <2>1. PICK labels \in SUBSET Key, seedFirst \in BOOLEAN :
          \E kept \in Limited(at[w], labels, held[w], seedFirst) :
             got' = [got EXCEPT ![w] = kept]
    BY <1>8 DEF Answer
  <2>2. PICK kept \in Limited(at[w], labels, held[w], seedFirst) :
             got' = [got EXCEPT ![w] = kept]
    BY <2>1
  <2>3. kept \in SUBSET Key
    BY LimitedType
  <2>4. got' \in [Worker -> SUBSET Key]
    BY <2>2, <2>3
  <2> QED BY <1>8, <2>4 DEF Answer
<1>9. ASSUME NEW w \in Worker, Store(w) PROVE TypeOK'
  BY <1>9 DEF Store
<1>10. ASSUME NEW w \in Worker, Settle(w) PROVE TypeOK'
  <2>1. Cardinality(got[w] \ before[w]) \in Nat
    BY SubsetCardinality
  <2>2. AtLeastZero(reserved - held[w]) \in Nat
    BY AtLeastZeroType
  <2> QED BY <1>10, <2>1, <2>2 DEF Settle, SettleBudget
<1>11. ASSUME NEW w \in Worker, Link(w) PROVE TypeOK'
  <2>1. linked' \subseteq nodes
    BY <1>11 DEF Link, InTree
  <2> QED BY <1>11, <2>1 DEF Link
<1>12. ASSUME NEW w \in Worker, CreateChildren(w) PROVE TypeOK'
  <2>1. PICK c \in NewChildren(w) :
          /\ nodes' = nodes \cup c
          /\ depth' = [k \in Key |-> IF k \in c THEN depth[at[w]] + 1
                                                ELSE depth[k]]
          /\ parent' = [k \in Key |-> IF k \in c THEN at[w] ELSE parent[k]]
          /\ linked' = linked \cup c
          /\ todo' = [todo EXCEPT ![w] = c]
    BY <1>12 DEF CreateChildren
  <2>2. c \in SUBSET Key
    BY NewChildrenType
  <2>3. depth[at[w]] + 1 \in 0..MaxDepth
    BY <1>12 DEF CreateChildren, InTree, Growing
  <2>4. depth' \in [Key -> 0..MaxDepth] /\ parent' \in [Key -> Key]
    BY <2>1, <2>3
  <2>5. /\ nodes' \subseteq Key /\ linked' \subseteq nodes'
        /\ todo' \in [Worker -> SUBSET Key]
    BY <2>1, <2>2
  <2> QED BY <1>12, <2>4, <2>5 DEF CreateChildren
<1>13. ASSUME NEW w \in Worker, NEW k \in Key, DispatchChild(w, k)
       PROVE  TypeOK'
  BY <1>13 DEF DispatchChild
<1>14. ASSUME NEW w \in Worker, Succeed(w) PROVE TypeOK'
  BY <1>14 DEF Succeed
<1>15. ASSUME NEW w \in Worker, Return(w) PROVE TypeOK'
  BY <1>15 DEF Return, BecomeIdle, Forget, ForgetGraph
<1>16. ASSUME NEW w \in Worker, ProviderFails(w) PROVE TypeOK'
  BY <1>16 DEF ProviderFails
<1>17. ASSUME NEW w \in Worker, DbError(w) PROVE TypeOK'
  <2>1. faults' \in [FaultKind -> Nat]
    BY <1>17, FaultType DEF DbError, FaultKind
  <2> QED BY <1>17, <2>1 DEF DbError, ForgetGraph
<1>18. ASSUME NEW w \in Worker, Unwind(w) PROVE TypeOK'
  <2>1. AtLeastZero(reserved - held[w]) \in Nat
    BY AtLeastZeroType
  <2> QED BY <1>18, <2>1 DEF Unwind, SettleBudget
<1>19. ASSUME NEW w \in Worker, Release(w) PROVE TypeOK'
  BY <1>19 DEF Release, BecomeIdle, Forget, ForgetGraph
<1>20. ASSUME NEW w \in Worker, MarkFailed(w) PROVE TypeOK'
  BY <1>20 DEF MarkFailed
<1>21. ASSUME NEW w \in Worker, FailJob(w) PROVE TypeOK'
  BY <1>21 DEF FailJob, BecomeIdle, Forget, ForgetGraph
<1>22. ASSUME NEW w \in Worker, Timeout(w) PROVE TypeOK'
  <2>1. faults' \in [FaultKind -> Nat]
    BY <1>22, FaultType DEF Timeout, FaultKind
  <2> QED BY <1>22, <2>1 DEF Timeout, Forget, ForgetGraph
<1>23. ASSUME NEW w \in Worker, Kill(w) PROVE TypeOK'
  <2>1. faults' \in [FaultKind -> Nat]
    BY <1>23, FaultType DEF Kill, FaultKind
  <2> QED BY <1>23, <2>1 DEF Kill, BecomeIdle, Forget, ForgetGraph
<1>24. ASSUME NEW w \in Worker, Lookup(w) PROVE TypeOK'
  BY <1>24 DEF Lookup
<1>25. CASE UNCHANGED vars
  BY <1>25 DEF vars
<1> QED
  BY <1>1, <1>2, <1>3, <1>4, <1>5, <1>6, <1>7, <1>8, <1>9, <1>10, <1>11,
     <1>12, <1>13, <1>14, <1>15, <1>16, <1>17, <1>18, <1>19, <1>20, <1>21,
     <1>22, <1>23, <1>24, <1>25 DEF Next, WorkerStep

-----------------------------------------------------------------------------
(* Workers stay in the tree, and above its max depth while they expand.    *)

LEMMA StepInTree == IInv /\ [Next]_vars => InTree'
<1> SUFFICES ASSUME IInv, [Next]_vars PROVE InTree'
  OBVIOUS
<1>0. TypeOK /\ InTree /\ NoKey \in Key
  BY NoKeyType DEF IInv
<1> USE <1>0 DEF TypeOK, InTree, Growing, treeVars, runVars, jobVars, memVars,
                 Goto, Mark, Enqueue
<1>1. ASSUME NEW k \in Key, DispatchRoot(k) PROVE InTree'
  BY <1>1 DEF DispatchRoot
<1>2. ASSUME NEW k \in Key, RetryGenerate(k) PROVE InTree'
  BY <1>2 DEF RetryGenerate, Fault
<1>3. CASE DispatcherDies
  BY <1>3 DEF DispatcherDies, Fault
<1>4. ASSUME NEW w \in Worker, NEW k \in Key, NEW a \in 0..Tries,
             Pop(w, k, a)
      PROVE  InTree'
  BY <1>4 DEF Pop
<1>5. ASSUME NEW w \in Worker, Start(w) PROVE InTree'
  BY <1>5 DEF Start
<1>6. ASSUME NEW w \in Worker, Skip(w) PROVE InTree'
  BY <1>6 DEF Skip
<1>7. ASSUME NEW w \in Worker, Reserve(w) PROVE InTree'
  BY <1>7 DEF Reserve
<1>8. ASSUME NEW w \in Worker, Answer(w) PROVE InTree'
  BY <1>8 DEF Answer
<1>9. ASSUME NEW w \in Worker, Store(w) PROVE InTree'
  BY <1>9 DEF Store
<1>10. ASSUME NEW w \in Worker, Settle(w) PROVE InTree'
  BY <1>10 DEF Settle, SettleBudget
<1>11. ASSUME NEW w \in Worker, Link(w) PROVE InTree'
  BY <1>11 DEF Link
<1>12. ASSUME NEW w \in Worker, CreateChildren(w) PROVE InTree'
  <2>1. PICK c \in NewChildren(w) :
          /\ nodes' = nodes \cup c
          /\ depth' = [k \in Key |-> IF k \in c THEN depth[at[w]] + 1
                                                ELSE depth[k]]
          /\ parent' = [k \in Key |-> IF k \in c THEN at[w] ELSE parent[k]]
          /\ linked' = linked \cup c
          /\ todo' = [todo EXCEPT ![w] = c]
    BY <1>12 DEF CreateChildren
  <2>2. c \in SUBSET Key /\ c \subseteq got[w] /\ c \cap nodes = {}
    BY <2>1, NewChildrenType
  <2>3. \A v \in Worker : pc[v] # "idle" => depth'[at[v]] = depth[at[v]]
    BY <2>1, <2>2
  <2>4. /\ starting' \subseteq nodes'
        /\ \A x \in Key \X (0..Tries) : waiting'[x] > 0 => x[1] \in nodes'
    BY <1>12, <2>1 DEF CreateChildren
  <2>5. \A v \in Worker : todo'[v] \subseteq nodes'
    BY <2>1
  <2>6. \A v \in Worker : /\ pc'[v] # "idle" => pc[v] # "idle"
                          /\ pc'[v] \in Growing => pc[v] \in Growing
                          /\ at'[v] = at[v]
    BY <1>12 DEF CreateChildren
  <2> QED BY <2>1, <2>3, <2>4, <2>5, <2>6
<1>13. ASSUME NEW w \in Worker, NEW k \in Key, DispatchChild(w, k)
       PROVE  InTree'
  BY <1>13 DEF DispatchChild
<1>14. ASSUME NEW w \in Worker, Succeed(w) PROVE InTree'
  BY <1>14 DEF Succeed
<1>15. ASSUME NEW w \in Worker, Return(w) PROVE InTree'
  BY <1>15 DEF Return, BecomeIdle, Forget, ForgetGraph
<1>16. ASSUME NEW w \in Worker, ProviderFails(w) PROVE InTree'
  BY <1>16 DEF ProviderFails
<1>17. ASSUME NEW w \in Worker, DbError(w) PROVE InTree'
  BY <1>17 DEF DbError, Fault, ForgetGraph
<1>18. ASSUME NEW w \in Worker, Unwind(w) PROVE InTree'
  BY <1>18 DEF Unwind, SettleBudget
<1>19. ASSUME NEW w \in Worker, Release(w) PROVE InTree'
  BY <1>19 DEF Release, BecomeIdle, Forget, ForgetGraph
<1>20. ASSUME NEW w \in Worker, MarkFailed(w) PROVE InTree'
  BY <1>20 DEF MarkFailed
<1>21. ASSUME NEW w \in Worker, FailJob(w) PROVE InTree'
  BY <1>21 DEF FailJob, BecomeIdle, Forget, ForgetGraph
<1>22. ASSUME NEW w \in Worker, Timeout(w) PROVE InTree'
  BY <1>22 DEF Timeout, Fault, Forget, ForgetGraph
<1>23. ASSUME NEW w \in Worker, Kill(w) PROVE InTree'
  BY <1>23 DEF Kill, Fault, BecomeIdle, Forget, ForgetGraph
<1>24. ASSUME NEW w \in Worker, Lookup(w) PROVE InTree'
  BY <1>24 DEF Lookup
<1>25. CASE UNCHANGED vars
  BY <1>25 DEF vars
<1> QED
  BY <1>1, <1>2, <1>3, <1>4, <1>5, <1>6, <1>7, <1>8, <1>9, <1>10, <1>11,
     <1>12, <1>13, <1>14, <1>15, <1>16, <1>17, <1>18, <1>19, <1>20, <1>21,
     <1>22, <1>23, <1>24, <1>25 DEF Next, WorkerStep

(* A handler that stored its graph finds its labels among the concepts, and*)
(* only a handler that is dispatching has children to dispatch.            *)
LEMMA StepInMemory == IInv /\ [Next]_vars => InMemory'
<1> SUFFICES ASSUME IInv, [Next]_vars PROVE InMemory'
  OBVIOUS
<1>0. TypeOK /\ InMemory
  BY DEF IInv
<1> USE <1>0 DEF TypeOK, InMemory, treeVars, runVars, jobVars, memVars,
                 Goto, Mark, Enqueue
<1>1. ASSUME NEW k \in Key, DispatchRoot(k) PROVE InMemory'
  BY <1>1 DEF DispatchRoot
<1>2. ASSUME NEW k \in Key, RetryGenerate(k) PROVE InMemory'
  BY <1>2 DEF RetryGenerate, Fault
<1>3. CASE DispatcherDies
  BY <1>3 DEF DispatcherDies, Fault
<1>4. ASSUME NEW w \in Worker, NEW k \in Key, NEW a \in 0..Tries,
             Pop(w, k, a)
      PROVE  InMemory'
  BY <1>4 DEF Pop
<1>5. ASSUME NEW w \in Worker, Start(w) PROVE InMemory'
  BY <1>5 DEF Start
<1>6. ASSUME NEW w \in Worker, Skip(w) PROVE InMemory'
  BY <1>6 DEF Skip
<1>7. ASSUME NEW w \in Worker, Reserve(w) PROVE InMemory'
  BY <1>7 DEF Reserve
<1>8. ASSUME NEW w \in Worker, Answer(w) PROVE InMemory'
  <2>1. \A v \in Worker \ {w} : got'[v] = got[v] /\ pc'[v] = pc[v]
    BY <1>8 DEF Answer
  <2>2. pc'[w] = "lookup" /\ pc[w] = "llm" /\ UNCHANGED <<todo, concepts>>
    BY <1>8 DEF Answer
  <2> QED BY <2>1, <2>2
<1>9. ASSUME NEW w \in Worker, Store(w) PROVE InMemory'
  BY <1>9 DEF Store
<1>10. ASSUME NEW w \in Worker, Settle(w) PROVE InMemory'
  BY <1>10 DEF Settle, SettleBudget
<1>11. ASSUME NEW w \in Worker, Link(w) PROVE InMemory'
  BY <1>11 DEF Link
<1>12. ASSUME NEW w \in Worker, CreateChildren(w) PROVE InMemory'
  <2>1. PICK c \in NewChildren(w) :
          /\ nodes' = nodes \cup c
          /\ depth' = [k \in Key |-> IF k \in c THEN depth[at[w]] + 1
                                                ELSE depth[k]]
          /\ parent' = [k \in Key |-> IF k \in c THEN at[w] ELSE parent[k]]
          /\ linked' = linked \cup c
          /\ todo' = [todo EXCEPT ![w] = c]
    BY <1>12 DEF CreateChildren
  <2>2. c \in SUBSET Key /\ c \subseteq got[w] /\ c \cap nodes = {}
    BY <2>1, NewChildrenType
  <2> QED BY <1>12, <2>1 DEF CreateChildren
<1>13. ASSUME NEW w \in Worker, NEW k \in Key, DispatchChild(w, k)
       PROVE  InMemory'
  BY <1>13 DEF DispatchChild
<1>14. ASSUME NEW w \in Worker, Succeed(w) PROVE InMemory'
  BY <1>14 DEF Succeed
<1>15. ASSUME NEW w \in Worker, Return(w) PROVE InMemory'
  BY <1>15 DEF Return, BecomeIdle, Forget, ForgetGraph
<1>16. ASSUME NEW w \in Worker, ProviderFails(w) PROVE InMemory'
  BY <1>16 DEF ProviderFails
<1>17. ASSUME NEW w \in Worker, DbError(w) PROVE InMemory'
  BY <1>17 DEF DbError, Fault, ForgetGraph
<1>18. ASSUME NEW w \in Worker, Unwind(w) PROVE InMemory'
  BY <1>18 DEF Unwind, SettleBudget
<1>19. ASSUME NEW w \in Worker, Release(w) PROVE InMemory'
  BY <1>19 DEF Release, BecomeIdle, Forget, ForgetGraph
<1>20. ASSUME NEW w \in Worker, MarkFailed(w) PROVE InMemory'
  BY <1>20 DEF MarkFailed
<1>21. ASSUME NEW w \in Worker, FailJob(w) PROVE InMemory'
  BY <1>21 DEF FailJob, BecomeIdle, Forget, ForgetGraph
<1>22. ASSUME NEW w \in Worker, Timeout(w) PROVE InMemory'
  BY <1>22 DEF Timeout, Fault, Forget, ForgetGraph
<1>23. ASSUME NEW w \in Worker, Kill(w) PROVE InMemory'
  BY <1>23 DEF Kill, Fault, BecomeIdle, Forget, ForgetGraph
<1>24. ASSUME NEW w \in Worker, Lookup(w) PROVE InMemory'
  BY <1>24 DEF Lookup
<1>25. CASE UNCHANGED vars
  BY <1>25 DEF vars
<1> QED
  BY <1>1, <1>2, <1>3, <1>4, <1>5, <1>6, <1>7, <1>8, <1>9, <1>10, <1>11,
     <1>12, <1>13, <1>14, <1>15, <1>16, <1>17, <1>18, <1>19, <1>20, <1>21,
     <1>22, <1>23, <1>24, <1>25 DEF Next, WorkerStep

(* The invariant is inductive.                                             *)
LEMMA StepInvariant == IInv /\ [Next]_vars => IInv'
BY StepType, StepInTree, StepInMemory DEF IInv

(* The inductive invariant, and with it the types.                         *)
THEOREM Inductive == Spec => []IInv
<1>1. Init => IInv
  BY InitType
<1>2. IInv /\ [Next]_vars => IInv'
  BY StepInvariant
<1> QED BY <1>1, <1>2, PTL DEF Spec

(* Every variable of a run keeps its type: in particular no node is created *)
(* below the run's max depth and no handler holds more slots than it asks   *)
(* for (GeneratePipelineNodeJob, enqueueChildren()).                        *)
THEOREM TypeCorrect == Spec => []TypeOK
<1>1. IInv => TypeOK
  BY DEF IInv
<1> QED BY <1>1, Inductive, PTL

-----------------------------------------------------------------------------
(* The tree grows downwards: enqueueChildren() is the only step that adds a*)
(* node, all others leave nodes, depths and parents alone.                 *)

LEMMA OnlyChildrenAreAdded ==
    ASSUME Next, \A w \in Worker : ~CreateChildren(w)
    PROVE  /\ UNCHANGED <<nodes, depth, parent>>
           /\ concepts \subseteq concepts' /\ linked \subseteq linked'
<1> USE DEF treeVars
<1>1. ASSUME NEW k \in Key, DispatchRoot(k) \/ RetryGenerate(k)
      PROVE  /\ UNCHANGED <<nodes, depth, parent>>
             /\ concepts \subseteq concepts' /\ linked \subseteq linked'
  BY <1>1 DEF DispatchRoot, RetryGenerate
<1>2. ASSUME DispatcherDies
      PROVE  /\ UNCHANGED <<nodes, depth, parent>>
             /\ concepts \subseteq concepts' /\ linked \subseteq linked'
  BY <1>2 DEF DispatcherDies
<1>3. ASSUME NEW w \in Worker, Store(w) \/ Link(w)
      PROVE  /\ UNCHANGED <<nodes, depth, parent>>
             /\ concepts \subseteq concepts' /\ linked \subseteq linked'
  BY <1>3 DEF Store, Link
<1>4. ASSUME NEW w \in Worker, NEW k \in Key, NEW a \in 0..Tries,
             Pop(w, k, a) \/ DispatchChild(w, k)
      PROVE  UNCHANGED <<nodes, depth, parent, concepts, linked>>
  BY <1>4 DEF Pop, DispatchChild
<1>5. ASSUME NEW w \in Worker,
             \/ Start(w) \/ Skip(w) \/ Reserve(w) \/ Answer(w) \/ Lookup(w)
             \/ Settle(w) \/ Succeed(w) \/ Return(w)
      PROVE  UNCHANGED <<nodes, depth, parent, concepts, linked>>
  BY <1>5 DEF Start, Skip, Reserve, Answer, Lookup, Settle, Succeed, Return
<1>6. ASSUME NEW w \in Worker,
             \/ ProviderFails(w) \/ DbError(w) \/ Unwind(w) \/ Release(w)
             \/ MarkFailed(w) \/ FailJob(w) \/ Timeout(w) \/ Kill(w)
      PROVE  UNCHANGED <<nodes, depth, parent, concepts, linked>>
  BY <1>6 DEF ProviderFails, DbError, Unwind, Release, MarkFailed, FailJob,
              Timeout, Kill
<1>7. ASSUME NEW w \in Worker, NEW k \in Key, DispatchChild(w, k)
      PROVE  UNCHANGED <<nodes, depth, parent, concepts, linked>>
  BY <1>7 DEF DispatchChild
<1> QED
  BY <1>1, <1>2, <1>3, <1>4, <1>5, <1>6, <1>7 DEF Next, WorkerStep

(* Every step keeps the tree in order.                                     *)
LEMMA StepTree ==
    IInv /\ TreeGrowsDownwards /\ [Next]_vars => TreeGrowsDownwards'
<1> SUFFICES ASSUME IInv, TreeGrowsDownwards, [Next]_vars
             PROVE  TreeGrowsDownwards'
  OBVIOUS
<1>0. TypeOK /\ InTree /\ InMemory
  BY DEF IInv
<1>1. ASSUME NEW w \in Worker, CreateChildren(w) PROVE TreeGrowsDownwards'
  <2>1. PICK c \in NewChildren(w) :
          /\ nodes' = nodes \cup c
          /\ depth' = [j \in Key |-> IF j \in c THEN depth[at[w]] + 1
                                                ELSE depth[j]]
          /\ parent' = [j \in Key |-> IF j \in c THEN at[w] ELSE parent[j]]
          /\ linked' = linked \cup c
          /\ todo' = [todo EXCEPT ![w] = c]
    BY <1>1 DEF CreateChildren
  <2>2. c \in SUBSET Key /\ c \subseteq got[w] /\ c \cap nodes = {}
    BY <1>0, <2>1, NewChildrenType
  <2>3. Cardinality(nodes') <= MaxConcepts
    BY <1>0, <2>1, NewChildrenFit DEF TreeGrowsDownwards
  <2>4. at[w] \in nodes /\ got[w] \subseteq concepts /\ concepts' = concepts
    BY <1>0, <1>1 DEF CreateChildren, InTree, InMemory
  <2>5. nodes \subseteq Key /\ depth[at[w]] \in Nat
    BY <1>0, <2>4 DEF TypeOK
  <2>6. ASSUME NEW j \in nodes' \ Roots
        PROVE  /\ j \in concepts' /\ j \in linked'
               /\ parent'[j] \in nodes'
               /\ depth'[j] = depth'[parent'[j]] + 1
    <3>1. CASE j \in c
      <4>1. j \in concepts' /\ j \in linked'
        BY <3>1, <2>1, <2>2, <2>4
      <4>2. parent'[j] = at[w] /\ depth'[j] = depth[at[w]] + 1
        BY <3>1, <2>1, <2>2
      <4>3. depth'[at[w]] = depth[at[w]]
        BY <2>1, <2>2, <2>4, <2>5
      <4> QED BY <4>1, <4>2, <4>3, <2>1, <2>4
    <3>2. CASE j \notin c
      <4>1. j \in nodes \ Roots /\ j \in Key
        BY <3>2, <2>1, <2>5
      <4>2. /\ j \in concepts /\ j \in linked /\ parent[j] \in nodes
            /\ depth[j] = depth[parent[j]] + 1
        BY <4>1 DEF TreeGrowsDownwards
      <4>3. parent'[j] = parent[j] /\ depth'[j] = depth[j]
        BY <3>2, <4>1, <2>1
      <4>4. depth'[parent[j]] = depth[parent[j]]
        BY <4>2, <2>1, <2>2, <2>5
      <4> QED BY <4>2, <4>3, <4>4, <2>1, <2>4
    <3> QED BY <3>1, <3>2
  <2> QED BY <2>3, <2>6 DEF TreeGrowsDownwards
<1>2. CASE Next /\ \A w \in Worker : ~CreateChildren(w)
  <2>1. /\ UNCHANGED <<nodes, depth, parent>>
        /\ concepts \subseteq concepts' /\ linked \subseteq linked'
    BY <1>2, OnlyChildrenAreAdded
  <2> QED BY <2>1 DEF TreeGrowsDownwards
<1>3. CASE UNCHANGED vars
  BY <1>3 DEF vars, treeVars, TreeGrowsDownwards
<1> QED BY <1>1, <1>2, <1>3

(* The nodes of a run are at most MAX_CONCEPTS, and each one that is not a *)
(* root has a concept and a parent one level above it, although the check  *)
(* for existing keys and the cap are made by jobs that run concurrently    *)
(* (enqueueChildren()).                                                    *)
THEOREM TreeCorrect == Spec => []TreeGrowsDownwards
<1>1. Init => TreeGrowsDownwards
  BY RunAssumption DEF Init, TreeGrowsDownwards
<1>2. IInv /\ TreeGrowsDownwards /\ [Next]_vars => TreeGrowsDownwards'
  BY StepTree
<1> QED BY <1>1, <1>2, Inductive, PTL DEF Spec

-----------------------------------------------------------------------------
(* No node is forgotten.                                                   *)

(* The jobs that will yet mark the stage of a node: a handler that returns *)
(* has done so.                                                            *)
WillBeExpanded(k) ==
    \/ \E a \in 0..Tries : waiting[<<k, a>>] > 0
    \/ k \in starting
    \/ \E w \in Worker : k \in todo[w]
    \/ \E w \in Worker : at[w] = k /\ pc[w] \notin {"idle", "returned"}

Open(k) == k \in nodes /\ generate[k] \in {"pending", "processing"}

NoneForgotten == Undisturbed => \A k \in Key : Open(k) => WillBeExpanded(k)

(* A fault is never forgotten.                                            *)
LEMMA DisturbedForGood ==
    ASSUME TypeOK, [Next]_vars, Undisturbed' PROVE Undisturbed
<1>1. ASSUME NEW f \in FaultKind, Fault(f) PROVE Undisturbed
  BY <1>1 DEF Fault, Undisturbed, TypeOK, FaultKind
<1>2. CASE UNCHANGED faults
  BY <1>2 DEF Undisturbed
<1>3. UNCHANGED faults \/ \E f \in FaultKind : Fault(f)
  BY DEF Next, WorkerStep, vars, FaultKind, DispatchRoot, RetryGenerate,
         DispatcherDies, Pop, Start, Skip, Reserve, Answer, ProviderFails,
         Lookup, Store, Settle, Link, CreateChildren, DispatchChild, Succeed,
         Return, Unwind, Release, MarkFailed, FailJob, DbError, Timeout, Kill
<1> QED BY <1>1, <1>2, <1>3

(* Queueing a job adds it and takes none away.                             *)
LEMMA EnqueuedIsWaiting ==
    ASSUME TypeOK, NEW j \in Key, NEW a \in 0..Tries, Enqueue(j, a)
    PROVE  /\ waiting'[<<j, a>>] > 0
           /\ \A x \in Key \X (0..Tries) : waiting[x] > 0 => waiting'[x] > 0
BY DEF TypeOK, Enqueue

(* Only a handler that is dispatching has children to lose.                *)
LEMMA NothingToForget ==
    ASSUME TypeOK, InMemory, NEW w \in Worker, pc[w] # "dispatch",
           ForgetGraph(w)
    PROVE  todo' = todo
BY DEF TypeOK, InMemory, ForgetGraph

(* A fresh job in the queue is enough ...                                  *)
LEMMA WaitingIsExpanded ==
    ASSUME NEW k \in Key, waiting'[<<k, 0>>] > 0
    PROVE  WillBeExpanded(k)'
BY RunAssumption DEF WillBeExpanded

(* ... and so is any reason that a step does not take away.                *)
LEMMA StillExpanded ==
    ASSUME NEW k \in Key, WillBeExpanded(k),
           \A x \in Key \X (0..Tries) : waiting[x] > 0 => waiting'[x] > 0,
           k \in starting => k \in starting',
           \A w \in Worker : k \in todo[w] => k \in todo'[w],
           \A w \in Worker : at[w] = k /\ pc[w] \notin {"idle", "returned"} =>
                               at'[w] = k /\ pc'[w] \notin {"idle", "returned"}
    PROVE  WillBeExpanded(k)'
<1>1. ASSUME NEW a \in 0..Tries, waiting[<<k, a>>] > 0
      PROVE  WillBeExpanded(k)'
  BY <1>1 DEF WillBeExpanded
<1>2. CASE k \in starting
  BY <1>2 DEF WillBeExpanded
<1>3. ASSUME NEW w \in Worker, k \in todo[w] PROVE WillBeExpanded(k)'
  BY <1>3 DEF WillBeExpanded
<1>4. ASSUME NEW w \in Worker, at[w] = k, pc[w] \notin {"idle", "returned"}
      PROVE  WillBeExpanded(k)'
  BY <1>4 DEF WillBeExpanded
<1> QED BY <1>1, <1>2, <1>3, <1>4 DEF WillBeExpanded

(* Every step of an undisturbed run keeps the promise.                     *)
LEMMA StepNoneForgotten ==
    IInv /\ NoneForgotten /\ [Next]_vars => NoneForgotten'
<1> SUFFICES ASSUME IInv, NoneForgotten, [Next]_vars, Undisturbed',
                    NEW k \in Key, Open(k)'
             PROVE  WillBeExpanded(k)'
  BY DEF NoneForgotten
<1>0. /\ TypeOK /\ InTree /\ InMemory
      /\ Open(k) => WillBeExpanded(k)
  BY DisturbedForGood DEF IInv, NoneForgotten
<1> USE <1>0 DEF TypeOK, WillBeExpanded, Open, treeVars, runVars, jobVars,
                 memVars, Goto, Mark, Enqueue
<1>1. ASSUME NEW j \in Key, DispatchRoot(j) PROVE WillBeExpanded(k)'
  <2>1. /\ waiting'[<<k, 0>>] > 0 \/ k # j
        /\ \A x \in Key \X (0..Tries) : waiting[x] > 0 => waiting'[x] > 0
    BY <1>1, EnqueuedIsWaiting, RunAssumption DEF DispatchRoot
  <2>2. CASE k = j
    BY <2>1, <2>2, WaitingIsExpanded
  <2>3. CASE k # j
    <3>1. /\ Open(k) /\ UNCHANGED <<todo, at, pc>>
          /\ k \in starting => k \in starting'
      BY <1>1, <2>3 DEF DispatchRoot
    <3> QED BY <2>1, <3>1, StillExpanded
  <2> QED BY <2>2, <2>3
<1>2. ASSUME NEW j \in Key, RetryGenerate(j) PROVE WillBeExpanded(k)'
  <2>1. /\ waiting'[<<k, 0>>] > 0 \/ k # j
        /\ \A x \in Key \X (0..Tries) : waiting[x] > 0 => waiting'[x] > 0
    BY <1>2, EnqueuedIsWaiting, RunAssumption DEF RetryGenerate
  <2>2. CASE k = j
    BY <2>1, <2>2, WaitingIsExpanded
  <2>3. CASE k # j
    <3>1. /\ Open(k) /\ UNCHANGED <<todo, at, pc>>
          /\ k \in starting => k \in starting'
      BY <1>2, <2>3 DEF RetryGenerate
    <3> QED BY <2>1, <3>1, StillExpanded
  <2> QED BY <2>2, <2>3
<1>3. CASE DispatcherDies
  <2>1. ~Undisturbed'
    BY <1>3, FaultType DEF DispatcherDies, Undisturbed, FaultKind
  <2> QED BY <2>1
<1>4. ASSUME NEW w \in Worker, NEW j \in Key, NEW a \in 0..Tries,
             Pop(w, j, a)
      PROVE  WillBeExpanded(k)'
  BY <1>4 DEF Pop
<1>5. ASSUME NEW w \in Worker, Start(w) PROVE WillBeExpanded(k)'
  BY <1>5 DEF Start
<1>6. ASSUME NEW w \in Worker, Skip(w) PROVE WillBeExpanded(k)'
  BY <1>6 DEF Skip
<1>7. ASSUME NEW w \in Worker, Reserve(w) PROVE WillBeExpanded(k)'
  BY <1>7 DEF Reserve
<1>8. ASSUME NEW w \in Worker, Answer(w) PROVE WillBeExpanded(k)'
  BY <1>8 DEF Answer
<1>9. ASSUME NEW w \in Worker, Store(w) PROVE WillBeExpanded(k)'
  BY <1>9 DEF Store
<1>10. ASSUME NEW w \in Worker, Settle(w) PROVE WillBeExpanded(k)'
  BY <1>10 DEF Settle, SettleBudget
<1>11. ASSUME NEW w \in Worker, Link(w) PROVE WillBeExpanded(k)'
  BY <1>11 DEF Link
<1>12. ASSUME NEW w \in Worker, CreateChildren(w) PROVE WillBeExpanded(k)'
  <2>1. PICK c \in NewChildren(w) :
          /\ nodes' = nodes \cup c
          /\ depth' = [i \in Key |-> IF i \in c THEN depth[at[w]] + 1
                                                ELSE depth[i]]
          /\ parent' = [i \in Key |-> IF i \in c THEN at[w] ELSE parent[i]]
          /\ linked' = linked \cup c
          /\ todo' = [todo EXCEPT ![w] = c]
    BY <1>12 DEF CreateChildren
  <2>2. c \in SUBSET Key /\ c \subseteq got[w] /\ c \cap nodes = {}
    BY <2>1, NewChildrenType
  <2>3. CASE k \in c
    BY <2>1, <2>3
  <2>4. CASE k \notin c
    <3>1. Open(k) /\ todo[w] = {}
      BY <1>12, <2>1, <2>4 DEF CreateChildren, InMemory
    <3> QED BY <1>12, <2>1, <3>1 DEF CreateChildren
  <2> QED BY <2>3, <2>4
<1>13. ASSUME NEW w \in Worker, NEW j \in Key, DispatchChild(w, j)
       PROVE  WillBeExpanded(k)'
  <2>1. /\ waiting'[<<k, 0>>] > 0 \/ k # j
        /\ \A x \in Key \X (0..Tries) : waiting[x] > 0 => waiting'[x] > 0
    BY <1>13, EnqueuedIsWaiting, RunAssumption DEF DispatchChild
  <2>2. CASE k = j
    BY <2>1, <2>2, WaitingIsExpanded
  <2>3. CASE k # j
    <3>1. /\ Open(k) /\ UNCHANGED <<starting, at, pc>>
          /\ \A v \in Worker : k \in todo[v] => k \in todo'[v]
      BY <1>13, <2>3 DEF DispatchChild
    <3> QED BY <2>1, <3>1, StillExpanded
  <2> QED BY <2>2, <2>3
<1>14. ASSUME NEW w \in Worker, Succeed(w) PROVE WillBeExpanded(k)'
  BY <1>14 DEF Succeed
<1>15. ASSUME NEW w \in Worker, Return(w) PROVE WillBeExpanded(k)'
  <2>1. todo' = todo
    BY <1>15, NothingToForget DEF Return, BecomeIdle, Forget
  <2> QED BY <1>15, <2>1 DEF Return, BecomeIdle
<1>16. ASSUME NEW w \in Worker, ProviderFails(w) PROVE WillBeExpanded(k)'
  BY <1>16 DEF ProviderFails
<1>17. ASSUME NEW w \in Worker, DbError(w) PROVE WillBeExpanded(k)'
  <2>1. ~Undisturbed'
    BY <1>17, FaultType DEF DbError, Undisturbed, FaultKind
  <2> QED BY <2>1
<1>18. ASSUME NEW w \in Worker, Unwind(w) PROVE WillBeExpanded(k)'
  BY <1>18 DEF Unwind, SettleBudget
<1>19. ASSUME NEW w \in Worker, Release(w) PROVE WillBeExpanded(k)'
  <2>1. todo' = todo
    BY <1>19, NothingToForget DEF Release, BecomeIdle, Forget
  <2>2. /\ waiting'[<<at[w], tried[w]>>] > 0
        /\ \A x \in Key \X (0..Tries) : waiting[x] > 0 => waiting'[x] > 0
    BY <1>19, EnqueuedIsWaiting DEF Release
  <2>3. CASE k = at[w]
    BY <2>2, <2>3
  <2>4. CASE k # at[w]
    <3>1. /\ Open(k) /\ UNCHANGED starting
          /\ \A v \in Worker : at[v] = k => at'[v] = k /\ pc'[v] = pc[v]
      BY <1>19, <2>4 DEF Release, BecomeIdle
    <3> QED BY <2>1, <2>2, <3>1, StillExpanded
  <2> QED BY <2>3, <2>4
<1>20. ASSUME NEW w \in Worker, MarkFailed(w) PROVE WillBeExpanded(k)'
  BY <1>20 DEF MarkFailed
<1>21. ASSUME NEW w \in Worker, FailJob(w) PROVE WillBeExpanded(k)'
  <2>1. todo' = todo
    BY <1>21, NothingToForget DEF FailJob, BecomeIdle, Forget
  <2>2. k # at[w]
    BY <1>21 DEF FailJob
  <2> QED BY <1>21, <2>1, <2>2 DEF FailJob, BecomeIdle
<1>22. ASSUME NEW w \in Worker, Timeout(w) PROVE WillBeExpanded(k)'
  <2>1. todo' = todo
    BY <1>22, NothingToForget DEF Timeout, Forget
  <2> QED BY <1>22, <2>1 DEF Timeout
<1>23. ASSUME NEW w \in Worker, Kill(w) PROVE WillBeExpanded(k)'
  <2>1. ~Undisturbed'
    BY <1>23, FaultType DEF Kill, Undisturbed, FaultKind
  <2> QED BY <2>1
<1>24. ASSUME NEW w \in Worker, Lookup(w) PROVE WillBeExpanded(k)'
  BY <1>24 DEF Lookup
<1>25. CASE UNCHANGED vars
  BY <1>25 DEF vars
<1> QED
  BY <1>1, <1>2, <1>3, <1>4, <1>5, <1>6, <1>7, <1>8, <1>9, <1>10, <1>11,
     <1>12, <1>13, <1>14, <1>15, <1>16, <1>17, <1>18, <1>19, <1>20, <1>21,
     <1>22, <1>23, <1>24, <1>25 DEF Next, WorkerStep

(* As long as no process dies and no dispatch fails, a node whose generate *)
(* stage is not over has a job that will bring it to an end, whatever the  *)
(* provider answers, times out or is retried (enqueueChildren(), failed()).*)
THEOREM NoNodeIsForgotten == Spec => []EveryNodeHasJobIfUndisturbed
<1>1. Init => NoneForgotten
  BY DEF Init, NoneForgotten, Open, WillBeExpanded
<1>2. IInv /\ NoneForgotten /\ [Next]_vars => NoneForgotten'
  BY StepNoneForgotten
<1>3. IInv /\ NoneForgotten => EveryNodeHasJobIfUndisturbed
  BY DEF IInv, TypeOK, NoneForgotten, Open, WillBeExpanded, HasJob,
         EveryNodeHasJob, EveryNodeHasJobIfUndisturbed
<1> QED BY <1>1, <1>2, <1>3, Inductive, PTL DEF Spec

-----------------------------------------------------------------------------
(* The budget.                                                             *)

(* Sums: the pairs that Total counts are finitely many.                    *)
PairsOf(n) == UNION {{w} \X (1..n[w]) : w \in DOMAIN n}

(* An interval of slots under one worker has as many pairs as slots.       *)
LEMMA PairsOfOne ==
    ASSUME NEW w, NEW k \in Nat
    PROVE  /\ IsFiniteSet({w} \X (1..k))
           /\ Cardinality({w} \X (1..k)) = k
<1>a. IsFiniteSet({w}) /\ Cardinality({w}) = 1
  BY FS_Singleton
<1>b. /\ IsFiniteSet(1..k)
      /\ Cardinality(1..k) = IF 1 > k THEN 0 ELSE k - 1 + 1
  <2>1. 1 \in Int /\ k \in Int
    OBVIOUS
  <2> QED BY <2>1, FS_Interval
<1>1. /\ IsFiniteSet({w}) /\ Cardinality({w}) = 1
      /\ IsFiniteSet(1..k) /\ Cardinality(1..k) = k
  BY <1>a, <1>b
<1>2. /\ IsFiniteSet({w} \X (1..k))
      /\ Cardinality({w} \X (1..k)) = Cardinality({w}) * Cardinality(1..k)
  BY <1>1, FS_Product
<1> QED BY <1>1, <1>2

(* A sum over the workers is a natural number, and grows with its terms.   *)
LEMMA TotalType ==
    ASSUME NEW B \in Nat, NEW n \in [Worker -> 0..B]
    PROVE  IsFiniteSet(PairsOf(n)) /\ Total(n) \in Nat
<1>1. IsFiniteSet(Worker \X (1..B))
  <2>1. 1 \in Int /\ B \in Int
    OBVIOUS
  <2>2. IsFiniteSet(1..B)
    BY <2>1, FS_Interval
  <2>3. IsFiniteSet(Worker)
    BY RunAssumption
  <2> QED BY <2>2, <2>3, FS_Product
<1>2. PairsOf(n) \subseteq Worker \X (1..B)
  BY DEF PairsOf
<1> QED BY <1>1, <1>2, FS_Subset, FS_CardinalityType DEF Total, PairsOf

LEMMA TotalGrows ==
    ASSUME NEW B \in Nat, NEW n \in [Worker -> 0..B],
           NEW m \in [Worker -> 0..B], \A w \in Worker : n[w] <= m[w]
    PROVE  Total(n) <= Total(m)
<1>1. PairsOf(n) \subseteq PairsOf(m)
  BY DEF PairsOf
<1> QED BY <1>1, TotalType, FS_Subset DEF Total, PairsOf

(* A sum changes by as much as one of its terms.                           *)
LEMMA TotalChanges ==
    ASSUME NEW B \in Nat, NEW n \in [Worker -> 0..B],
           NEW m \in [Worker -> 0..B], NEW w \in Worker,
           \A v \in Worker \ {w} : m[v] = n[v]
    PROVE  /\ Total(n) \in Nat /\ Total(m) \in Nat
           /\ n[w] <= Total(n)
           /\ Total(m) = Total(n) - n[w] + m[w]
<1> DEFINE own(f) == {w} \X (1..f[w])
           rest == UNION {{v} \X (1..n[v]) : v \in Worker \ {w}}
<1>1. /\ IsFiniteSet(own(n)) /\ Cardinality(own(n)) = n[w]
      /\ IsFiniteSet(own(m)) /\ Cardinality(own(m)) = m[w]
  <2>1. n[w] \in Nat /\ m[w] \in Nat
    OBVIOUS
  <2> QED BY <2>1, PairsOfOne
<1>2. /\ PairsOf(n) = rest \cup own(n)
      /\ rest \cap own(n) = {} /\ rest \cap own(m) = {}
  BY DEF PairsOf
<1>3. PairsOf(m) = rest \cup own(m)
  BY DEF PairsOf
<1>4. IsFiniteSet(rest) /\ Cardinality(rest) \in Nat
  BY <1>2, TotalType, FS_Subset, FS_CardinalityType
<1>5. Total(n) = Cardinality(PairsOf(n)) /\ Total(m) = Cardinality(PairsOf(m))
  BY DEF Total, PairsOf
<1> HIDE DEF own, rest
<1>6. ASSUME NEW T, IsFiniteSet(T), rest \cap T = {}
      PROVE  Cardinality(rest \cup T) = Cardinality(rest) + Cardinality(T)
  <2>1. Cardinality(rest \cup T)
            = Cardinality(rest) + Cardinality(T) - Cardinality(rest \cap T)
    BY <1>4, <1>6, FS_Union
  <2>2. Cardinality(rest \cap T) = 0 /\ Cardinality(T) \in Nat
    BY <1>6, FS_EmptySet, FS_CardinalityType
  <2> QED BY <2>1, <2>2, <1>4
<1>7. Cardinality(rest \cup own(n)) = Cardinality(rest) + n[w]
  BY <1>1, <1>2, <1>6
<1>8. Cardinality(rest \cup own(m)) = Cardinality(rest) + m[w]
  BY <1>1, <1>2, <1>6
<1>9. n[w] \in Nat /\ m[w] \in Nat
  OBVIOUS
<1> QED BY <1>2, <1>3, <1>4, <1>5, <1>7, <1>8, <1>9

(* A sum of zeros.                                                         *)
LEMMA TotalZero ==
    ASSUME NEW n \in [Worker -> {0}]
    PROVE  Total(n) = 0
<1>1. PairsOf(n) = {}
  BY DEF PairsOf
<1> QED BY <1>1, FS_EmptySet DEF Total, PairsOf

(* Sets of keys: the smaller one has fewer elements, and a union at most   *)
(* as many as both together.                                               *)
LEMMA FewerKeys ==
    ASSUME NEW S \in SUBSET Key, NEW T \in SUBSET S
    PROVE  /\ Cardinality(S) \in Nat /\ Cardinality(T) \in Nat
           /\ Cardinality(T) <= Cardinality(S)
BY SubsetCardinality, FS_Subset

LEMMA CoveredKeys ==
    ASSUME NEW S \in SUBSET Key, NEW T \in SUBSET Key,
           NEW U \in SUBSET (S \cup T)
    PROVE  /\ Cardinality(S) \in Nat /\ Cardinality(T) \in Nat
           /\ Cardinality(U) \in Nat
           /\ Cardinality(U) <= Cardinality(S) + Cardinality(T)
<1>1. /\ IsFiniteSet(S) /\ IsFiniteSet(T)
      /\ Cardinality(S) \in Nat /\ Cardinality(T) \in Nat
      /\ Cardinality(S \cap T) \in Nat
  BY SubsetCardinality
<1>2. Cardinality(S \cup T)
          = Cardinality(S) + Cardinality(T) - Cardinality(S \cap T)
  BY <1>1, FS_Union
<1>3. /\ Cardinality(U) \in Nat /\ Cardinality(S \cup T) \in Nat
      /\ Cardinality(U) <= Cardinality(S \cup T)
  BY FewerKeys
<1> QED BY <1>1, <1>2, <1>3

(* The graph that limitNewConcepts() leaves has no more new labels than    *)
(* slots, but for the seed.                                                *)
LEMMA LimitedFits ==
    ASSUME TypeOK, NEW seed, NEW labels \in SUBSET Key, NEW allowed \in Nat,
           NEW seedFirst \in BOOLEAN,
           NEW kept \in Limited(seed, labels, allowed, seedFirst)
    PROVE  Cardinality((kept \ concepts) \ {seed}) <= allowed
<1> DEFINE fresh == (labels \ concepts) \ {seed}
           room == IF seed \in labels \ concepts /\ seedFirst
                   THEN allowed - 1 ELSE allowed
<1>1. PICK n \in SUBSET fresh :
          /\ Cardinality(n) = Least(room, Cardinality(fresh))
          /\ kept = (labels \cap (concepts \cup {seed})) \cup n
  BY DEF Limited
<1>2. (kept \ concepts) \ {seed} = n
  BY <1>1
<1>3. Cardinality(fresh) \in Nat /\ room \in Int /\ room <= allowed
  BY SubsetCardinality
<1> HIDE DEF fresh, room
<1>4. Least(room, Cardinality(fresh)) <= allowed
  BY <1>3 DEF Least
<1> QED BY <1>1, <1>2, <1>4

-----------------------------------------------------------------------------
(* The inductive invariant of the budget.                                  *)

(* The concepts that this run has created, but for its starting concepts.  *)
Extra == concepts \ (Stored \cup Roots)

(* What a handler has still to create, of the slots it holds: all of them  *)
(* before it stores its graph, none of those it used when it has.          *)
Fresh(w) == (got[w] \ before[w]) \ Roots
ToStore ==
    [w \in Worker |-> IF pc[w] \in {"llm", "lookup", "store"}
                      THEN held[w] ELSE 0]
Spare ==
    [w \in Worker |-> IF pc[w] = "settle"
                      THEN held[w] - Cardinality(Fresh(w)) ELSE held[w]]

(* Slots are held from the reservation to the settlement, and a graph that *)
(* was limited fits into them but for its seed.                            *)
SlotOK(w) ==
    /\ held[w] > 0 =>
         pc[w] \in {"llm", "lookup", "store", "settle", "unwind", "abort"}
    /\ pc[w] = "lookup" =>
         Cardinality((got[w] \ concepts) \ {at[w]}) <= held[w]
    /\ pc[w] \in {"store", "settle"} =>
         /\ got[w] \cap Stored \subseteq before[w]
         /\ before[w] \subseteq concepts
         /\ Cardinality((got[w] \ before[w]) \ {at[w]}) <= held[w]
         /\ at[w] \in got[w] \ before[w] => at[w] \in Roots \ Stored
SlotsOK == \A w \in Worker : SlotOK(w)

(* What is created, or may be with a slot that is not settled, is counted; *)
(* what graphs not yet stored may add is within the budget.                *)
ExtraIsCovered ==
    faults["db"] = 0 =>
        /\ Cardinality(Extra) + Total(Spare) <= created + reserved
        /\ Cardinality(Extra) + Total(ToStore) <= MaxConcepts

(* New starting concepts that may still be counted beyond the slots.       *)
IsUnpaid(r) ==
    \/ r \notin concepts
    \/ \E w \in Worker : /\ pc[w] \in {"store", "settle"} /\ at[w] = r
                         /\ r \in got[w] \ before[w]
Unpaid == {r \in Roots \ Stored : IsUnpaid(r)}

Unhurried == Undisturbed /\ faults["haste"] = 0

SeedsAreCovered ==
    Unhurried =>
        created + reserved + Cardinality(Unpaid) <= MaxConcepts + NewSeeds

(* A node has one job: in the queue, with a worker, or about to be queued. *)
QueuedOnce ==
    \A k \in Key : \A a, b \in 0..Tries :
        waiting[<<k, a>>] > 0 /\ waiting[<<k, b>>] > 0 =>
            a = b /\ waiting[<<k, a>>] = 1
QueuedAlone ==
    \A k \in Key : \A a \in 0..Tries : waiting[<<k, a>>] > 0 =>
        /\ k \notin starting
        /\ \A w \in Worker : k \notin todo[w] /\ (pc[w] # "idle" => at[w] # k)
StartingAlone ==
    \A k \in starting : \A w \in Worker :
        k \notin todo[w] /\ (pc[w] # "idle" => at[w] # k)
WorkersApart ==
    \A v, w \in Worker :
        /\ pc[v] # "idle" => at[v] \notin todo[w]
        /\ v # w => /\ \A k \in todo[v] : k \notin todo[w]
                    /\ pc[v] # "idle" /\ pc[w] # "idle" => at[v] # at[w]
OneJob == QueuedOnce /\ QueuedAlone /\ StartingAlone /\ WorkersApart
OneJobIfUnhurried == Unhurried => OneJob

BInv == /\ Stored \subseteq concepts /\ SlotsOK /\ LedgerBalanced
        /\ ExtraIsCovered /\ OneJobIfUnhurried /\ SeedsAreCovered
        /\ ConceptsAreCounted

-----------------------------------------------------------------------------
(* The steps that leave the budget alone.                                  *)

SlotHolders == {"llm", "lookup", "store", "settle", "unwind", "abort"}

(* A worker that holds no slots moves on, or does nothing.                 *)
SameSlots(w) ==
    /\ held'[w] = held[w]
    /\ \/ /\ pc'[w] = pc[w] /\ at'[w] = at[w]
          /\ got'[w] = got[w] /\ before'[w] = before[w]
       \/ pc[w] \notin SlotHolders /\ pc'[w] \notin SlotHolders

QuietStep ==
    /\ UNCHANGED <<concepts, created, reserved, leaked>>
    /\ \A w \in Worker : SameSlots(w)

BudgetAction(w) ==
    \/ Reserve(w) \/ Answer(w) \/ ProviderFails(w) \/ Lookup(w) \/ Store(w)
    \/ Settle(w) \/ DbError(w) \/ Unwind(w) \/ Timeout(w) \/ Kill(w)

(* Every step that is not part of the budget's life leaves it alone.       *)
LEMMA OtherStepsAreQuiet ==
    ASSUME IInv, SlotsOK, [Next]_vars
    PROVE  QuietStep \/ \E w \in Worker : BudgetAction(w)
<1>0. TypeOK /\ NoKey \in Key
  BY NoKeyType DEF IInv
<1>a. \A w \in Worker : held[w] \in Nat
  BY <1>0, RunAssumption DEF TypeOK
<1>b. \A w \in Worker : pc[w] \notin SlotHolders => held[w] = 0
  <2> SUFFICES ASSUME NEW w \in Worker, pc[w] \notin SlotHolders
               PROVE  held[w] = 0
    OBVIOUS
  <2>1. SlotOK(w)
    BY DEF SlotsOK
  <2>2. ~ (held[w] > 0)
    BY <2>1 DEF SlotOK, SlotHolders
  <2> QED BY <2>2, <1>a
<1> USE <1>0, <1>b DEF TypeOK, QuietStep, SameSlots, SlotHolders, treeVars, runVars,
        jobVars, memVars, Goto
<1>1. ASSUME NEW k \in Key, DispatchRoot(k) \/ RetryGenerate(k) \/ DispatcherDies
      PROVE  QuietStep
  BY <1>1 DEF DispatchRoot, RetryGenerate, DispatcherDies
<1>2. ASSUME NEW w \in Worker, NEW k \in Key, NEW a \in 0..Tries,
             Pop(w, k, a)
      PROVE  QuietStep
  BY <1>2 DEF Pop
<1>3. ASSUME NEW w \in Worker, NEW k \in Key, DispatchChild(w, k)
      PROVE  QuietStep
  BY <1>3 DEF DispatchChild
<1>4. ASSUME NEW w \in Worker, Start(w) \/ Skip(w) \/ Link(w) \/ Succeed(w)
      PROVE  QuietStep
  BY <1>4 DEF Start, Skip, Link, Succeed
<1>5. ASSUME NEW w \in Worker, CreateChildren(w) PROVE QuietStep
  BY <1>5 DEF CreateChildren
<1>6. ASSUME NEW w \in Worker, Return(w) \/ Release(w) \/ FailJob(w)
      PROVE  QuietStep
  BY <1>6 DEF Return, Release, FailJob, BecomeIdle, Forget, ForgetGraph
<1>7. ASSUME NEW w \in Worker, MarkFailed(w) PROVE QuietStep
  BY <1>7 DEF MarkFailed
<1>8. CASE UNCHANGED vars
  BY <1>8 DEF vars
<1>9. DispatcherDies => QuietStep
  BY <1>1, RunAssumption
<1> QED
  BY <1>1, <1>2, <1>3, <1>4, <1>5, <1>6, <1>7, <1>8, <1>9
     DEF Next, WorkerStep, BudgetAction

(* The faults that have happened are not forgotten.                        *)
LEMMA FaultsGrow ==
    ASSUME TypeOK, [Next]_vars, NEW f \in FaultKind
    PROVE  faults[f] \in Nat /\ faults'[f] \in Nat /\ faults'[f] >= faults[f]
<1>1. ASSUME NEW g \in FaultKind, Fault(g)
      PROVE  faults'[f] \in Nat /\ faults'[f] >= faults[f]
  BY <1>1 DEF Fault, TypeOK
<1>2. UNCHANGED faults \/ \E g \in FaultKind : Fault(g)
  BY DEF Next, WorkerStep, vars, FaultKind, DispatchRoot, RetryGenerate,
         DispatcherDies, Pop, Start, Skip, Reserve, Answer, ProviderFails,
         Lookup, Store, Settle, Link, CreateChildren, DispatchChild, Succeed,
         Return, Unwind, Release, MarkFailed, FailJob, DbError, Timeout, Kill
<1> QED BY <1>1, <1>2 DEF TypeOK

LEMMA CalmForGood ==
    ASSUME TypeOK, [Next]_vars
    PROVE  /\ Unhurried' => Unhurried
           /\ Undisturbed' => Undisturbed
           /\ faults'["db"] = 0 => faults["db"] = 0
<1>1. \A f \in FaultKind : /\ faults[f] \in Nat /\ faults'[f] \in Nat
                           /\ faults'[f] >= faults[f]
  BY FaultsGrow
<1> QED BY <1>1 DEF Unhurried, Undisturbed, FaultKind

-----------------------------------------------------------------------------
(* The slots and what fits into them.                                      *)

(* Types of the sums, and what a handler that is past its start knows.     *)
LEMMA SlotTypes ==
    TypeOK => /\ held \in [Worker -> 0..Count]
              /\ ToStore \in [Worker -> 0..Count]
              /\ ToSettle \in [Worker -> 0..Cardinality(Key)]
              /\ Cardinality(Key) \in Nat /\ Count \in Nat
<1> SUFFICES ASSUME TypeOK
             PROVE  /\ held \in [Worker -> 0..Count]
                    /\ ToStore \in [Worker -> 0..Count]
                    /\ ToSettle \in [Worker -> 0..Cardinality(Key)]
                    /\ Cardinality(Key) \in Nat /\ Count \in Nat
  OBVIOUS
<1>1. Cardinality(Key) \in Nat /\ Count \in Nat
  BY RunAssumption, FS_CardinalityType
<1>2. \A w \in Worker : Cardinality(got[w] \ before[w]) \in 0..Cardinality(Key)
  <2> SUFFICES ASSUME NEW w \in Worker
               PROVE  Cardinality(got[w] \ before[w]) \in 0..Cardinality(Key)
    OBVIOUS
  <2>1. got[w] \ before[w] \in SUBSET Key /\ Key \in SUBSET Key
    BY DEF TypeOK
  <2> QED BY <2>1, <1>1, FewerKeys
<1>3. ToSettle \in [Worker -> 0..Cardinality(Key)]
  BY <1>1, <1>2 DEF ToSettle
<1>4. ToStore \in [Worker -> 0..Count]
  BY <1>1 DEF ToStore, TypeOK
<1> QED BY <1>1, <1>3, <1>4 DEF TypeOK

LEMMA SpareType ==
    TypeOK /\ SlotsOK =>
        /\ Spare \in [Worker -> 0..Count]
        /\ \A w \in Worker : ToStore[w] <= Spare[w]
        /\ \A w \in Worker : /\ Cardinality(Fresh(w)) \in Nat
                             /\ pc[w] = "settle" =>
                                  Cardinality(Fresh(w)) <= held[w]
<1> SUFFICES ASSUME TypeOK, SlotsOK
             PROVE  /\ Spare \in [Worker -> 0..Count]
                    /\ \A w \in Worker : ToStore[w] <= Spare[w]
                    /\ \A w \in Worker :
                         /\ Cardinality(Fresh(w)) \in Nat
                         /\ pc[w] = "settle" =>
                              Cardinality(Fresh(w)) <= held[w]
  OBVIOUS
<1>1. ASSUME NEW w \in Worker
      PROVE  /\ held[w] \in 0..Count /\ Cardinality(Fresh(w)) \in Nat
             /\ pc[w] = "settle" => Cardinality(Fresh(w)) <= held[w]
  <2>1. held[w] \in 0..Count
    BY DEF TypeOK
  <2>2. Fresh(w) \in SUBSET Key
    BY DEF TypeOK, Fresh
  <2>3. Cardinality(Fresh(w)) \in Nat
    BY <2>2, SubsetCardinality
  <2>4. ASSUME pc[w] = "settle" PROVE Cardinality(Fresh(w)) <= held[w]
    <3>1. SlotOK(w)
      BY DEF SlotsOK
    <3>2. /\ Cardinality((got[w] \ before[w]) \ {at[w]}) <= held[w]
          /\ Fresh(w) \subseteq (got[w] \ before[w]) \ {at[w]}
          /\ (got[w] \ before[w]) \ {at[w]} \in SUBSET Key
      BY <2>4, <3>1 DEF SlotOK, Fresh, TypeOK
    <3>3. /\ Cardinality((got[w] \ before[w]) \ {at[w]}) \in Nat
          /\ Cardinality(Fresh(w))
                <= Cardinality((got[w] \ before[w]) \ {at[w]})
      BY <3>2, FewerKeys
    <3> QED BY <3>2, <3>3, <2>1, <2>3, RunAssumption
  <2> QED BY <2>1, <2>3, <2>4
<1>2. Count \in Nat
  BY RunAssumption
<1>3. Spare \in [Worker -> 0..Count]
  BY <1>1, <1>2 DEF Spare
<1>4. \A w \in Worker : ToStore[w] <= Spare[w]
  BY <1>1, <1>2 DEF Spare, ToStore
<1> QED BY <1>1, <1>3, <1>4

(* A handler that is left alone keeps its slots, whatever others store.    *)
LEMMA SlotKept ==
    ASSUME TypeOK, concepts \subseteq concepts', NEW w \in Worker, SlotOK(w),
           held'[w] = held[w], pc'[w] = pc[w], at'[w] = at[w],
           got'[w] = got[w], before'[w] = before[w]
    PROVE  SlotOK(w)'
<1>1. pc[w] = "lookup" =>
          Cardinality((got[w] \ concepts') \ {at[w]}) <= held[w]
  <2> SUFFICES ASSUME pc[w] = "lookup"
               PROVE  Cardinality((got[w] \ concepts') \ {at[w]}) <= held[w]
    OBVIOUS
  <2>1. /\ Cardinality((got[w] \ concepts) \ {at[w]}) <= held[w]
        /\ (got[w] \ concepts) \ {at[w]} \in SUBSET Key
        /\ (got[w] \ concepts') \ {at[w]}
              \in SUBSET ((got[w] \ concepts) \ {at[w]})
    BY DEF SlotOK, TypeOK
  <2>2. held[w] \in Nat
    BY RunAssumption DEF TypeOK
  <2>3. /\ Cardinality((got[w] \ concepts) \ {at[w]}) \in Nat
        /\ Cardinality((got[w] \ concepts') \ {at[w]}) \in Nat
        /\ Cardinality((got[w] \ concepts') \ {at[w]})
              <= Cardinality((got[w] \ concepts) \ {at[w]})
    BY <2>1, FewerKeys
  <2> QED BY <2>1, <2>2, <2>3
<1> QED BY <1>1 DEF SlotOK

(* Every step keeps the slots in order.                                    *)
LEMMA StepSlots ==
    ASSUME IInv, TreeGrowsDownwards, BInv, [Next]_vars
    PROVE  SlotsOK' /\ Stored \subseteq concepts'
<1>0. TypeOK /\ InTree /\ InMemory /\ SlotsOK /\ Stored \subseteq concepts
      /\ NoKey \in Key
  BY NoKeyType DEF IInv, BInv
<1>a. \A w \in Worker : SlotOK(w) /\ held[w] \in Nat
  BY <1>0, RunAssumption DEF SlotsOK, TypeOK
<1> DEFINE Others(w) ==
        \A v \in Worker \ {w} :
           /\ held'[v] = held[v] /\ pc'[v] = pc[v] /\ at'[v] = at[v]
           /\ got'[v] = got[v] /\ before'[v] = before[v]
<1>b. ASSUME NEW w \in Worker, Others(w), concepts \subseteq concepts',
             SlotOK(w)'
      PROVE  SlotsOK' /\ Stored \subseteq concepts'
  BY <1>0, <1>a, <1>b, SlotKept DEF SlotsOK
<1> USE <1>0 DEF TypeOK, treeVars, runVars, jobVars, memVars, Goto
<1>1. CASE QuietStep
  <2> SUFFICES ASSUME NEW w \in Worker PROVE SlotOK(w)'
    BY <1>1 DEF SlotsOK, QuietStep
  <2>1. SlotOK(w) /\ SameSlots(w) /\ UNCHANGED concepts
    BY <1>1, <1>a DEF QuietStep
  <2>2. CASE /\ pc'[w] = pc[w] /\ at'[w] = at[w]
             /\ got'[w] = got[w] /\ before'[w] = before[w]
    BY <2>1, <2>2, SlotKept DEF SameSlots
  <2>3. CASE pc[w] \notin SlotHolders /\ pc'[w] \notin SlotHolders
    BY <2>1, <2>3, <1>a DEF SlotOK, SlotHolders, SameSlots
  <2> QED BY <2>1, <2>2, <2>3 DEF SameSlots
<1>2. ASSUME NEW w \in Worker, Reserve(w)
      PROVE  SlotsOK' /\ Stored \subseteq concepts'
  <2>1. Others(w) /\ UNCHANGED concepts /\ pc'[w] = "llm"
    BY <1>2 DEF Reserve
  <2> QED BY <2>1, <1>b DEF SlotOK
<1>3. ASSUME NEW w \in Worker, Answer(w)
      PROVE  SlotsOK' /\ Stored \subseteq concepts'
  <2>1. PICK labels \in SUBSET Key, seedFirst \in BOOLEAN :
          \E kept \in Limited(at[w], labels, held[w], seedFirst) :
             got' = [got EXCEPT ![w] = kept]
    BY <1>3 DEF Answer
  <2>2. PICK kept \in Limited(at[w], labels, held[w], seedFirst) :
             got' = [got EXCEPT ![w] = kept]
    BY <2>1
  <2>3. Cardinality((kept \ concepts) \ {at[w]}) <= held[w]
    BY <1>a, LimitedFits
  <2>4. /\ UNCHANGED <<concepts, held, at, before>> /\ pc'[w] = "lookup"
        /\ pc[w] = "llm"
        /\ \A v \in Worker \ {w} : pc'[v] = pc[v]
    BY <1>3 DEF Answer
  <2>5. got'[w] = kept /\ \A v \in Worker \ {w} : got'[v] = got[v]
    BY <2>2
  <2>6. Cardinality((got'[w] \ concepts') \ {at'[w]}) <= held'[w]
    BY <2>3, <2>4, <2>5
  <2>7. SlotOK(w)'
    BY <2>4, <2>6 DEF SlotOK
  <2> QED BY <2>4, <2>5, <2>7, <1>b
<1>4. ASSUME NEW w \in Worker, ProviderFails(w)
      PROVE  SlotsOK' /\ Stored \subseteq concepts'
  <2>1. Others(w) /\ UNCHANGED concepts /\ pc'[w] = "unwind"
    BY <1>4 DEF ProviderFails
  <2> QED BY <2>1, <1>b DEF SlotOK
<1>5. ASSUME NEW w \in Worker, Lookup(w)
      PROVE  SlotsOK' /\ Stored \subseteq concepts'
  <2>1. /\ Others(w) /\ UNCHANGED <<concepts, at, held, got>>
        /\ pc[w] = "lookup" /\ pc'[w] = "store"
        /\ before'[w] = got[w] \cap concepts
    BY <1>5 DEF Lookup
  <2>2. at[w] \in got[w] \ concepts => at[w] \in Roots \ Stored
    BY <2>1 DEF InTree, TreeGrowsDownwards
  <2>3. got[w] \ before'[w] = got[w] \ concepts
    BY <2>1
  <2>4. Cardinality((got[w] \ concepts) \ {at[w]}) <= held[w]
    BY <1>a, <2>1 DEF SlotOK
  <2>5. Cardinality((got'[w] \ before'[w]) \ {at'[w]}) <= held'[w]
    BY <2>1, <2>3, <2>4
  <2>6. SlotOK(w)'
    BY <2>1, <2>2, <2>3, <2>5 DEF SlotOK
  <2> QED BY <2>1, <2>6, <1>b
<1>6. ASSUME NEW w \in Worker, Store(w)
      PROVE  SlotsOK' /\ Stored \subseteq concepts'
  <2>1. /\ Others(w) /\ UNCHANGED <<at, held, got, before>>
        /\ concepts \subseteq concepts'
        /\ pc[w] = "store" /\ pc'[w] = "settle"
    BY <1>6 DEF Store
  <2>2. SlotOK(w)'
    BY <2>1, <1>a DEF SlotOK
  <2> QED BY <2>1, <2>2, <1>b
<1>7. ASSUME NEW w \in Worker,
             Settle(w) \/ DbError(w) \/ Unwind(w) \/ Timeout(w) \/ Kill(w)
      PROVE  SlotsOK' /\ Stored \subseteq concepts'
  <2>1. CASE Settle(w)
    <3>1. Others(w) /\ UNCHANGED concepts /\ pc'[w] = "link" /\ held'[w] = 0
      BY <2>1 DEF Settle, SettleBudget
    <3>2. ~ (held'[w] > 0)
      BY <3>1
    <3>3. SlotOK(w)'
      BY <3>1, <3>2 DEF SlotOK
    <3> QED BY <3>1, <3>3, <1>b
  <2>2. CASE DbError(w)
    <3>1. Others(w) /\ UNCHANGED concepts /\ pc'[w] = "abort"
      BY <2>2 DEF DbError, ForgetGraph
    <3> QED BY <3>1, <1>b DEF SlotOK
  <2>3. CASE Unwind(w)
    <3>1. /\ Others(w) /\ UNCHANGED concepts /\ held'[w] = 0
          /\ pc'[w] \in {"caught", "doomed"}
      BY <2>3 DEF Unwind, SettleBudget
    <3>2. ~ (held'[w] > 0)
      BY <3>1
    <3>3. SlotOK(w)'
      BY <3>1, <3>2 DEF SlotOK
    <3> QED BY <3>1, <3>3, <1>b
  <2>4. CASE Timeout(w)
    <3>1. Others(w) /\ UNCHANGED concepts /\ pc'[w] = "fail" /\ held'[w] = 0
      BY <2>4 DEF Timeout, Forget, ForgetGraph
    <3>2. ~ (held'[w] > 0)
      BY <3>1
    <3>3. SlotOK(w)'
      BY <3>1, <3>2 DEF SlotOK
    <3> QED BY <3>1, <3>3, <1>b
  <2>5. CASE Kill(w)
    <3>1. Others(w) /\ UNCHANGED concepts /\ pc'[w] = "idle" /\ held'[w] = 0
      BY <2>5 DEF Kill, BecomeIdle, Forget, ForgetGraph
    <3>2. ~ (held'[w] > 0)
      BY <3>1
    <3>3. SlotOK(w)'
      BY <3>1, <3>2 DEF SlotOK
    <3> QED BY <3>1, <3>3, <1>b
  <2> QED BY <1>7, <2>1, <2>2, <2>3, <2>4, <2>5
<1> QED
  BY <1>1, <1>2, <1>3, <1>4, <1>5, <1>6, <1>7, OtherStepsAreQuiet
     DEF BudgetAction

-----------------------------------------------------------------------------
(* The counters.                                                           *)

(* What a handler gives back it has held: nothing is cut off at zero.      *)
LEMMA SlotsAreReserved ==
    ASSUME TypeOK, LedgerBalanced, NEW w \in Worker
    PROVE  /\ held[w] \in Nat /\ held[w] <= reserved
           /\ AtLeastZero(reserved - held[w]) = reserved - held[w]
<1>1. held \in [Worker -> 0..Count] /\ Count \in Nat
  BY SlotTypes
<1>2. Total(held) \in Nat /\ held[w] <= Total(held)
  BY <1>1, TotalChanges
<1>3. held[w] \in Nat /\ reserved \in Nat /\ leaked \in Nat
  BY <1>1 DEF TypeOK
<1>4. held[w] <= reserved
  BY <1>2, <1>3 DEF LedgerBalanced
<1> QED BY <1>3, <1>4 DEF AtLeastZero

(* A job reserves what it asks for, or what is left.                       *)
LEMMA ReservesWhatIsLeft ==
    ASSUME TypeOK, NEW w \in Worker, Reserve(w)
    PROVE  \E n \in Nat :
              /\ n <= Count /\ created + reserved + n <= MaxConcepts
              /\ reserved' = reserved + n /\ created' = created
              /\ held' = [held EXCEPT ![w] = n]
<1> DEFINE slots == Least(Count, Remaining)
<1>1. /\ Count \in Nat /\ Remaining \in Nat /\ Remaining > 0
      /\ created \in Nat /\ reserved \in Nat /\ MaxConcepts \in Nat
  BY RemainingType, RunAssumption DEF Reserve, TypeOK
<1>2. Remaining = MaxConcepts - created - reserved
  BY <1>1 DEF Remaining, AtLeastZero
<1>3. slots \in Nat /\ slots <= Count /\ slots <= Remaining
  BY <1>1 DEF Least
<1>4. /\ reserved' = reserved + slots /\ created' = created
      /\ held' = [held EXCEPT ![w] = slots]
  BY DEF Reserve
<1> HIDE DEF slots
<1>5. created + reserved + slots <= MaxConcepts
  BY <1>1, <1>2, <1>3
<1> QED BY <1>3, <1>4, <1>5

(* The ledger is balanced after every step.                                *)
LEMMA StepLedger ==
    ASSUME IInv, BInv, [Next]_vars, TypeOK'
    PROVE  LedgerBalanced'
<1>0. TypeOK /\ SlotsOK /\ LedgerBalanced
  BY DEF IInv, BInv
<1>1. /\ held \in [Worker -> 0..Count] /\ Count \in Nat
      /\ held' \in [Worker -> 0..Count]
      /\ reserved \in Nat /\ leaked \in Nat
  BY <1>0, SlotTypes DEF TypeOK
<1>2. ASSUME UNCHANGED <<held, reserved, leaked>> PROVE LedgerBalanced'
  BY <1>0, <1>2 DEF LedgerBalanced
<1>3. ASSUME NEW w \in Worker, \A v \in Worker \ {w} : held'[v] = held[v]
      PROVE  /\ Total(held) \in Nat
             /\ Total(held') = Total(held) - held[w] + held'[w]
             /\ held[w] \in Nat /\ held'[w] \in Nat
             /\ AtLeastZero(reserved - held[w]) = reserved - held[w]
  BY <1>0, <1>1, <1>3, TotalChanges, SlotsAreReserved
<1>4. CASE QuietStep
  <2>1. held' = held
    BY <1>1, <1>4 DEF QuietStep, SameSlots
  <2> QED BY <2>1, <1>2, <1>4 DEF QuietStep
<1>5. ASSUME NEW w \in Worker, Reserve(w) PROVE LedgerBalanced'
  <2>1. PICK n \in Nat : /\ reserved' = reserved + n
                         /\ held' = [held EXCEPT ![w] = n]
    BY <1>0, <1>5, ReservesWhatIsLeft
  <2>2. held[w] = 0
    <3>1. ~ (held[w] > 0)
      BY <1>0, <1>5 DEF Reserve, SlotsOK, SlotOK
    <3> QED BY <3>1, <1>1
  <2>3. /\ held'[w] = n /\ leaked' = leaked
        /\ \A v \in Worker \ {w} : held'[v] = held[v]
    BY <1>1, <1>5, <2>1 DEF Reserve
  <2>4. /\ Total(held) \in Nat
        /\ Total(held') = Total(held) - held[w] + held'[w]
    BY <1>3, <2>3
  <2> QED BY <1>0, <1>1, <2>1, <2>2, <2>3, <2>4 DEF LedgerBalanced
<1>6. ASSUME NEW w \in Worker,
             \/ Answer(w) \/ ProviderFails(w) \/ Lookup(w) \/ Store(w)
             \/ DbError(w)
      PROVE  LedgerBalanced'
  BY <1>2, <1>6 DEF Answer, ProviderFails, Lookup, Store, DbError, runVars,
                    memVars, ForgetGraph
<1>7. ASSUME NEW w \in Worker, Settle(w) \/ Unwind(w) PROVE LedgerBalanced'
  <2>1. /\ held' = [held EXCEPT ![w] = 0] /\ leaked' = leaked
        /\ reserved' = AtLeastZero(reserved - held[w])
    BY <1>7 DEF Settle, Unwind, SettleBudget
  <2>2. held'[w] = 0 /\ \A v \in Worker \ {w} : held'[v] = held[v]
    BY <1>1, <2>1
  <2>3. /\ Total(held) \in Nat
        /\ Total(held') = Total(held) - held[w] + held'[w]
        /\ held[w] \in Nat
        /\ AtLeastZero(reserved - held[w]) = reserved - held[w]
    BY <1>3, <2>2
  <2> QED BY <1>0, <1>1, <2>1, <2>2, <2>3 DEF LedgerBalanced
<1>8. ASSUME NEW w \in Worker, Timeout(w) \/ Kill(w) PROVE LedgerBalanced'
  <2>1. /\ held' = [held EXCEPT ![w] = 0] /\ leaked' = leaked + held[w]
        /\ reserved' = reserved
    BY <1>8 DEF Timeout, Kill, BecomeIdle, Forget, runVars
  <2>2. held'[w] = 0 /\ \A v \in Worker \ {w} : held'[v] = held[v]
    BY <1>1, <2>1
  <2>3. /\ Total(held) \in Nat /\ held[w] \in Nat
        /\ Total(held') = Total(held) - held[w] + held'[w]
    BY <1>3, <2>2
  <2> QED BY <1>0, <1>1, <2>1, <2>2, <2>3 DEF LedgerBalanced
<1> QED
  BY <1>0, <1>4, <1>5, <1>6, <1>7, <1>8, OtherStepsAreQuiet DEF BudgetAction

(* The terms of the sums have their types after a step, too.               *)
LEMMA Terms ==
    TypeOK /\ SlotsOK =>
        Spare \in [Worker -> 0..Count] /\ ToStore \in [Worker -> 0..Count]
BY SpareType, SlotTypes

LEMMA TermsNext ==
    TypeOK' /\ SlotsOK' =>
        (Spare \in [Worker -> 0..Count] /\ ToStore \in [Worker -> 0..Count])'
BY Terms, PTL

(* New concepts, but for the starting ones, are covered by slots.          *)
LEMMA StepExtra ==
    ASSUME IInv, BInv, [Next]_vars, TypeOK', SlotsOK'
    PROVE  ExtraIsCovered'
<1> SUFFICES ASSUME faults'["db"] = 0
             PROVE  (/\ Cardinality(Extra) + Total(Spare) <= created + reserved
                     /\ Cardinality(Extra) + Total(ToStore) <= MaxConcepts)'
  BY DEF ExtraIsCovered
<1>0. /\ TypeOK /\ SlotsOK /\ LedgerBalanced
      /\ Cardinality(Extra) + Total(Spare) <= created + reserved
      /\ Cardinality(Extra) + Total(ToStore) <= MaxConcepts
  BY CalmForGood DEF IInv, BInv, ExtraIsCovered
<1>1. /\ Spare \in [Worker -> 0..Count] /\ ToStore \in [Worker -> 0..Count]
      /\ Count \in Nat /\ MaxConcepts \in Nat
      /\ created \in Nat /\ reserved \in Nat
      /\ held \in [Worker -> 0..Count]
      /\ \A w \in Worker : held[w] \in Nat
  BY <1>0, SpareType, SlotTypes, RunAssumption DEF TypeOK
<1>2. /\ Spare' \in [Worker -> 0..Count] /\ ToStore' \in [Worker -> 0..Count]
  BY TermsNext
<1>3. Total(ToStore) <= Total(Spare)
  BY <1>0, <1>1, SpareType, TotalGrows
<1>4. Total(ToStore) \in Nat /\ Total(Spare) \in Nat
  BY <1>1, TotalType
<1>5. Cardinality(Extra) \in Nat
  BY <1>0, SubsetCardinality DEF Extra, TypeOK
<1>6. ASSUME NEW w \in Worker,
             \A v \in Worker \ {w} : Spare'[v] = Spare[v] /\ ToStore'[v] = ToStore[v]
      PROVE  /\ Total(Spare') = Total(Spare) - Spare[w] + Spare'[w]
             /\ Total(ToStore') = Total(ToStore) - ToStore[w] + ToStore'[w]
             /\ Spare[w] \in Nat /\ Spare'[w] \in Nat
             /\ ToStore[w] \in Nat /\ ToStore'[w] \in Nat
  BY <1>1, <1>2, <1>6, TotalChanges
<1>7. UNCHANGED concepts => Extra' = Extra
  BY DEF Extra
<1> DEFINE Others(w) ==
        \A v \in Worker \ {w} :
           /\ held'[v] = held[v] /\ pc'[v] = pc[v]
           /\ got'[v] = got[v] /\ before'[v] = before[v]
<1>8. ASSUME NEW w \in Worker, Others(w)
      PROVE  \A v \in Worker \ {w} : Spare'[v] = Spare[v] /\ ToStore'[v] = ToStore[v]
  BY <1>8 DEF Spare, ToStore, Fresh
<1>9. CASE QuietStep
  <2>1. \A w \in Worker : Spare'[w] = Spare[w] /\ ToStore'[w] = ToStore[w]
    BY <1>9 DEF QuietStep, SameSlots, SlotHolders, Spare, ToStore, Fresh
  <2>2. Spare' = Spare /\ ToStore' = ToStore
    BY <2>1, <1>1, <1>2
  <2> QED BY <1>0, <1>7, <1>9, <2>2 DEF QuietStep
<1>10. ASSUME NEW w \in Worker, Reserve(w)
       PROVE  (/\ Cardinality(Extra) + Total(Spare) <= created + reserved
               /\ Cardinality(Extra) + Total(ToStore) <= MaxConcepts)'
  <2>1. PICK n \in Nat : /\ created + reserved + n <= MaxConcepts
                         /\ reserved' = reserved + n /\ created' = created
                         /\ held' = [held EXCEPT ![w] = n]
    BY <1>0, <1>10, ReservesWhatIsLeft
  <2>2. /\ UNCHANGED <<concepts, got, before>> /\ pc[w] = "reserve"
        /\ pc' = [pc EXCEPT ![w] = "llm"]
    BY <1>10 DEF Reserve, Goto
  <2>3. held[w] = 0
    <3>1. ~ (held[w] > 0)
      BY <1>0, <2>2 DEF SlotsOK, SlotOK
    <3> QED BY <3>1, <1>1
  <2>4. Others(w) /\ held'[w] = n /\ pc'[w] = "llm"
    BY <1>0, <2>1, <2>2 DEF TypeOK
  <2>5. Spare[w] = 0 /\ Spare'[w] = n /\ ToStore[w] = 0 /\ ToStore'[w] = n
    BY <2>2, <2>3, <2>4 DEF Spare, ToStore
  <2>6. /\ Total(Spare') = Total(Spare) + n
        /\ Total(ToStore') = Total(ToStore) + n
    BY <1>4, <1>6, <1>8, <2>4, <2>5
  <2> QED BY <1>0, <1>1, <1>3, <1>4, <1>5, <1>7, <2>1, <2>2, <2>6
<1>11. ASSUME NEW w \in Worker, Answer(w) \/ Lookup(w) \/ ProviderFails(w)
       PROVE  (/\ Cardinality(Extra) + Total(Spare) <= created + reserved
               /\ Cardinality(Extra) + Total(ToStore) <= MaxConcepts)'
  <2>1. /\ UNCHANGED <<concepts, created, reserved, held>>
        /\ \A v \in Worker \ {w} :
             pc'[v] = pc[v] /\ got'[v] = got[v] /\ before'[v] = before[v]
        /\ pc[w] \in {"llm", "lookup"} /\ pc'[w] \in {"lookup", "store", "unwind"}
    BY <1>0, <1>11 DEF Answer, Lookup, ProviderFails, runVars, memVars, Goto, TypeOK
  <2>2. Others(w)
    BY <2>1
  <2>3. Spare'[w] = Spare[w] /\ ToStore'[w] <= ToStore[w]
    BY <1>1, <2>1 DEF Spare, ToStore
  <2>4. Total(Spare') = Total(Spare) /\ Total(ToStore') <= Total(ToStore)
        /\ Total(ToStore') \in Nat
    BY <1>2, <1>4, <1>6, <1>8, <2>2, <2>3, <1>1, TotalType
  <2> QED BY <1>0, <1>1, <1>4, <1>5, <1>7, <2>1, <2>4
<1>12. ASSUME NEW w \in Worker, Store(w)
       PROVE  (/\ Cardinality(Extra) + Total(Spare) <= created + reserved
               /\ Cardinality(Extra) + Total(ToStore) <= MaxConcepts)'
  <2>1. /\ UNCHANGED <<created, reserved, held, got, before>>
        /\ concepts' = concepts \cup got[w]
        /\ pc[w] = "store" /\ pc'[w] = "settle"
        /\ \A v \in Worker \ {w} : pc'[v] = pc[v]
    BY <1>0, <1>12 DEF Store, runVars, memVars, Goto, TypeOK
  <2>2. before[w] \subseteq concepts
    BY <1>0, <2>1 DEF SlotsOK, SlotOK
  <2>3. /\ Extra' \subseteq Extra \cup Fresh(w) /\ Fresh(w)' = Fresh(w)
        /\ Extra \in SUBSET Key /\ Fresh(w) \in SUBSET Key
    BY <1>0, <2>1, <2>2 DEF Extra, Fresh, TypeOK
  <2>4. /\ Cardinality(Extra') <= Cardinality(Extra) + Cardinality(Fresh(w))
        /\ Cardinality(Extra') \in Nat /\ Cardinality(Fresh(w)) \in Nat
    BY <2>3, CoveredKeys
  <2>5. Others(w)
    BY <2>1
  <2>6. Spare'[w] = held[w] - Cardinality(Fresh(w)) /\ ToStore'[w] = 0
    BY <2>1, <2>3 DEF Spare, ToStore
  <2>7. Spare[w] = held[w] /\ ToStore[w] = held[w]
    BY <2>1 DEF Spare, ToStore
  <2>8. Cardinality(Fresh(w)) <= held[w]
    BY <1>1, <2>4, <2>6, <1>2
  <2>9. /\ Total(Spare') = Total(Spare) - Cardinality(Fresh(w))
        /\ Total(ToStore') = Total(ToStore) - held[w]
    BY <1>1, <1>4, <1>6, <1>8, <2>4, <2>5, <2>6, <2>7
  <2> QED BY <1>0, <1>1, <1>4, <1>5, <2>1, <2>4, <2>8, <2>9
<1>13. ASSUME NEW w \in Worker, Settle(w)
       PROVE  (/\ Cardinality(Extra) + Total(Spare) <= created + reserved
               /\ Cardinality(Extra) + Total(ToStore) <= MaxConcepts)'
  <2>1. /\ UNCHANGED <<concepts, got>> /\ held' = [held EXCEPT ![w] = 0]
        /\ pc[w] = "settle" /\ pc'[w] = "link"
        /\ reserved' = AtLeastZero(reserved - held[w])
        /\ created' = created + Cardinality(got[w] \ before[w])
        /\ \A v \in Worker \ {w} : pc'[v] = pc[v] /\ before'[v] = before[v]
    BY <1>0, <1>13 DEF Settle, SettleBudget, Goto, TypeOK
  <2>2. reserved' = reserved - held[w]
    BY <1>0, <2>1, SlotsAreReserved
  <2>3. Fresh(w) \subseteq got[w] \ before[w] /\ got[w] \ before[w] \in SUBSET Key
    BY <1>0 DEF Fresh, TypeOK
  <2>4. /\ Cardinality(Fresh(w)) \in Nat
        /\ Cardinality(got[w] \ before[w]) \in Nat
        /\ Cardinality(Fresh(w)) <= Cardinality(got[w] \ before[w])
    BY <2>3, FewerKeys
  <2>5. Others(w) /\ held'[w] = 0
    BY <1>1, <2>1
  <2>6. /\ Spare[w] = held[w] - Cardinality(Fresh(w)) /\ Spare'[w] = 0
        /\ ToStore[w] = 0 /\ ToStore'[w] = 0
    BY <2>1, <2>5 DEF Spare, ToStore
  <2>7. /\ Total(Spare') = Total(Spare) - held[w] + Cardinality(Fresh(w))
        /\ Total(ToStore') = Total(ToStore)
    BY <1>1, <1>4, <1>6, <1>8, <2>4, <2>5, <2>6
  <2> QED BY <1>0, <1>1, <1>4, <1>5, <1>7, <2>1, <2>2, <2>4, <2>7
<1>14. ASSUME NEW w \in Worker, Unwind(w) \/ Timeout(w) \/ Kill(w)
       PROVE  (/\ Cardinality(Extra) + Total(Spare) <= created + reserved
               /\ Cardinality(Extra) + Total(ToStore) <= MaxConcepts)'
  <2>1. /\ UNCHANGED concepts /\ held' = [held EXCEPT ![w] = 0]
        /\ pc'[w] \in {"caught", "doomed", "fail", "idle"}
        /\ \A v \in Worker \ {w} :
             pc'[v] = pc[v] /\ got'[v] = got[v] /\ before'[v] = before[v]
    BY <1>0, <1>14 DEF Unwind, Timeout, Kill, BecomeIdle, Forget, ForgetGraph,
                       SettleBudget, Goto, TypeOK
  <2>2. /\ created' = created
        /\ \/ reserved' = reserved
           \/ /\ pc[w] \in {"unwind", "abort"}
              /\ reserved' = AtLeastZero(reserved - held[w])
    BY <1>14, <1>1 DEF Unwind, SettleBudget, Timeout, Kill, runVars
  <2>3. Others(w) /\ held'[w] = 0
    BY <1>1, <2>1
  <2>4. Spare'[w] = 0 /\ ToStore'[w] = 0
    BY <2>1, <2>3 DEF Spare, ToStore
  <2>5. /\ Total(Spare') = Total(Spare) - Spare[w]
        /\ Total(ToStore') = Total(ToStore) - ToStore[w]
        /\ Spare[w] \in Nat /\ ToStore[w] \in Nat
    BY <1>4, <1>6, <1>8, <2>3, <2>4
  <2>6. CASE reserved' = reserved
    BY <1>0, <1>1, <1>4, <1>5, <1>7, <2>1, <2>2, <2>5, <2>6
  <2>7. CASE pc[w] \in {"unwind", "abort"}
             /\ reserved' = AtLeastZero(reserved - held[w])
    <3>1. reserved' = reserved - held[w] /\ Spare[w] = held[w]
      BY <1>0, <2>7, SlotsAreReserved DEF Spare
    <3> QED BY <1>0, <1>1, <1>4, <1>5, <1>7, <2>1, <2>2, <2>5, <3>1
  <2> QED BY <2>2, <2>6, <2>7
<1>15. ASSUME NEW w \in Worker, DbError(w) PROVE FALSE
  BY <1>0, <1>15, FaultType DEF DbError, FaultKind
<1> QED
  BY <1>0, <1>9, <1>10, <1>11, <1>12, <1>13, <1>14, <1>15, OtherStepsAreQuiet
     DEF BudgetAction, IInv

(* Every concept is counted, by now or by a handler about to settle.       *)
LEMMA SettleTerms == TypeOK => ToSettle \in [Worker -> 0..Cardinality(Key)]
BY SlotTypes

LEMMA SettleTermsNext ==
    TypeOK' => (ToSettle \in [Worker -> 0..Cardinality(Key)])'
BY SettleTerms, PTL

LEMMA StepCounted ==
    ASSUME IInv, BInv, [Next]_vars, TypeOK'
    PROVE  ConceptsAreCounted'
<1> SUFFICES ASSUME Undisturbed'
             PROVE  (Cardinality(concepts \ Stored)
                        <= created + Total(ToSettle))'
  BY DEF ConceptsAreCounted
<1>0. /\ TypeOK /\ SlotsOK
      /\ Cardinality(concepts \ Stored) <= created + Total(ToSettle)
  BY CalmForGood DEF IInv, BInv, ConceptsAreCounted
<1>1. /\ ToSettle \in [Worker -> 0..Cardinality(Key)]
      /\ ToSettle' \in [Worker -> 0..Cardinality(Key)]
      /\ Cardinality(Key) \in Nat /\ created \in Nat
  BY <1>0, SlotTypes, SettleTermsNext DEF TypeOK
<1>2. Total(ToSettle) \in Nat
  BY <1>1, TotalType
<1>3. ASSUME NEW w \in Worker,
             \A v \in Worker \ {w} : ToSettle'[v] = ToSettle[v]
      PROVE  /\ Total(ToSettle') = Total(ToSettle) - ToSettle[w] + ToSettle'[w]
             /\ ToSettle[w] \in Nat /\ ToSettle'[w] \in Nat
  BY <1>1, <1>3, TotalChanges
<1>4. /\ Cardinality(concepts \ Stored) \in Nat
      /\ \A w \in Worker : Cardinality(got[w] \ before[w]) \in Nat
  BY <1>0, SubsetCardinality DEF TypeOK
<1>5. ASSUME UNCHANGED <<concepts, created>>, \A w \in Worker : ToSettle'[w] = ToSettle[w]
      PROVE  (Cardinality(concepts \ Stored) <= created + Total(ToSettle))'
  <2>1. ToSettle' = ToSettle
    BY <1>1, <1>5
  <2> QED BY <1>0, <1>5, <2>1
<1>6. CASE QuietStep
  <2>1. \A w \in Worker : ToSettle'[w] = ToSettle[w]
    BY <1>6 DEF QuietStep, SameSlots, SlotHolders, ToSettle
  <2> QED BY <1>5, <1>6, <2>1 DEF QuietStep
<1>7. ASSUME NEW w \in Worker,
             Reserve(w) \/ Answer(w) \/ ProviderFails(w) \/ Lookup(w)
      PROVE  (Cardinality(concepts \ Stored) <= created + Total(ToSettle))'
  <2>1. /\ UNCHANGED <<concepts, created>>
        /\ \A v \in Worker \ {w} :
             pc'[v] = pc[v] /\ got'[v] = got[v] /\ before'[v] = before[v]
        /\ pc[w] # "settle" /\ pc'[w] # "settle"
    BY <1>0, <1>7 DEF Reserve, Answer, ProviderFails, Lookup, runVars, memVars,
                      Goto, TypeOK
  <2>2. \A v \in Worker : ToSettle'[v] = ToSettle[v]
    BY <2>1 DEF ToSettle
  <2> QED BY <1>5, <2>1, <2>2
<1>8. ASSUME NEW w \in Worker, Store(w)
      PROVE  (Cardinality(concepts \ Stored) <= created + Total(ToSettle))'
  <2>1. /\ UNCHANGED <<created, got, before>> /\ concepts' = concepts \cup got[w]
        /\ pc[w] = "store" /\ pc'[w] = "settle"
        /\ \A v \in Worker \ {w} : pc'[v] = pc[v]
    BY <1>0, <1>8 DEF Store, runVars, memVars, Goto, TypeOK
  <2>2. before[w] \subseteq concepts /\ got[w] \cap Stored \subseteq before[w]
    BY <1>0, <2>1 DEF SlotsOK, SlotOK
  <2>3. /\ concepts' \ Stored \subseteq (concepts \ Stored) \cup (got[w] \ before[w])
        /\ concepts \ Stored \in SUBSET Key /\ got[w] \ before[w] \in SUBSET Key
    BY <1>0, <2>1, <2>2 DEF TypeOK
  <2>4. /\ Cardinality(concepts' \ Stored) \in Nat
        /\ Cardinality(concepts' \ Stored)
             <= Cardinality(concepts \ Stored) + Cardinality(got[w] \ before[w])
    BY <2>3, CoveredKeys
  <2>5. /\ ToSettle[w] = 0 /\ ToSettle'[w] = Cardinality(got[w] \ before[w])
        /\ \A v \in Worker \ {w} : ToSettle'[v] = ToSettle[v]
    BY <2>1 DEF ToSettle
  <2>6. Total(ToSettle') = Total(ToSettle) + Cardinality(got[w] \ before[w])
    BY <1>2, <1>3, <1>4, <2>5
  <2> QED BY <1>0, <1>1, <1>2, <1>4, <2>1, <2>4, <2>6
<1>9. ASSUME NEW w \in Worker, Settle(w)
      PROVE  (Cardinality(concepts \ Stored) <= created + Total(ToSettle))'
  <2>1. /\ UNCHANGED <<concepts, got>>
        /\ created' = created + Cardinality(got[w] \ before[w])
        /\ pc[w] = "settle" /\ pc'[w] = "link"
        /\ \A v \in Worker \ {w} : pc'[v] = pc[v] /\ before'[v] = before[v]
    BY <1>0, <1>9 DEF Settle, SettleBudget, Goto, TypeOK
  <2>2. /\ ToSettle'[w] = 0 /\ ToSettle[w] = Cardinality(got[w] \ before[w])
        /\ \A v \in Worker \ {w} : ToSettle'[v] = ToSettle[v]
    BY <2>1 DEF ToSettle
  <2>3. Total(ToSettle') = Total(ToSettle) - Cardinality(got[w] \ before[w])
    BY <1>2, <1>3, <1>4, <2>2
  <2> QED BY <1>0, <1>1, <1>2, <1>4, <2>1, <2>3
<1>10. ASSUME NEW w \in Worker, Unwind(w) \/ Timeout(w)
       PROVE  (Cardinality(concepts \ Stored) <= created + Total(ToSettle))'
  <2>1. /\ UNCHANGED <<concepts, created>>
        /\ \A v \in Worker \ {w} :
             pc'[v] = pc[v] /\ got'[v] = got[v] /\ before'[v] = before[v]
        /\ pc[w] # "settle" /\ pc'[w] # "settle"
    BY <1>0, <1>1, <1>10 DEF Unwind, Timeout, Forget, ForgetGraph, SettleBudget,
                             runVars, Goto, TypeOK
  <2>2. \A v \in Worker : ToSettle'[v] = ToSettle[v]
    BY <2>1 DEF ToSettle
  <2> QED BY <1>5, <2>1, <2>2
<1>11. ASSUME NEW w \in Worker, DbError(w) \/ Kill(w) PROVE FALSE
  <2>1. DbError(w) => faults'["db"] # 0
    BY <1>0, FaultType DEF DbError, FaultKind
  <2>2. Kill(w) => faults'["kill"] # 0
    BY <1>0, FaultType DEF Kill, FaultKind
  <2> QED BY <1>11, <2>1, <2>2 DEF Undisturbed
<1> QED
  BY <1>0, <1>6, <1>7, <1>8, <1>9, <1>10, <1>11, OtherStepsAreQuiet
     DEF BudgetAction, IInv

-----------------------------------------------------------------------------
(* The new starting concepts.                                              *)

(* Nothing that only takes jobs away gives a node a second one.            *)
NoMoreJobs ==
    /\ waiting' = waiting /\ starting' \subseteq starting
    /\ \A w \in Worker :
         /\ todo'[w] \subseteq todo[w]
         /\ pc'[w] # "idle" => pc[w] # "idle" /\ at'[w] = at[w]

LEMMA OneJobKept ==
    ASSUME OneJob, NoMoreJobs
    PROVE  OneJob'
<1>1. QueuedOnce'
  BY DEF OneJob, NoMoreJobs, QueuedOnce
<1>2. QueuedAlone'
  BY DEF OneJob, NoMoreJobs, QueuedAlone
<1>3. StartingAlone'
  BY DEF OneJob, NoMoreJobs, StartingAlone
<1>4. WorkersApart'
  BY DEF OneJob, NoMoreJobs, WorkersApart
<1> QED BY <1>1, <1>2, <1>3, <1>4 DEF OneJob

(* A node that is retried when its last job is over has one job.           *)
LEMMA StepOneJob ==
    ASSUME IInv, BInv, [Next]_vars
    PROVE  OneJobIfUnhurried'
<1> SUFFICES ASSUME Unhurried' PROVE OneJob'
  BY DEF OneJobIfUnhurried
<1>0. TypeOK /\ InTree /\ InMemory /\ OneJob
  BY CalmForGood DEF IInv, BInv, OneJobIfUnhurried
<1>a. 0 \in 0..Tries
  BY RunAssumption
<1>b. QueuedOnce /\ QueuedAlone /\ StartingAlone /\ WorkersApart
  BY <1>0 DEF OneJob
<1> USE DEF treeVars, runVars, jobVars, memVars, Goto, Mark, Enqueue
<1>1. ASSUME NEW k \in Key, DispatchRoot(k) PROVE OneJob'
  <2>1. /\ waiting' = [waiting EXCEPT ![<<k, 0>>] = @ + 1]
        /\ UNCHANGED <<pc, at, todo>>
        /\ k \in starting /\ starting' = starting \ {k}
    BY <1>1 DEF DispatchRoot
  <2>2. /\ \A a \in 0..Tries : ~ (waiting[<<k, a>>] > 0)
        /\ \A w \in Worker : k \notin todo[w] /\ (pc[w] # "idle" => at[w] # k)
    BY <1>b, <2>1 DEF QueuedAlone, StartingAlone
  <2>3. /\ waiting'[<<k, 0>>] = 1
        /\ \A j \in Key : \A a \in 0..Tries :
             j # k \/ a # 0 => waiting'[<<j, a>>] = waiting[<<j, a>>]
    BY <1>0, <1>a, <2>1, <2>2 DEF TypeOK
  <2>4. QueuedOnce'
    BY <1>b, <1>a, <2>1, <2>2, <2>3 DEF QueuedOnce
  <2>5. QueuedAlone'
    BY <1>b, <1>a, <2>1, <2>2, <2>3 DEF QueuedAlone
  <2>6. StartingAlone'
    BY <1>b, <1>a, <2>1, <2>2, <2>3 DEF StartingAlone
  <2>7. WorkersApart'
    BY <1>b, <1>a, <2>1, <2>2, <2>3 DEF WorkersApart
  <2> QED BY <2>4, <2>5, <2>6, <2>7 DEF OneJob
<1>2. ASSUME NEW k \in Key, RetryGenerate(k) PROVE OneJob'
  <2>1. ~ HasJob(k)
    <3>1. HasJob(k) => Fault("haste")
      BY <1>2 DEF RetryGenerate
    <3>2. Fault("haste") => faults'["haste"] # 0
      BY <1>0, FaultType DEF FaultKind
    <3> QED BY <3>1, <3>2 DEF Unhurried
  <2>2. /\ waiting' = [waiting EXCEPT ![<<k, 0>>] = @ + 1]
        /\ UNCHANGED <<starting, pc, at, todo>>
        /\ \A a \in 0..Tries : ~ (waiting[<<k, a>>] > 0)
        /\ k \notin starting
        /\ \A w \in Worker : k \notin todo[w] /\ (pc[w] # "idle" => at[w] # k)
    BY <1>2, <2>1 DEF RetryGenerate, HasJob
  <2>3. /\ waiting'[<<k, 0>>] = 1
        /\ \A j \in Key : \A a \in 0..Tries :
             j # k \/ a # 0 => waiting'[<<j, a>>] = waiting[<<j, a>>]
    BY <1>0, <1>a, <2>2 DEF TypeOK
  <2>4. QueuedOnce'
    BY <1>b, <1>a, <2>2, <2>3 DEF QueuedOnce
  <2>5. QueuedAlone'
    BY <1>b, <1>a, <2>2, <2>3 DEF QueuedAlone
  <2>6. StartingAlone'
    BY <1>b, <1>a, <2>2, <2>3 DEF StartingAlone
  <2>7. WorkersApart'
    BY <1>b, <1>a, <2>2, <2>3 DEF WorkersApart
  <2> QED BY <2>4, <2>5, <2>6, <2>7 DEF OneJob
<1>3. CASE DispatcherDies
  BY <1>0, <1>3, OneJobKept DEF DispatcherDies, NoMoreJobs
<1>4. ASSUME NEW w \in Worker, NEW k \in Key, NEW a \in 0..Tries,
             Pop(w, k, a)
      PROVE  OneJob'
  <2>1. /\ waiting' = [waiting EXCEPT ![<<k, a>>] = @ - 1]
        /\ waiting[<<k, a>>] > 0
        /\ pc[w] = "idle" /\ at' = [at EXCEPT ![w] = k]
        /\ \A v \in Worker \ {w} : pc'[v] = pc[v]
        /\ UNCHANGED <<starting, todo>>
    BY <1>0, <1>4 DEF Pop, TypeOK
  <2>2. /\ \A b \in 0..Tries : ~ (waiting'[<<k, b>>] > 0)
        /\ \A j \in Key : \A b \in 0..Tries :
             j # k => waiting'[<<j, b>>] = waiting[<<j, b>>]
    <3>1. \A b \in 0..Tries : waiting[<<k, b>>] > 0 => b = a /\ waiting[<<k, a>>] = 1
      BY <1>b, <2>1 DEF QueuedOnce
    <3>2. \A b \in 0..Tries : waiting[<<k, b>>] \in Nat
      BY <1>0 DEF TypeOK
    <3>3. \A j \in Key : \A b \in 0..Tries :
            <<j, b>> # <<k, a>> => waiting'[<<j, b>>] = waiting[<<j, b>>]
      BY <1>0, <2>1 DEF TypeOK
    <3>4. waiting'[<<k, a>>] = waiting[<<k, a>>] - 1
      BY <1>0, <2>1 DEF TypeOK
    <3> QED BY <2>1, <3>1, <3>2, <3>3, <3>4
  <2>3. at'[w] = k /\ \A v \in Worker \ {w} : at'[v] = at[v]
    BY <1>0, <2>1 DEF TypeOK
  <2>4. /\ k \notin starting
        /\ \A v \in Worker : k \notin todo[v] /\ (pc[v] # "idle" => at[v] # k)
    BY <1>b, <2>1 DEF QueuedAlone
  <2>5. QueuedOnce'
    BY <1>b, <2>1, <2>2, <2>3, <2>4 DEF QueuedOnce
  <2>6. QueuedAlone'
    BY <1>b, <2>1, <2>2, <2>3, <2>4 DEF QueuedAlone
  <2>7. StartingAlone'
    BY <1>b, <2>1, <2>2, <2>3, <2>4 DEF StartingAlone
  <2>8. WorkersApart'
    BY <1>b, <2>1, <2>2, <2>3, <2>4 DEF WorkersApart
  <2> QED BY <2>5, <2>6, <2>7, <2>8 DEF OneJob
<1>5. ASSUME NEW w \in Worker,
             \/ Start(w) \/ Skip(w) \/ Reserve(w) \/ Answer(w) \/ Lookup(w)
             \/ Store(w) \/ Settle(w) \/ Link(w)
      PROVE  OneJob'
  <2>1. NoMoreJobs
    BY <1>0, <1>5 DEF NoMoreJobs, TypeOK, Start, Skip, Reserve, Answer, Lookup,
                      Store, Settle, SettleBudget, Link
  <2> QED BY <1>0, <2>1, OneJobKept
<1>6. ASSUME NEW w \in Worker,
             \/ Succeed(w) \/ ProviderFails(w) \/ MarkFailed(w) \/ Unwind(w)
             \/ DbError(w) \/ Timeout(w)
      PROVE  OneJob'
  <2>1. NoMoreJobs
    BY <1>0, <1>6 DEF NoMoreJobs, TypeOK, Succeed, ProviderFails, MarkFailed,
                      Unwind, SettleBudget, DbError, Timeout, Forget, ForgetGraph
  <2> QED BY <1>0, <2>1, OneJobKept
<1>7. ASSUME NEW w \in Worker, Return(w) \/ FailJob(w) PROVE OneJob'
  <2>1. NoMoreJobs
    BY <1>0, <1>7 DEF NoMoreJobs, TypeOK, Return, FailJob, BecomeIdle, Forget,
                      ForgetGraph
  <2> QED BY <1>0, <2>1, OneJobKept
<1>8. ASSUME NEW w \in Worker, CreateChildren(w) PROVE OneJob'
  <2>1. PICK c \in NewChildren(w) :
          /\ nodes' = nodes \cup c
          /\ depth' = [k \in Key |-> IF k \in c THEN depth[at[w]] + 1
                                                ELSE depth[k]]
          /\ parent' = [k \in Key |-> IF k \in c THEN at[w] ELSE parent[k]]
          /\ linked' = linked \cup c
          /\ todo' = [todo EXCEPT ![w] = c]
    BY <1>8 DEF CreateChildren
  <2>2. /\ UNCHANGED <<waiting, starting, at>> /\ pc[w] # "idle"
        /\ \A v \in Worker : pc'[v] # "idle" => pc[v] # "idle"
        /\ todo'[w] = c /\ \A v \in Worker \ {w} : todo'[v] = todo[v]
    BY <1>0, <1>8, <2>1 DEF CreateChildren, TypeOK
  <2>3. /\ \A k \in c : /\ \A a \in 0..Tries : ~ (waiting[<<k, a>>] > 0)
                        /\ k \notin starting
                        /\ \A v \in Worker : /\ k \notin todo[v]
                                             /\ pc[v] # "idle" => at[v] # k
    <3>1. c \in SUBSET Key /\ c \cap nodes = {}
      BY <1>0, <2>1, NewChildrenType
    <3> QED BY <1>0, <3>1 DEF InTree
  <2>4. c \subseteq Key
    BY <1>0, <2>1, NewChildrenType
  <2>5. QueuedOnce'
    BY <1>b, <2>2, <2>3, <2>4 DEF QueuedOnce
  <2>6. QueuedAlone'
    BY <1>b, <2>2, <2>3, <2>4 DEF QueuedAlone
  <2>7. StartingAlone'
    BY <1>b, <2>2, <2>3, <2>4 DEF StartingAlone
  <2>8. WorkersApart'
    BY <1>b, <2>2, <2>3, <2>4 DEF WorkersApart
  <2> QED BY <2>5, <2>6, <2>7, <2>8 DEF OneJob
<1>9. ASSUME NEW w \in Worker, NEW k \in Key, DispatchChild(w, k) PROVE OneJob'
  <2>1. /\ waiting' = [waiting EXCEPT ![<<k, 0>>] = @ + 1]
        /\ UNCHANGED <<pc, at, starting>> /\ k \in todo[w]
        /\ todo'[w] = todo[w] \ {k}
        /\ \A v \in Worker \ {w} : todo'[v] = todo[v]
    BY <1>0, <1>9 DEF DispatchChild, TypeOK
  <2>2. /\ \A a \in 0..Tries : ~ (waiting[<<k, a>>] > 0)
        /\ k \notin starting
        /\ \A v \in Worker : k \notin todo'[v] /\ (pc[v] # "idle" => at[v] # k)
    BY <1>b, <2>1 DEF QueuedAlone, StartingAlone, WorkersApart
  <2>3. /\ waiting'[<<k, 0>>] = 1
        /\ \A j \in Key : \A a \in 0..Tries :
             j # k \/ a # 0 => waiting'[<<j, a>>] = waiting[<<j, a>>]
    BY <1>0, <1>a, <2>1, <2>2 DEF TypeOK
  <2>4. QueuedOnce'
    BY <1>b, <1>a, <2>1, <2>2, <2>3 DEF QueuedOnce
  <2>5. QueuedAlone'
    BY <1>b, <1>a, <2>1, <2>2, <2>3 DEF QueuedAlone
  <2>6. StartingAlone'
    BY <1>b, <1>a, <2>1, <2>2, <2>3 DEF StartingAlone
  <2>7. WorkersApart'
    BY <1>b, <1>a, <2>1, <2>2, <2>3 DEF WorkersApart
  <2> QED BY <2>4, <2>5, <2>6, <2>7 DEF OneJob
<1>10. ASSUME NEW w \in Worker, Release(w) PROVE OneJob'
  <2> DEFINE k == at[w]
             t == tried[w]
  <2>1. /\ waiting' = [waiting EXCEPT ![<<k, t>>] = @ + 1]
        /\ pc[w] # "idle" /\ pc'[w] = "idle"
        /\ \A v \in Worker \ {w} : pc'[v] = pc[v] /\ at'[v] = at[v]
        /\ UNCHANGED starting
        /\ \A v \in Worker : todo'[v] \subseteq todo[v]
        /\ k \in Key /\ t \in 0..Tries
    BY <1>0, <1>10 DEF Release, BecomeIdle, Forget, ForgetGraph, TypeOK
  <2>2. /\ \A a \in 0..Tries : ~ (waiting[<<k, a>>] > 0)
        /\ k \notin starting
        /\ \A v \in Worker : k \notin todo[v] /\ (pc'[v] # "idle" => at'[v] # k)
    BY <1>b, <2>1 DEF QueuedAlone, StartingAlone, WorkersApart
  <2> HIDE DEF k, t
  <2>3. /\ waiting'[<<k, t>>] = 1
        /\ \A j \in Key : \A a \in 0..Tries :
             j # k \/ a # t => waiting'[<<j, a>>] = waiting[<<j, a>>]
    BY <1>0, <2>1, <2>2 DEF TypeOK
  <2>4. QueuedOnce'
    BY <1>b, <2>1, <2>2, <2>3 DEF QueuedOnce
  <2>5. QueuedAlone'
    BY <1>b, <2>1, <2>2, <2>3 DEF QueuedAlone
  <2>6. StartingAlone'
    BY <1>b, <2>1, <2>2, <2>3 DEF StartingAlone
  <2>7. WorkersApart'
    BY <1>b, <2>1, <2>2, <2>3 DEF WorkersApart
  <2> QED BY <2>4, <2>5, <2>6, <2>7 DEF OneJob
<1>11. ASSUME NEW w \in Worker, Kill(w) PROVE OneJob'
  <2>1. faults'["kill"] # 0
    BY <1>0, <1>11, FaultType DEF Kill, FaultKind
  <2> QED BY <2>1 DEF Unhurried, Undisturbed
<1>12. CASE UNCHANGED vars
  <2>1. NoMoreJobs
    BY <1>12 DEF vars, NoMoreJobs
  <2> QED BY <1>0, <2>1, OneJobKept
<1> QED
  BY <1>1, <1>2, <1>3, <1>4, <1>5, <1>6, <1>7, <1>8, <1>9, <1>10, <1>11,
     <1>12 DEF Next, WorkerStep

(* What may still be counted beyond the slots never grows, ...             *)
LEMMA UnpaidShrinks ==
    ASSUME TypeOK, concepts \subseteq concepts',
           \A w \in Worker :
               pc'[w] \in {"store", "settle"} /\ at'[w] \in got'[w] \ before'[w] =>
                   IsUnpaid(at'[w])
    PROVE  /\ Unpaid' \subseteq Unpaid
           /\ Cardinality(Unpaid) \in Nat /\ Cardinality(Unpaid') \in Nat
           /\ Cardinality(Unpaid') <= Cardinality(Unpaid)
<1>1. Unpaid' \subseteq Unpaid
  <2> SUFFICES ASSUME NEW r \in Roots \ Stored, IsUnpaid(r)' PROVE IsUnpaid(r)
    BY DEF Unpaid
  <2>1. CASE r \notin concepts'
    BY <2>1 DEF IsUnpaid
  <2>2. CASE r \in concepts'
    <3>1. PICK w \in Worker : /\ pc'[w] \in {"store", "settle"} /\ at'[w] = r
                              /\ r \in got'[w] \ before'[w]
      BY <2>2 DEF IsUnpaid
    <3> QED BY <3>1
  <2> QED BY <2>1, <2>2
<1>2. Unpaid \in SUBSET Key
  BY RunAssumption DEF Unpaid
<1> QED BY <1>1, <1>2, FewerKeys

(* ... and never exceeds the new starting concepts.                        *)
LEMMA UnpaidFits ==
    /\ Cardinality(Unpaid) \in Nat /\ NewSeeds \in Nat
    /\ Cardinality(Unpaid) <= NewSeeds
<1>1. Unpaid \subseteq Roots \ Stored /\ Roots \ Stored \in SUBSET Key
  BY RunAssumption DEF Unpaid
<1> QED BY <1>1, FewerKeys DEF NewSeeds

(* A sum does not grow with a term that does not.                          *)
LEMMA SumKept ==
    ASSUME NEW a \in Nat, NEW b \in Nat, NEW c \in Nat, c <= b
    PROVE  a + c <= a + b
OBVIOUS

(* What is created or reserved exceeds the budget by new starting concepts *)
(* only, and each is counted once.                                         *)
LEMMA StepSeeds ==
    ASSUME IInv, TreeGrowsDownwards, BInv, [Next]_vars
    PROVE  SeedsAreCovered'
<1> SUFFICES ASSUME Unhurried'
             PROVE  (created + reserved + Cardinality(Unpaid)
                        <= MaxConcepts + NewSeeds)'
  BY DEF SeedsAreCovered
<1>0. /\ TypeOK /\ InTree /\ InMemory /\ SlotsOK /\ OneJob /\ LedgerBalanced
      /\ created + reserved + Cardinality(Unpaid) <= MaxConcepts + NewSeeds
      /\ created \in Nat /\ reserved \in Nat /\ MaxConcepts \in Nat
      /\ NewSeeds \in Nat /\ NewSeeds' = NewSeeds
      /\ \A w \in Worker : held[w] \in Nat
  BY CalmForGood, RunAssumption, UnpaidFits
     DEF IInv, BInv, SeedsAreCovered, OneJobIfUnhurried, TypeOK, NewSeeds
<1>1. ASSUME concepts \subseteq concepts',
             created' \in Nat, reserved' \in Nat,
             created' + reserved' <= created + reserved,
             \A w \in Worker :
               pc'[w] \in {"store", "settle"} /\ at'[w] \in got'[w] \ before'[w] =>
                   IsUnpaid(at'[w])
      PROVE  (created + reserved + Cardinality(Unpaid) <= MaxConcepts + NewSeeds)'
  <2>1. /\ Cardinality(Unpaid) \in Nat /\ Cardinality(Unpaid') \in Nat
        /\ Cardinality(Unpaid') <= Cardinality(Unpaid)
    BY <1>0, <1>1, UnpaidShrinks
  <2> QED BY <1>0, <1>1, <2>1
<1>2. \A w \in Worker :
        pc[w] \in {"store", "settle"} /\ at[w] \in got[w] \ before[w] =>
            IsUnpaid(at[w])
  BY DEF IsUnpaid
<1>3. CASE QuietStep
  <2>1. \A w \in Worker :
          pc'[w] \in {"store", "settle"} =>
              /\ pc[w] = pc'[w] /\ at[w] = at'[w]
              /\ got[w] = got'[w] /\ before[w] = before'[w]
    BY <1>3 DEF QuietStep, SameSlots, SlotHolders
  <2>2. UNCHANGED <<concepts, created, reserved>>
    BY <1>3 DEF QuietStep
  <2> QED BY <1>0, <1>1, <1>2, <2>1, <2>2
<1>4. ASSUME NEW w \in Worker, Reserve(w)
      PROVE  (created + reserved + Cardinality(Unpaid) <= MaxConcepts + NewSeeds)'
  <2>1. PICK n \in Nat : /\ created + reserved + n <= MaxConcepts
                         /\ reserved' = reserved + n /\ created' = created
    BY <1>0, <1>4, ReservesWhatIsLeft
  <2>2. /\ UNCHANGED <<concepts, at, got, before>>
        /\ pc'[w] = "llm" /\ \A v \in Worker \ {w} : pc'[v] = pc[v]
    BY <1>0, <1>4 DEF Reserve, jobVars, Goto, TypeOK
  <2>3. /\ Cardinality(Unpaid) \in Nat /\ Cardinality(Unpaid') \in Nat
        /\ Cardinality(Unpaid') <= Cardinality(Unpaid)
    BY <1>0, <1>2, <2>2, UnpaidShrinks
  <2>4. Cardinality(Unpaid) <= NewSeeds
    BY UnpaidFits
  <2> QED BY <1>0, <2>1, <2>3, <2>4
<1>5. ASSUME NEW w \in Worker,
             Answer(w) \/ ProviderFails(w) \/ Timeout(w) \/ Unwind(w)
      PROVE  (created + reserved + Cardinality(Unpaid) <= MaxConcepts + NewSeeds)'
  <2>1. /\ UNCHANGED <<concepts, at>> /\ created' = created
        /\ pc'[w] \notin {"store", "settle"}
        /\ \A v \in Worker \ {w} :
             pc'[v] = pc[v] /\ got'[v] = got[v] /\ before'[v] = before[v]
        /\ reserved' = reserved \/ reserved' = AtLeastZero(reserved - held[w])
    BY <1>0, <1>5 DEF Answer, ProviderFails, Timeout, Unwind, SettleBudget,
                      Forget, ForgetGraph, runVars, jobVars, memVars, Goto, TypeOK
  <2>2. reserved' \in Nat /\ reserved' <= reserved
    BY <1>0, <2>1, SlotsAreReserved
  <2>3. created' + reserved' <= created + reserved /\ created' \in Nat
    <3>1. created \in Nat /\ reserved \in Nat /\ created' = created
      BY <1>0, <2>1
    <3>2. reserved' \in Nat /\ reserved' <= reserved
      BY <2>2
    <3>3. created + reserved' <= created + reserved
      BY <3>1, <3>2, SumKept
    <3> QED BY <3>1, <3>3
  <2>4. \A v \in Worker :
          pc'[v] \in {"store", "settle"} /\ at'[v] \in got'[v] \ before'[v] =>
              IsUnpaid(at'[v])
    BY <1>2, <2>1
  <2> QED BY <1>1, <2>1, <2>2, <2>3, <2>4
<1>6. ASSUME NEW w \in Worker, Lookup(w)
      PROVE  (created + reserved + Cardinality(Unpaid) <= MaxConcepts + NewSeeds)'
  <2>1. /\ UNCHANGED <<concepts, at, got, created, reserved>>
        /\ pc[w] = "lookup" /\ before'[w] = got[w] \cap concepts
        /\ \A v \in Worker \ {w} : pc'[v] = pc[v] /\ before'[v] = before[v]
    BY <1>0, <1>6 DEF Lookup, runVars, jobVars, Goto, TypeOK
  <2>2. at'[w] \in got'[w] \ before'[w] => IsUnpaid(at'[w])
    BY <2>1 DEF IsUnpaid
  <2> QED BY <1>0, <1>1, <1>2, <2>1, <2>2
<1>7. ASSUME NEW w \in Worker, Store(w)
      PROVE  (created + reserved + Cardinality(Unpaid) <= MaxConcepts + NewSeeds)'
  <2>1. /\ UNCHANGED <<at, got, before, created, reserved>>
        /\ concepts' = concepts \cup got[w] /\ pc[w] = "store"
        /\ \A v \in Worker \ {w} : pc'[v] = pc[v]
    BY <1>0, <1>7 DEF Store, runVars, jobVars, memVars, Goto, TypeOK
  <2> QED BY <1>0, <1>1, <1>2, <2>1
<1>8. ASSUME NEW w \in Worker, Settle(w)
      PROVE  (created + reserved + Cardinality(Unpaid) <= MaxConcepts + NewSeeds)'
  <2> DEFINE counted == got[w] \ before[w]
  <2>1. /\ UNCHANGED <<concepts, at, got>>
        /\ created' = created + Cardinality(counted)
        /\ reserved' = AtLeastZero(reserved - held[w])
        /\ pc[w] = "settle" /\ pc'[w] = "link"
        /\ \A v \in Worker \ {w} : pc'[v] = pc[v] /\ before'[v] = before[v]
    BY <1>0, <1>8 DEF Settle, SettleBudget, jobVars, Goto, TypeOK
  <2>2. reserved' = reserved - held[w] /\ held[w] <= reserved
    BY <1>0, <2>1, SlotsAreReserved
  <2>3. /\ counted \in SUBSET Key /\ IsFiniteSet(counted)
        /\ Cardinality(counted) \in Nat
    <3>1. counted \in SUBSET Key
      BY <1>0 DEF TypeOK
    <3> QED BY <3>1, SubsetCardinality
  <2>4. /\ Cardinality(counted \ {at[w]}) <= held[w]
        /\ at[w] \in counted => at[w] \in Roots \ Stored
    BY <1>0, <2>1 DEF SlotsOK, SlotOK
  <2>5. /\ Unpaid' \subseteq Unpaid
        /\ Cardinality(Unpaid) \in Nat /\ Cardinality(Unpaid') \in Nat
        /\ Cardinality(Unpaid') <= Cardinality(Unpaid)
    <3>1. \A v \in Worker :
            pc'[v] \in {"store", "settle"} /\ at'[v] \in got'[v] \ before'[v] =>
                IsUnpaid(at'[v])
      BY <1>2, <2>1
    <3> QED BY <1>0, <2>1, <3>1, UnpaidShrinks
  <2>6. Cardinality(counted \ {at[w]}) =
          IF at[w] \in counted THEN Cardinality(counted) - 1
          ELSE Cardinality(counted)
    BY <2>3, FS_RemoveElement
  <2>7. CASE at[w] \notin counted
    BY <1>0, <2>1, <2>2, <2>3, <2>4, <2>5, <2>6, <2>7
  <2>8. CASE at[w] \in counted
    <3>1. at[w] \in Unpaid
      BY <2>1, <2>4, <2>8 DEF Unpaid, IsUnpaid
    <3>2. at[w] \in concepts
      BY <1>0, <2>1, <2>8 DEF InMemory
    <3>3. \A v \in Worker : pc[v] # "idle" /\ at[v] = at[w] => v = w
      BY <1>0, <2>1 DEF OneJob, WorkersApart
    <3>4. at[w] \notin Unpaid'
      <4> SUFFICES ASSUME at[w] \in Unpaid' PROVE FALSE
        OBVIOUS
      <4>1. PICK v \in Worker : pc'[v] \in {"store", "settle"} /\ at'[v] = at[w]
        BY <2>1, <3>2 DEF Unpaid, IsUnpaid
      <4> QED BY <2>1, <3>3, <4>1
    <3>5. Unpaid' \subseteq Unpaid \ {at[w]} /\ Unpaid \in SUBSET Key
      BY <2>5, <3>4, RunAssumption DEF Unpaid
    <3>6. Cardinality(Unpaid \ {at[w]}) = Cardinality(Unpaid) - 1
      BY <3>1, <3>5, SubsetCardinality, FS_RemoveElement
    <3>7. Unpaid \ {at[w]} \in SUBSET Key
      BY <3>5
    <3>8. Cardinality(Unpaid') <= Cardinality(Unpaid \ {at[w]})
      BY <3>5, <3>7, FewerKeys
    <3> HIDE DEF counted
    <3> QED BY <1>0, <2>1, <2>2, <2>3, <2>4, <2>5, <2>6, <2>8, <3>6, <3>8
  <2> QED BY <2>7, <2>8
<1>9. ASSUME NEW w \in Worker, DbError(w) \/ Kill(w) PROVE FALSE
  <2>1. DbError(w) => faults'["db"] # 0
    BY <1>0, FaultType DEF DbError, FaultKind
  <2>2. Kill(w) => faults'["kill"] # 0
    BY <1>0, FaultType DEF Kill, FaultKind
  <2> QED BY <1>9, <2>1, <2>2 DEF Unhurried, Undisturbed
<1> QED
  BY <1>0, <1>3, <1>4, <1>5, <1>6, <1>7, <1>8, <1>9, OtherStepsAreQuiet
     DEF BudgetAction, IInv

-----------------------------------------------------------------------------
(* dispatch() establishes the invariant of the budget.                     *)
LEMMA InitBudget == Init => BInv
<1> SUFFICES ASSUME Init PROVE BInv
  OBVIOUS
<1>0. TypeOK
  BY InitType DEF IInv
<1>1. Stored \subseteq concepts
  BY DEF Init
<1>2. SlotsOK
  BY DEF Init, SlotsOK, SlotOK
<1>3. \A w \in Worker : held[w] = 0 /\ ToStore[w] = 0 /\ ToSettle[w] = 0
                        /\ Spare[w] = 0
  BY DEF Init, ToStore, ToSettle, Spare
<1>4. /\ held \in [Worker -> {0}] /\ ToStore \in [Worker -> {0}]
      /\ ToSettle \in [Worker -> {0}] /\ Spare \in [Worker -> {0}]
  <2>1. /\ held \in [Worker -> 0..Count] /\ ToStore \in [Worker -> 0..Count]
        /\ ToSettle \in [Worker -> 0..Cardinality(Key)]
        /\ Spare \in [Worker -> 0..Count]
    BY <1>0, <1>2, SlotTypes, SpareType
  <2> QED BY <1>3, <2>1
<1>5. /\ Total(held) = 0 /\ Total(ToStore) = 0 /\ Total(ToSettle) = 0
      /\ Total(Spare) = 0
  BY <1>4, TotalZero
<1>6. LedgerBalanced
  BY <1>5 DEF Init, LedgerBalanced
<1>7. ExtraIsCovered
  <2>1. Extra = {}
    BY DEF Init, Extra
  <2>2. Cardinality(Extra) = 0
    BY <2>1, FS_EmptySet
  <2> QED BY <1>5, <2>2, RunAssumption DEF Init, ExtraIsCovered
<1>8. OneJobIfUnhurried
  BY DEF Init, OneJobIfUnhurried, OneJob, QueuedOnce, QueuedAlone, StartingAlone,
         WorkersApart
<1>9. SeedsAreCovered
  BY UnpaidFits, RunAssumption DEF Init, SeedsAreCovered
<1>10. ConceptsAreCounted
  <2>1. concepts \ Stored = {}
    BY DEF Init
  <2>2. Cardinality(concepts \ Stored) = 0
    BY <2>1, FS_EmptySet
  <2> QED BY <1>5, <2>2 DEF Init, ConceptsAreCounted
<1> QED BY <1>1, <1>2, <1>6, <1>7, <1>8, <1>9, <1>10 DEF BInv

LEMMA StepBudget ==
    IInv /\ TreeGrowsDownwards /\ BInv /\ [Next]_vars => BInv'
<1> SUFFICES ASSUME IInv, TreeGrowsDownwards, BInv, [Next]_vars PROVE BInv'
  OBVIOUS
<1>1. TypeOK'
  BY StepType
<1>2. SlotsOK' /\ (Stored \subseteq concepts)'
  BY StepSlots
<1>3. LedgerBalanced'
  BY <1>1, StepLedger
<1>4. ExtraIsCovered'
  BY <1>1, <1>2, StepExtra
<1>5. OneJobIfUnhurried'
  BY StepOneJob
<1>6. SeedsAreCovered'
  BY StepSeeds
<1>7. ConceptsAreCounted'
  BY <1>1, StepCounted
<1> QED BY <1>2, <1>3, <1>4, <1>5, <1>6, <1>7 DEF BInv

(* The invariant says of the budget what the runs check.                   *)
LEMMA BudgetFollows == IInv /\ BInv => BudgetIsSound
<1> SUFFICES ASSUME IInv, BInv PROVE BudgetIsSound
  OBVIOUS
<1>0. /\ TypeOK /\ SlotsOK /\ LedgerBalanced /\ ConceptsAreCounted
      /\ created \in Nat /\ reserved \in Nat /\ MaxConcepts \in Nat
  BY RunAssumption DEF IInv, BInv, TypeOK
<1>1. CreatedWithinBudgetAndSeeds
  BY <1>0, UnpaidFits DEF BInv, SeedsAreCovered, Unhurried,
                          CreatedWithinBudgetAndSeeds
<1>2. ConceptsWithinBudget
  <2> SUFFICES ASSUME faults["db"] = 0
               PROVE  Cardinality(concepts \ Stored) <= MaxConcepts + NewSeeds
    BY DEF ConceptsWithinBudget
  <2>1. /\ concepts \ Stored \subseteq Extra \cup (Roots \ Stored)
        /\ Extra \in SUBSET Key /\ Roots \ Stored \in SUBSET Key
    BY <1>0, RunAssumption DEF Extra, TypeOK
  <2>2. /\ Cardinality(Extra) \in Nat /\ NewSeeds \in Nat
        /\ Cardinality(concepts \ Stored) \in Nat
        /\ Cardinality(concepts \ Stored) <= Cardinality(Extra) + NewSeeds
    BY <2>1, CoveredKeys DEF NewSeeds
  <2>3. Cardinality(Extra) + Total(ToStore) <= MaxConcepts
    BY DEF BInv, ExtraIsCovered
  <2>4. Total(ToStore) \in Nat
    BY <1>0, SlotTypes, TotalType
  <2> QED BY <1>0, <2>2, <2>3, <2>4
<1> QED BY <1>0, <1>1, <1>2 DEF BudgetIsSound, BudgetIsCounted, BudgetSurvivesFaults

(* The budget of new concepts is kept whatever jobs run at the same time:  *)
(* the reserved slots are those that are held or leaked, every concept the *)
(* run creates is counted, and what exists, is counted or is reserved      *)
(* stays within the budget and the new starting concepts                   *)
(* (reserveConceptBudget(), limitNewConcepts(), settleConceptBudget()).    *)
THEOREM BudgetCorrect == Spec => []BudgetIsSound
<1>1. Init => BInv
  BY InitBudget
<1>2. IInv /\ TreeGrowsDownwards /\ BInv /\ [Next]_vars => BInv'
  BY StepBudget
<1>3. IInv /\ BInv => BudgetIsSound
  BY BudgetFollows
<1> QED BY <1>1, <1>2, <1>3, Inductive, TreeCorrect, PTL DEF Spec

=============================================================================
