------------------------ MODULE ScheduledTasks_proofs ------------------------
(***************************************************************************)
(* Proofs about ScheduledTasks, for all tasks, cadences and processes: the *)
(* columns last_run_at and next_run_at stay in step with the history, no   *)
(* task runs ahead of its cadence unless an edit was overtaken, and each   *)
(* history row has at most one process to finish it.                       *)
(***************************************************************************)
EXTENDS ScheduledTasks, TLAPS

(* History rows are in the order of their start, none starts in the future,*)
(* and none is newer than last_run_at of its task.                         *)
LastBoundsRuns ==
    \A i \in DOMAIN history :
        /\ history[i].at <= now
        /\ history[i].at <= row[history[i].task].last

(* What an edit has read is still what the row says, unless it was         *)
(* overtaken.                                                              *)
EditsAreFresh ==
    \A e \in Editor :
        edit[e] # NoEdit /\ edit[e].task \notin clash =>
            edit[e].base = row[edit[e].task]

(* The row a process has to finish is nobody else's.                       *)
MineIsMine ==
    \A p \in Process : pc[p] = "finish" =>
        /\ mine[p] \in DOMAIN history
        /\ mine[p] \notin orphans
        /\ \A q \in Process : pc[q] = "finish" /\ mine[q] = mine[p] => p = q

IInv ==
    /\ TypeOK
    /\ LastRunIsNewest
    /\ LastBoundsRuns
    /\ EditsAreFresh
    /\ NextFollowsLast
    /\ MineIsMine
    /\ HistoryCloses

-----------------------------------------------------------------------------
(* nextRunAt() lies after the time it starts from.                         *)
LEMMA NextRunLater ==
    ASSUME NEW c \in Cadence, NEW t \in Nat
    PROVE  NextRunAt(c, t) \in Nat /\ NextRunAt(c, t) > t
<1> DEFINE P == Period[c]
<1>1. P \in Nat \ {0}
  BY TasksAssumption
<1>2. ((t \div P) + 1) * P \in Nat /\ ((t \div P) + 1) * P > t
  <2> HIDE DEF P
  <2>1. /\ t \div P \in Int /\ t % P \in 0..(P - 1)
        /\ t = P * (t \div P) + (t % P)
    BY <1>1
  <2> DEFINE q == t \div P
             r == t % P
  <2>2. q \in Int /\ r \in Int /\ r < P /\ t = P * q + r
    BY <1>1, <2>1
  <2> HIDE DEF q, r
  <2>3. (q + 1) * P = P * q + P
    BY <1>1, <2>2
  <2>4. P * q \in Int
    BY <1>1, <2>2
  <2>5. (q + 1) * P > t /\ (q + 1) * P \in Int
    BY <1>1, <2>2, <2>3, <2>4
  <2> QED BY <2>5 DEF q
<1> QED BY <1>1, <1>2 DEF NextRunAt

(* nextRunAt() is monotone.                                                *)
LEMMA NextRunMonotone ==
    ASSUME NEW c \in Cadence, NEW s \in Nat, NEW t \in Nat, s <= t
    PROVE  NextRunAt(c, s) <= NextRunAt(c, t)
<1> DEFINE P == Period[c]
<1>1. P \in Nat \ {0}
  BY TasksAssumption
<1>2. ((s \div P) + 1) * P <= ((t \div P) + 1) * P
  <2> HIDE DEF P
  <2>1. /\ s \div P \in Int /\ s % P \in 0..(P - 1)
        /\ s = P * (s \div P) + (s % P)
        /\ t \div P \in Int /\ t % P \in 0..(P - 1)
        /\ t = P * (t \div P) + (t % P)
    BY <1>1
  <2> DEFINE q == s \div P
             u == t \div P
             r == s % P
             v == t % P
  <2>2. /\ {q, u, r, v} \subseteq Int
        /\ 0 <= r /\ v < P
        /\ s = P * q + r /\ t = P * u + v
    BY <1>1, <2>1
  <2> HIDE DEF q, u, r, v
  <2>3. q <= u
    <3>1. SUFFICES ASSUME u + 1 <= q PROVE FALSE
      BY <2>2
    <3>2. P * (u + 1) <= P * q
      BY <1>1, <2>2, <3>1
    <3>3. P * (u + 1) = P * u + P /\ P * u \in Int /\ P * q \in Int
      BY <1>1, <2>2
    <3> QED BY <1>1, <2>2, <3>2, <3>3
  <2>4. (q + 1) * P <= (u + 1) * P
    BY <1>1, <2>2, <2>3
  <2> QED BY <2>4 DEF q, u
<1> QED BY <1>1, <1>2 DEF NextRunAt

-----------------------------------------------------------------------------
LEMMA InitIInv == Init => IInv
<1> SUFFICES ASSUME Init PROVE IInv
  OBVIOUS
<1> USE DEF Init
<1>1. TypeOK
  <2>1. row \in [Task -> Row]
    BY DEF Row, Time, Never
  <2>2. history \in Seq(Run) /\ orphans \subseteq DOMAIN history
    OBVIOUS
  <2>3. /\ pc \in [Process -> PC]
        /\ mine \in [Process -> Nat]
        /\ \A p \in Process : pc[p] = "finish" => mine[p] \in DOMAIN history
    BY DEF PC
  <2>4. edit \in [Editor -> Edit \cup {NoEdit}]
    OBVIOUS
  <2> QED BY <2>1, <2>2, <2>3, <2>4 DEF TypeOK
<1>2. LastRunIsNewest /\ LastBoundsRuns
  BY DEF LastRunIsNewest, LastBoundsRuns, RunsOf
<1>3. EditsAreFresh /\ MineIsMine /\ HistoryCloses
  BY DEF EditsAreFresh, MineIsMine, HistoryCloses, Process
<1>4. NextFollowsLast
  BY DEF NextFollowsLast
<1> QED BY <1>1, <1>2, <1>3, <1>4 DEF IInv

(* A claim: one more history row, a row whose columns follow it.           *)
LEMMA StartRunFacts ==
    ASSUME TypeOK, NEW p \in Process, NEW k \in Task,
           NEW trigger \in {"scheduled", "manual"},
           StartRun(p, k, trigger)
    PROVE  /\ row' \in [Task -> Row]
           /\ row'[k].last = now /\ row'[k].cadence = row[k].cadence
           /\ row'[k].next = NextRunAt(row[k].cadence, now)
           /\ \A j \in Task \ {k} : row'[j] = row[j]
           /\ history' \in Seq(Run)
           /\ DOMAIN history' = DOMAIN history \cup {Len(history) + 1}
           /\ Len(history) + 1 \notin DOMAIN history
           /\ \A i \in DOMAIN history : history'[i] = history[i]
           /\ history'[Len(history) + 1] =
                 [task |-> k, trigger |-> trigger, at |-> now,
                  status |-> "running"]
           /\ mine' \in [Process -> Nat] /\ pc' \in [Process -> PC]
           /\ mine'[p] = Len(history) + 1 /\ pc'[p] = "finish"
           /\ \A q \in Process \ {p} : mine'[q] = mine[q] /\ pc'[q] = pc[q]
           /\ clash' \subseteq Task /\ clash \subseteq clash'
           /\ \A e \in Editor : edit[e].task = k => k \in clash'
<1> USE DEF TypeOK, StartRun
<1> DEFINE new == [task |-> k, trigger |-> trigger, at |-> now,
                   status |-> "running"]
<1>1. /\ row[k] \in Row /\ row[k].cadence \in Cadence /\ now \in Nat
  BY DEF Row
<1>2. NextRunAt(row[k].cadence, now) \in Nat
  BY <1>1, NextRunLater
<1>3. row' \in [Task -> Row]
  BY <1>1, <1>2 DEF Row, Time
<1>4. /\ row'[k].last = now /\ row'[k].cadence = row[k].cadence
      /\ row'[k].next = NextRunAt(row[k].cadence, now)
      /\ \A j \in Task \ {k} : row'[j] = row[j]
  BY <1>1 DEF Row
<1>5. /\ new \in Run /\ Len(history) \in Nat
      /\ DOMAIN history = 1..Len(history)
      /\ history' = Append(history, new)
  BY DEF Run
<1>6. /\ history' \in Seq(Run)
      /\ DOMAIN history' = DOMAIN history \cup {Len(history) + 1}
      /\ Len(history) + 1 \notin DOMAIN history
      /\ \A i \in DOMAIN history : history'[i] = history[i]
      /\ history'[Len(history) + 1] = new
  <2> HIDE DEF new
  <2> QED BY <1>5
<1>7. /\ mine' \in [Process -> Nat] /\ pc' \in [Process -> PC]
      /\ mine'[p] = Len(history) + 1 /\ pc'[p] = "finish"
      /\ \A q \in Process \ {p} : mine'[q] = mine[q] /\ pc'[q] = pc[q]
  BY <1>5 DEF Goto, PC
<1>8. /\ clash' \subseteq Task /\ clash \subseteq clash'
      /\ \A e \in Editor : edit[e].task = k => k \in clash'
  BY DEF Touch
<1> QED BY <1>3, <1>4, <1>6, <1>7, <1>8

(* An edited row, and the columns of it that matter.                       *)
LEMMA SaveFacts ==
    ASSUME TypeOK, NEW e \in Editor, Save(e)
    PROVE  /\ edit[e] \in Edit
           /\ row' \in [Task -> Row]
           /\ row'[edit[e].task] = SavedRow(e)
           /\ \A j \in Task \ {edit[e].task} : row'[j] = row[j]
           /\ \A j \in Task : row'[j].last = row[j].last
           /\ clash' \subseteq Task /\ clash \subseteq clash'
           /\ \A f \in Editor \ {e} : edit[f].task = edit[e].task =>
                                       edit[e].task \in clash'
<1> USE DEF TypeOK, Save
<1>1. edit[e] \in Edit
  OBVIOUS
<1>2. /\ edit[e].task \in Task /\ edit[e].base \in Row
      /\ edit[e].enabled \in BOOLEAN /\ edit[e].cadence \in Cadence
  BY <1>1 DEF Edit
<1>3. /\ row[edit[e].task] \in Row
      /\ edit[e].base.last \in Time /\ edit[e].base.next \in Time
  BY <1>2 DEF Row
<1>4. EditedNext(e) \in Time
  <2>1. edit[e].base.last # Never =>
            NextRunAt(edit[e].cadence, edit[e].base.last) \in Nat
    BY <1>2, <1>3, NextRunLater DEF Time
  <2> QED BY <1>3, <2>1 DEF EditedNext, Time
<1>5. SavedRow(e) \in Row /\ SavedRow(e).last = row[edit[e].task].last
  BY <1>2, <1>3, <1>4 DEF SavedRow, Dirty, Row
<1>6. /\ row' \in [Task -> Row]
      /\ row'[edit[e].task] = SavedRow(e)
      /\ \A j \in Task \ {edit[e].task} : row'[j] = row[j]
      /\ \A j \in Task : row'[j].last = row[j].last
  BY <1>2, <1>5
<1>7. /\ clash' \subseteq Task /\ clash \subseteq clash'
      /\ \A f \in Editor \ {e} : edit[f].task = edit[e].task =>
                                  edit[e].task \in clash'
  BY <1>2 DEF Touch
<1> QED BY <1>1, <1>6, <1>7

-----------------------------------------------------------------------------
(* The type invariant is inductive.                                        *)
LEMMA TypeStep == TypeOK /\ [Next]_vars => TypeOK'
<1> SUFFICES ASSUME TypeOK, [Next]_vars PROVE TypeOK'
  OBVIOUS
<1> USE DEF procVars, bounds
<1>1. CASE Tick
  BY <1>1 DEF Tick, TypeOK
<1>2. ASSUME NEW d \in Dispatcher, NEW k \in Task, ClaimDue(d, k)
      PROVE  TypeOK'
  <2>1. /\ d \in Process /\ ids' \in [Dispatcher -> SUBSET Task]
        /\ UNCHANGED <<now, overlap, guarded, edit, orphans, bounds>>
    BY <1>2 DEF ClaimDue, TypeOK, Process
  <2>2. CASE StartRun(d, k, "scheduled")
    BY <2>1, <2>2, StartRunFacts DEF TypeOK
  <2>3. CASE UNCHANGED <<row, history, pc, mine, clash>>
    BY <2>1, <2>3 DEF TypeOK
  <2> QED BY <1>2, <2>2, <2>3 DEF ClaimDue
<1>3. ASSUME NEW p \in Process, Finish(p)
      PROVE  TypeOK'
  <2>1. PICK result \in {"succeeded", "failed"} :
            history' = [history EXCEPT ![mine[p]].status = result]
    BY <1>3 DEF Finish
  <2>2. mine[p] \in DOMAIN history
    BY <1>3 DEF Finish, TypeOK
  <2>3. history[mine[p]] \in Run
    BY <2>2 DEF TypeOK
  <2>4. [history[mine[p]] EXCEPT !.status = result] \in Run
    BY <2>3 DEF Run
  <2>5. history' \in Seq(Run) /\ DOMAIN history' = DOMAIN history
    BY <2>1, <2>2, <2>4 DEF TypeOK
  <2>6. /\ mine' \in [Process -> Nat] /\ pc' \in [Process -> PC]
        /\ \A q \in Process : pc'[q] = "finish" => mine'[q] \in DOMAIN history'
    BY <1>3, <2>5 DEF Finish, TypeOK, Goto, PC
  <2> QED BY <1>3, <2>5, <2>6 DEF Finish, TypeOK
<1>4. ASSUME NEW p \in Process, Kill(p)
      PROVE  TypeOK'
  BY <1>4 DEF Kill, TypeOK, Goto, PC
<1>5. ASSUME NEW d \in Dispatcher,
             StartBySchedule(d) \/ StartByHand(d) \/ EndDispatch(d)
      PROVE  TypeOK'
  <2>1. CASE StartBySchedule(d) \/ EndDispatch(d)
    BY <2>1 DEF StartBySchedule, EndDispatch, EnabledTasks, TypeOK, Goto, PC, Process
  <2>2. CASE StartByHand(d)
    BY <2>2 DEF StartByHand, EnabledTasks, TypeOK, Goto, PC, Process
  <2> QED BY <1>5, <2>1, <2>2
<1>6. ASSUME NEW o \in Operator, NEW k \in Task, RunByHand(o, k)
      PROVE  TypeOK'
  <2>1. StartRun(o, k, "manual") /\ o \in Process
    BY <1>6 DEF RunByHand, Process
  <2>2. /\ row' \in [Task -> Row] /\ history' \in Seq(Run)
        /\ mine' \in [Process -> Nat] /\ pc' \in [Process -> PC]
        /\ DOMAIN history \subseteq DOMAIN history' /\ clash' \subseteq Task
    BY <2>1, StartRunFacts
  <2>3. \A q \in Process : pc'[q] = "finish" => mine'[q] \in DOMAIN history'
    BY <2>1, StartRunFacts DEF TypeOK
  <2>4. /\ UNCHANGED <<now, overlap, ids, guarded, edit, orphans, edits, kills>>
        /\ manual' = manual + 1
    BY <1>6 DEF RunByHand
  <2> QED BY <2>2, <2>3, <2>4 DEF TypeOK
<1>7. ASSUME NEW e \in Editor, NEW k \in Task, LoadForEdit(e, k)
      PROVE  TypeOK'
  BY <1>7 DEF LoadForEdit, TypeOK, Edit
<1>8. ASSUME NEW e \in Editor, Save(e)
      PROVE  TypeOK'
  <2>1. row' \in [Task -> Row] /\ clash' \subseteq Task
    BY <1>8, SaveFacts
  <2>2. edit' \in [Editor -> Edit \cup {NoEdit}]
    BY <1>8 DEF Save, TypeOK
  <2>3. UNCHANGED <<now, history, overlap, procVars, orphans, bounds>>
    BY <1>8 DEF Save
  <2> QED BY <2>1, <2>2, <2>3 DEF TypeOK
<1>9. CASE MutexExpires
  BY <1>9 DEF MutexExpires, TypeOK
<1>10. CASE UNCHANGED vars
  BY <1>10 DEF vars, TypeOK
<1> QED BY <1>1, <1>2, <1>3, <1>4, <1>5, <1>6, <1>7, <1>8, <1>9, <1>10
        DEF Next, DispatcherStep, Process

(* What happens to the rows, the history and the edits: a claim, a save, a *)
(* load, or nothing of the three.                                          *)
Claim == \E p \in Process, k \in Task, trigger \in {"scheduled", "manual"} :
             /\ StartRun(p, k, trigger)
             /\ trigger = "scheduled" => IsDue(row[k])
             /\ UNCHANGED <<now, edit, orphans>>

Quiet == /\ UNCHANGED <<row, edit, clash>>
         /\ now' \in Nat /\ now <= now'
         /\ DOMAIN history' = DOMAIN history
         /\ \A i \in DOMAIN history :
               /\ history'[i].task = history[i].task
               /\ history'[i].trigger = history[i].trigger
               /\ history'[i].at = history[i].at

LEMMA StepKinds ==
    ASSUME TypeOK, [Next]_vars
    PROVE  \/ Claim
           \/ \E e \in Editor : Save(e)
           \/ \E e \in Editor, k \in Task : LoadForEdit(e, k)
           \/ Quiet
<1> USE DEF procVars, bounds
<1>1. ASSUME UNCHANGED <<row, edit, clash, history>>, now' \in Nat, now <= now'
      PROVE  Quiet
  BY <1>1 DEF Quiet
<1>2. CASE Tick
  BY <1>1, <1>2 DEF Tick, TypeOK
<1>3. ASSUME NEW d \in Dispatcher, NEW k \in Task, ClaimDue(d, k)
      PROVE  Claim \/ Quiet
  <2>1. d \in Process
    BY DEF Process
  <2>2. CASE StartRun(d, k, "scheduled") /\ IsDue(row[k])
    BY <1>3, <2>1, <2>2 DEF ClaimDue, Claim
  <2>3. CASE UNCHANGED <<row, history, clash>>
    BY <1>1, <1>3, <2>3 DEF ClaimDue, TypeOK
  <2> QED BY <1>3, <2>2, <2>3 DEF ClaimDue
<1>4. ASSUME NEW p \in Process, Finish(p)
      PROVE  Quiet
  <2>1. PICK result \in {"succeeded", "failed"} :
            history' = [history EXCEPT ![mine[p]].status = result]
    BY <1>4 DEF Finish
  <2>2. \A i \in DOMAIN history : history[i] \in Run
    BY DEF TypeOK
  <2>3. \A i \in DOMAIN history :
            /\ history'[i].task = history[i].task
            /\ history'[i].trigger = history[i].trigger
            /\ history'[i].at = history[i].at
    BY <2>1, <2>2 DEF TypeOK, Run
  <2> QED BY <1>4, <2>1, <2>3 DEF Finish, Quiet, TypeOK
<1>5. ASSUME NEW p \in Process, Kill(p)
      PROVE  Quiet
  BY <1>1, <1>5 DEF Kill, TypeOK
<1>6. ASSUME NEW d \in Dispatcher,
             StartBySchedule(d) \/ StartByHand(d) \/ EndDispatch(d)
      PROVE  Quiet
  BY <1>1, <1>6 DEF StartBySchedule, StartByHand, EndDispatch, TypeOK
<1>7. ASSUME NEW o \in Operator, NEW k \in Task, RunByHand(o, k)
      PROVE  Claim
  BY <1>7 DEF RunByHand, Claim, Process
<1>8. CASE MutexExpires
  BY <1>1, <1>8 DEF MutexExpires, TypeOK
<1>9. CASE UNCHANGED vars
  BY <1>1, <1>9 DEF vars, TypeOK
<1> QED BY <1>2, <1>3, <1>4, <1>5, <1>6, <1>7, <1>8, <1>9
        DEF Next, DispatcherStep, Process

(* last_run_at keeps in step with the history.                             *)
LEMMA LastRunStep ==
    ASSUME IInv, [Next]_vars
    PROVE  LastRunIsNewest' /\ LastBoundsRuns'
<1> USE DEF IInv
<1>1. DOMAIN history \subseteq Nat \ {0} /\ now \in Nat
  BY DEF TypeOK
<1>2. \A i \in DOMAIN history : history[i].task \in Task /\ history[i].at \in Nat
  <2>1. \A i \in DOMAIN history : history[i] \in Run
    BY DEF TypeOK
  <2> QED BY <2>1 DEF Run
<1>3. CASE Claim
  <2>1. PICK p \in Process, k \in Task, trigger \in {"scheduled", "manual"} :
            StartRun(p, k, trigger) /\ UNCHANGED now
    BY <1>3 DEF Claim
  <2> DEFINE n == Len(history) + 1
  <2>2. /\ row'[k].last = now
        /\ \A j \in Task \ {k} : row'[j] = row[j]
        /\ DOMAIN history' = DOMAIN history \cup {n} /\ n \notin DOMAIN history
        /\ \A i \in DOMAIN history : history'[i] = history[i]
        /\ history'[n].task = k /\ history'[n].at = now
    <3> HIDE DEF IInv
    <3>1. TypeOK
      BY DEF IInv
    <3>2. history'[n] = [task |-> k, trigger |-> trigger, at |-> now,
                         status |-> "running"]
      BY <2>1, <3>1, StartRunFacts
    <3>3. history'[n].task = k /\ history'[n].at = now
      BY <3>2
    <3>4. /\ row'[k].last = now
          /\ \A j \in Task \ {k} : row'[j] = row[j]
      BY <2>1, <3>1, StartRunFacts
    <3>5. /\ DOMAIN history' = DOMAIN history \cup {n} /\ n \notin DOMAIN history
          /\ \A i \in DOMAIN history : history'[i] = history[i]
      BY <2>1, <3>1, StartRunFacts
    <3> QED BY <3>3, <3>4, <3>5
  <2>3. \A i \in DOMAIN history : i <= n
    BY DEF TypeOK
  <2> HIDE DEF n
  <2>4. LastBoundsRuns'
    BY <1>1, <1>2, <2>1, <2>2 DEF LastBoundsRuns
  <2>5. /\ n \in RunsOf(k)'
        /\ \A j \in Task \ {k} : RunsOf(j)' = RunsOf(j)
        /\ RunsOf(k)' = RunsOf(k) \cup {n}
        /\ \A j \in Task : RunsOf(j) \subseteq DOMAIN history
    BY <2>2 DEF RunsOf
  <2>6. ASSUME NEW i \in RunsOf(k)', \A j \in RunsOf(k)' : j <= i
        PROVE  i = n
    <3>1. n <= i /\ (i = n \/ i \in DOMAIN history)
      BY <2>5, <2>6
    <3> QED BY <3>1, <2>3, <1>1 DEF n, TypeOK
  <2>7. \A j \in Task \ {k} :
            /\ RunsOf(j)' = {} => row'[j].last = Never
            /\ \A i \in RunsOf(j)' :
                  (\A m \in RunsOf(j)' : m <= i) => row'[j].last = history'[i].at
    BY <2>2, <2>5 DEF LastRunIsNewest
  <2>8. /\ RunsOf(k)' # {}
        /\ \A i \in RunsOf(k)' :
              (\A m \in RunsOf(k)' : m <= i) => row'[k].last = history'[i].at
    BY <2>2, <2>5, <2>6
  <2> QED BY <2>4, <2>7, <2>8 DEF LastRunIsNewest
<1>4. ASSUME NEW e \in Editor, Save(e)
      PROVE  LastRunIsNewest' /\ LastBoundsRuns'
  <2>1. /\ UNCHANGED <<history, now>>
        /\ \A j \in Task : row'[j].last = row[j].last
    BY <1>4, SaveFacts DEF Save
  <2> QED BY <1>2, <2>1 DEF LastRunIsNewest, LastBoundsRuns, RunsOf
<1>5. ASSUME NEW e \in Editor, NEW k \in Task, LoadForEdit(e, k)
      PROVE  LastRunIsNewest' /\ LastBoundsRuns'
  BY <1>5 DEF LoadForEdit, LastRunIsNewest, LastBoundsRuns, RunsOf
<1>6. CASE Quiet
  <2>1. \A j \in Task : RunsOf(j)' = RunsOf(j)
    BY <1>6 DEF Quiet, RunsOf
  <2>2. LastRunIsNewest'
    BY <1>6, <2>1 DEF Quiet, LastRunIsNewest, RunsOf
  <2>3. LastBoundsRuns'
    BY <1>1, <1>2, <1>6 DEF Quiet, LastBoundsRuns
  <2> QED BY <2>2, <2>3
<1> QED BY <1>3, <1>4, <1>5, <1>6, StepKinds

(* next_run_at keeps in step with last_run_at, unless an edit is overtaken.*)
LEMMA NextRunStep ==
    ASSUME IInv, [Next]_vars
    PROVE  EditsAreFresh' /\ NextFollowsLast'
<1> USE DEF IInv
<1>1. CASE Claim
  <2>1. PICK p \in Process, k \in Task, trigger \in {"scheduled", "manual"} :
            StartRun(p, k, trigger) /\ UNCHANGED <<now, edit>>
    BY <1>1 DEF Claim
  <2>2. /\ row'[k].last = now /\ row'[k].cadence = row[k].cadence
        /\ row'[k].next = NextRunAt(row[k].cadence, now)
        /\ \A j \in Task \ {k} : row'[j] = row[j]
        /\ clash \subseteq clash'
        /\ \A e \in Editor : edit[e].task = k => k \in clash'
    BY <2>1, StartRunFacts
  <2>3. NextFollowsLast'
    BY <2>2 DEF NextFollowsLast
  <2>4. \A e \in Editor : edit[e] # NoEdit => edit[e].task \in Task
    BY DEF TypeOK, Edit
  <2>5. EditsAreFresh'
    BY <2>1, <2>2, <2>4 DEF EditsAreFresh
  <2> QED BY <2>3, <2>5
<1>2. ASSUME NEW e \in Editor, Save(e)
      PROVE  EditsAreFresh' /\ NextFollowsLast'
  <2> DEFINE k == edit[e].task
             base == edit[e].base
  <2>1. /\ edit[e] \in Edit /\ edit[e] # NoEdit
        /\ row'[k] = SavedRow(e)
        /\ \A j \in Task \ {k} : row'[j] = row[j]
        /\ clash \subseteq clash'
        /\ \A f \in Editor \ {e} : edit[f].task = k => k \in clash'
        /\ edit' = [edit EXCEPT ![e] = NoEdit]
    BY <1>2, SaveFacts DEF Save
  <2>2. k \in Task /\ base \in Row /\ row[k] \in Row
    BY <2>1 DEF Edit, TypeOK
  <2>3. ASSUME k \notin clash, row'[k].last # Never
        PROVE  row'[k].next = NextRunAt(row'[k].cadence, row'[k].last)
    <3>1. base = row[k]
      BY <2>1, <2>3 DEF EditsAreFresh
    <3>2. /\ row'[k].last = base.last /\ base.last # Never
          /\ row'[k].cadence = edit[e].cadence
          /\ row'[k].next = EditedNext(e)
      BY <2>1, <2>3, <3>1 DEF SavedRow, Dirty
    <3>3. base.next = NextRunAt(base.cadence, base.last)
      BY <2>2, <2>3, <3>1, <3>2 DEF NextFollowsLast
    <3>4. base.next # Never
      BY <2>2, <3>2, <3>3, NextRunLater DEF Row, Time, Never
    <3> QED BY <3>2, <3>3, <3>4 DEF EditedNext
  <2>4. NextFollowsLast'
    BY <2>1, <2>2, <2>3 DEF NextFollowsLast
  <2>5. \A f \in Editor : edit'[f] # NoEdit =>
            f # e /\ edit'[f] = edit[f] /\ edit[f].task \in Task
    BY <2>1 DEF TypeOK, Edit
  <2>6. EditsAreFresh'
    BY <2>1, <2>2, <2>5 DEF EditsAreFresh
  <2> QED BY <2>4, <2>6
<1>3. ASSUME NEW e \in Editor, NEW k \in Task, LoadForEdit(e, k)
      PROVE  EditsAreFresh' /\ NextFollowsLast'
  BY <1>3 DEF LoadForEdit, EditsAreFresh, NextFollowsLast, TypeOK
<1>4. CASE Quiet
  BY <1>4 DEF Quiet, EditsAreFresh, NextFollowsLast
<1> QED BY <1>1, <1>2, <1>3, <1>4, StepKinds

(* A history row that is running has one process to finish it, or lost it. *)
LEMMA HistoryStep ==
    ASSUME IInv, [Next]_vars
    PROVE  MineIsMine' /\ HistoryCloses'
<1> USE DEF procVars, bounds
<1>1. TypeOK /\ MineIsMine /\ HistoryCloses
  BY DEF IInv
<1> DEFINE Finishing(p, i) == pc[p] = "finish" /\ mine[p] = i
<1>2. \A i \in DOMAIN history :
          history[i].status = "running" <=>
              (\E p \in Process : Finishing(p, i)) \/ i \in orphans
  BY <1>1 DEF HistoryCloses
<1>3. ASSUME MineIsMine',
             \A i \in DOMAIN history' :
                 history'[i].status = "running" <=>
                     \/ \E p \in Process : pc'[p] = "finish" /\ mine'[p] = i
                     \/ i \in orphans'
      PROVE  MineIsMine' /\ HistoryCloses'
  BY <1>3 DEF MineIsMine, HistoryCloses
<1>4. ASSUME NEW p \in Process, NEW k \in Task,
             NEW trigger \in {"scheduled", "manual"},
             StartRun(p, k, trigger), UNCHANGED orphans,
             pc[p] # "finish"
      PROVE  MineIsMine' /\ HistoryCloses'
  <2> DEFINE n == Len(history) + 1
  <2>1. /\ DOMAIN history' = DOMAIN history \cup {n} /\ n \notin DOMAIN history
        /\ \A i \in DOMAIN history : history'[i] = history[i]
        /\ history'[n] = [task |-> k, trigger |-> trigger, at |-> now,
                          status |-> "running"]
    BY <1>1, <1>4, StartRunFacts
  <2>2. /\ mine'[p] = n /\ pc'[p] = "finish"
        /\ \A q \in Process \ {p} : mine'[q] = mine[q] /\ pc'[q] = pc[q]
    BY <1>1, <1>4, StartRunFacts
  <2>3. n \notin orphans
    BY <1>1, <2>1 DEF TypeOK
  <2> HIDE DEF n
  <2>4. MineIsMine'
    BY <1>1, <1>4, <2>1, <2>2, <2>3 DEF MineIsMine
  <2>5. ASSUME NEW i \in DOMAIN history'
        PROVE  history'[i].status = "running" <=>
                   \/ \E q \in Process : pc'[q] = "finish" /\ mine'[q] = i
                   \/ i \in orphans'
    <3>1. CASE i = n
      BY <2>1, <2>2, <3>1
    <3>2. CASE i \in DOMAIN history
      <4>1. \A q \in Process :
                (pc'[q] = "finish" /\ mine'[q] = i) <=> Finishing(q, i)
        BY <1>4, <2>1, <2>2, <3>2
      <4> QED BY <1>2, <1>4, <2>1, <3>2, <4>1
    <3> QED BY <2>1, <3>1, <3>2
  <2> QED BY <1>3, <2>4, <2>5
<1>5. ASSUME NEW p \in Process, Finish(p)
      PROVE  MineIsMine' /\ HistoryCloses'
  <2>1. PICK result \in {"succeeded", "failed"} :
            history' = [history EXCEPT ![mine[p]].status = result]
    BY <1>5 DEF Finish
  <2>2. /\ pc[p] = "finish" /\ mine[p] \in DOMAIN history
        /\ mine[p] \notin orphans
        /\ \A q \in Process \ {p} : ~Finishing(q, mine[p])
    BY <1>1, <1>5 DEF Finish, MineIsMine
  <2>3. \A i \in DOMAIN history : history[i] \in Run
    BY <1>1 DEF TypeOK
  <2>4. /\ DOMAIN history' = DOMAIN history
        /\ history'[mine[p]].status # "running"
        /\ \A i \in DOMAIN history \ {mine[p]} : history'[i] = history[i]
    BY <1>1, <2>1, <2>2, <2>3 DEF TypeOK, Run
  <2>5. /\ pc'[p] # "finish" /\ orphans' = orphans
        /\ \A q \in Process \ {p} : mine'[q] = mine[q] /\ pc'[q] = pc[q]
    BY <1>1, <1>5 DEF Finish, Goto, TypeOK
  <2>6. MineIsMine'
    BY <1>1, <2>4, <2>5 DEF MineIsMine
  <2>7. ASSUME NEW i \in DOMAIN history'
        PROVE  history'[i].status = "running" <=>
                   \/ \E q \in Process : pc'[q] = "finish" /\ mine'[q] = i
                   \/ i \in orphans'
    <3>1. CASE i = mine[p]
      BY <2>2, <2>4, <2>5, <3>1
    <3>2. CASE i # mine[p]
      <4>1. \A q \in Process :
                (pc'[q] = "finish" /\ mine'[q] = i) <=> Finishing(q, i)
        BY <2>5, <3>2
      <4> QED BY <1>2, <2>4, <2>5, <3>2, <4>1
    <3> QED BY <3>1, <3>2
  <2> QED BY <1>3, <2>6, <2>7
<1>6. ASSUME NEW p \in Process, Kill(p)
      PROVE  MineIsMine' /\ HistoryCloses'
  <2>1. /\ pc'[p] # "finish" /\ history' = history
        /\ \A q \in Process \ {p} : mine'[q] = mine[q] /\ pc'[q] = pc[q]
        /\ orphans' = IF pc[p] = "finish" THEN orphans \cup {mine[p]}
                                          ELSE orphans
    BY <1>1, <1>6 DEF Kill, Goto, TypeOK
  <2>2. MineIsMine'
    BY <1>1, <2>1 DEF MineIsMine
  <2>3. \A i \in DOMAIN history :
            ((\E q \in Process : pc'[q] = "finish" /\ mine'[q] = i)
                \/ i \in orphans')
            <=> ((\E q \in Process : Finishing(q, i)) \/ i \in orphans)
    <3> SUFFICES ASSUME NEW i \in DOMAIN history
                 PROVE  ((\E q \in Process : pc'[q] = "finish" /\ mine'[q] = i)
                            \/ i \in orphans')
                        <=> ((\E q \in Process : Finishing(q, i))
                                \/ i \in orphans)
      OBVIOUS
    <3>1. CASE Finishing(p, i)
      BY <2>1, <3>1
    <3>2. CASE ~Finishing(p, i)
      <4>1. i \in orphans' <=> i \in orphans
        BY <2>1, <3>2
      <4>2. \A q \in Process :
                (pc'[q] = "finish" /\ mine'[q] = i) <=> Finishing(q, i)
        BY <2>1, <3>2
      <4> QED BY <4>1, <4>2
    <3> QED BY <3>1, <3>2
  <2> QED BY <1>2, <1>3, <2>1, <2>2, <2>3
<1>7. ASSUME NEW d \in Dispatcher, NEW k \in Task, ClaimDue(d, k)
      PROVE  MineIsMine' /\ HistoryCloses'
  <2>1. CASE StartRun(d, k, "scheduled")
    BY <1>4, <1>7, <2>1 DEF ClaimDue, Process
  <2>2. CASE UNCHANGED <<history, pc, mine>>
    BY <1>1, <1>7, <2>2 DEF ClaimDue, MineIsMine, HistoryCloses
  <2> QED BY <1>7, <2>1, <2>2 DEF ClaimDue
<1>8. ASSUME NEW o \in Operator, NEW k \in Task, RunByHand(o, k)
      PROVE  MineIsMine' /\ HistoryCloses'
  BY <1>4, <1>8 DEF RunByHand, Process
<1>9. ASSUME NEW d \in Dispatcher,
             StartBySchedule(d) \/ StartByHand(d) \/ EndDispatch(d)
      PROVE  MineIsMine' /\ HistoryCloses'
  <2>1. /\ UNCHANGED <<history, mine, orphans>>
        /\ pc[d] # "finish" /\ pc'[d] # "finish"
        /\ \A q \in Process \ {d} : pc'[q] = pc[q]
    BY <1>1, <1>9 DEF StartBySchedule, StartByHand, EndDispatch, TypeOK, Goto,
                      Process
  <2>2. MineIsMine'
    BY <1>1, <2>1 DEF MineIsMine
  <2>3. \A i \in DOMAIN history, q \in Process :
            (pc'[q] = "finish" /\ mine'[q] = i) <=> Finishing(q, i)
    BY <2>1
  <2> QED BY <1>2, <1>3, <2>1, <2>2, <2>3
<1>10. ASSUME UNCHANGED <<history, pc, mine, orphans>>
       PROVE  MineIsMine' /\ HistoryCloses'
  BY <1>1, <1>10 DEF MineIsMine, HistoryCloses
<1>11. CASE Tick \/ MutexExpires \/ UNCHANGED vars
  BY <1>10, <1>11 DEF Tick, MutexExpires, vars
<1>12. ASSUME NEW e \in Editor, Save(e) \/ \E k \in Task : LoadForEdit(e, k)
       PROVE  MineIsMine' /\ HistoryCloses'
  BY <1>10, <1>12 DEF Save, LoadForEdit
<1> QED BY <1>5, <1>6, <1>7, <1>8, <1>9, <1>11, <1>12
        DEF Next, DispatcherStep, Process

-----------------------------------------------------------------------------
(* The invariant holds in every behaviour.                                 *)
THEOREM Inductive == Spec => []IInv
<1>1. IInv /\ [Next]_vars => IInv'
  BY TypeStep, LastRunStep, NextRunStep, HistoryStep DEF IInv
<1> QED BY InitIInv, <1>1, PTL DEF Spec

(* The variables keep their types.                                         *)
THEOREM TypeCorrect == Spec => []TypeOK
<1>1. IInv => TypeOK
  BY DEF IInv
<1> QED BY Inductive, <1>1, PTL

(* last_run_at is the start of the newest run: no edit writes it back.     *)
THEOREM LastRunCorrect == Spec => []LastRunIsNewest
<1>1. IInv => LastRunIsNewest
  BY DEF IInv
<1> QED BY Inductive, <1>1, PTL

(* next_run_at follows from last_run_at and the cadence, unless an edit of *)
(* the task was overtaken.                                                 *)
THEOREM NextRunCorrect == Spec => []NextFollowsLast
<1>1. IInv => NextFollowsLast
  BY DEF IInv
<1> QED BY Inductive, <1>1, PTL

(* Both: a task's row agrees with its history.                             *)
THEOREM RowFollows == Spec => []RowFollowsHistory
<1>1. IInv => RowFollowsHistory
  BY DEF IInv, RowFollowsHistory
<1> QED BY Inductive, <1>1, PTL

(* A history row that is running has exactly one process to finish it, or  *)
(* its process has died.                                                   *)
THEOREM HistoryCorrect == Spec => []HistoryCloses
<1>1. IInv => HistoryCloses
  BY DEF IInv
<1> QED BY Inductive, <1>1, PTL

(* The scheduler starts a task only when a period has passed since its     *)
(* last start, unless an edit of the task was overtaken.                   *)
THEOREM CadenceKept == Spec => RunsAtItsCadenceUnlessOvertaken
<1> DEFINE Kept ==
      \A i \in DOMAIN history' \ DOMAIN history :
          history'[i].trigger = "scheduled" /\ history'[i].task \notin clash =>
              \A j \in RunsOf(history'[i].task) :
                  now >= NextRunAt(row[history'[i].task].cadence, history[j].at)
<1>1. IInv /\ [Next]_vars => [Kept]_vars
  <2> SUFFICES ASSUME IInv, [Next]_vars PROVE Kept
    OBVIOUS
  <2>1. TypeOK
    BY DEF IInv
  <2>2. CASE Claim
    <3>1. PICK p \in Process, k \in Task, trigger \in {"scheduled", "manual"} :
              /\ StartRun(p, k, trigger)
              /\ trigger = "scheduled" => IsDue(row[k])
      BY <2>2 DEF Claim
    <3> DEFINE n == Len(history) + 1
    <3>2. /\ DOMAIN history' = DOMAIN history \cup {n}
          /\ history'[n].task = k /\ history'[n].trigger = trigger
      <4>1. history'[n] = [task |-> k, trigger |-> trigger, at |-> now,
                           status |-> "running"]
        BY <2>1, <3>1, StartRunFacts
      <4>2. DOMAIN history' = DOMAIN history \cup {n}
        BY <2>1, <3>1, StartRunFacts
      <4> QED BY <4>1, <4>2
    <3>3. ASSUME trigger = "scheduled", k \notin clash, NEW j \in RunsOf(k)
          PROVE  now >= NextRunAt(row[k].cadence, history[j].at)
      <4>1. /\ row[k] \in Row /\ history[j] \in Run /\ history[j].task = k
            /\ j \in DOMAIN history
        BY <2>1, <3>3 DEF TypeOK, RunsOf
      <4>2. /\ row[k].cadence \in Cadence /\ history[j].at \in Nat
            /\ row[k].last \in Time /\ now \in Nat
        BY <2>1, <4>1 DEF Row, Run, TypeOK
      <4>3. history[j].at <= row[k].last /\ row[k].last \in Nat
        BY <4>1, <4>2 DEF IInv, LastBoundsRuns, Time, Never
      <4>4. row[k].next = NextRunAt(row[k].cadence, row[k].last)
        BY <3>3, <4>3 DEF IInv, NextFollowsLast, Never
      <4>5. /\ NextRunAt(row[k].cadence, row[k].last) \in Nat
            /\ NextRunAt(row[k].cadence, history[j].at) \in Nat
            /\ NextRunAt(row[k].cadence, history[j].at)
                 <= NextRunAt(row[k].cadence, row[k].last)
        BY <4>2, <4>3, NextRunLater, NextRunMonotone
      <4>6. row[k].next <= now
        BY <3>1, <3>3, <4>4, <4>5 DEF IsDue, Never
      <4> QED BY <4>2, <4>4, <4>5, <4>6
    <3> QED BY <3>2, <3>3
  <2>3. ASSUME NEW e \in Editor, NEW k \in Task, LoadForEdit(e, k)
        PROVE  DOMAIN history' = DOMAIN history
    BY <2>3 DEF LoadForEdit
  <2>4. ASSUME NEW e \in Editor, Save(e)
        PROVE  DOMAIN history' = DOMAIN history
    BY <2>4 DEF Save
  <2>5. CASE DOMAIN history' = DOMAIN history
    BY <2>5
  <2> QED BY <2>1, <2>2, <2>3, <2>4, <2>5, StepKinds DEF Quiet
<1> QED BY Inductive, <1>1, PTL DEF Spec, RunsAtItsCadenceUnlessOvertaken
=============================================================================
