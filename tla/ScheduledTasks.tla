--------------------------- MODULE ScheduledTasks ---------------------------
(***************************************************************************)
(* The maintenance tasks in the table scheduled_tasks: a command that the  *)
(* scheduler starts every minute runs those that are due; an operator runs *)
(* a task by hand, enables it or changes its cadence.                      *)
(*                                                                         *)
(* Claiming a task (history row, last_run_at, next_run_at) is a            *)
(* transaction that locks the row.  Editing is not: the row is read,       *)
(* changed in memory and saved, and saving writes the columns that differ  *)
(* from what was read, after a hook that may compute next_run_at anew.     *)
(***************************************************************************)
EXTENDS Integers, Sequences

CONSTANTS
    Task,        \* ids of the rows
    Cadence,     \* the cadences in use
    Cron,        \* those that are cron expressions
    Period,      \* [Cadence -> Nat]: the distance between two runs
    Dispatcher,  \* processes of concepts:schedule:dispatch
    Operator,    \* processes that run a task by hand
    Editor,      \* requests and commands that change a task
    MaxNow,      \* bound: the clock
    OnAtStart,   \* the tasks that have been enabled, and have not run yet
    MaxEdits,    \* bound: how often a task is changed
    MaxManual,   \* bound: how often something is started by hand
    MaxKills,    \* bound: how often a process dies
    MaxEvents    \* bound: all three together

ASSUME TasksAssumption ==
    /\ Task \subseteq Nat
    /\ Cron \subseteq Cadence /\ Cadence # {}
    /\ Period \in [Cadence -> Nat \ {0}]
    /\ Dispatcher \cap Operator = {}
    /\ {MaxNow, MaxEdits, MaxManual, MaxKills, MaxEvents} \subseteq Nat

VARIABLES
    now,       \* the clock
    row,       \* [Task -> Row]: the table scheduled_tasks
    history,   \* Seq(Run): the table scheduled_task_runs
    overlap,   \* the mutex of withoutOverlapping() is taken
    pc,        \* [Dispatcher \cup Operator -> PC]
    ids,       \* [Dispatcher -> SUBSET Task]: tasks the loop has still to do
    guarded,   \* dispatchers that were started by the scheduler
    mine,      \* [Process -> Nat]: the history row it has to finish
    edit,      \* [Editor -> Edit]
    clash,     \* tasks changed by another while an edit was under way (history)
    orphans,   \* history rows whose process has died (history)
    edits, manual, kills

Process == Dispatcher \cup Operator

procVars == <<pc, ids, guarded, mine>>
bounds == <<edits, manual, kills>>
vars == <<now, row, history, overlap, procVars, edit, clash, orphans, bounds>>

-----------------------------------------------------------------------------
Never == -1
Time == Nat \cup {Never}

Row == [enabled : BOOLEAN, cadence : Cadence, last : Time, next : Time]
Run == [task : Task, trigger : {"scheduled", "manual"}, at : Nat,
        status : {"running", "succeeded", "failed"}]
Edit == [task : Task, base : Row, enabled : BOOLEAN, cadence : Cadence]
NoEdit == [task |-> Never]
PC == {"off", "loop", "finish"}

(* nextRunAt(): named cadences count from the last run, a cron expression  *)
(* names fixed points in time.                                             *)
NextRunAt(c, t) ==
    IF c \in Cron THEN ((t \div Period[c]) + 1) * Period[c]
                  ELSE t + Period[c]

IsDue(r) == r.enabled /\ (r.next = Never \/ r.next <= now)

(* The migration leaves the tasks disabled and never run; setEnabled() makes  *)
(* those it enables due at once.                                           *)
Init ==
    /\ now = 0
    /\ \E c \in Cadence :
         row = [k \in Task |-> [enabled |-> k \in OnAtStart, cadence |-> c,
                                last |-> Never,
                                next |-> IF k \in OnAtStart THEN 0 ELSE Never]]
    /\ history = <<>>
    /\ overlap = FALSE
    /\ pc = [p \in Process |-> "off"]
    /\ ids = [d \in Dispatcher |-> {}]
    /\ guarded = {}
    /\ mine = [p \in Process |-> 0]
    /\ edit = [e \in Editor |-> NoEdit]
    /\ clash = {} /\ orphans = {}
    /\ edits = 0 /\ manual = 0 /\ kills = 0

Goto(p, to) == pc' = [pc EXCEPT ![p] = to]
FewEvents == edits + manual + kills < MaxEvents

Tick ==
    /\ now < MaxNow
    /\ now' = now + 1
    /\ UNCHANGED <<row, history, overlap, procVars, edit, clash, orphans,
                   bounds>>

-----------------------------------------------------------------------------
(* Claiming and finishing a run.                                           *)

(* Somebody else changes the row while an edit of it is under way.         *)
Touch(k, own) ==
    clash' = IF \E f \in Editor \ own : edit[f].task = k
             THEN clash \cup {k} ELSE clash

(* startHistory() and markRan(), in the transaction that holds the lock.   *)
StartRun(p, k, trigger) ==
    /\ history' = Append(history, [task |-> k, trigger |-> trigger,
                                   at |-> now, status |-> "running"])
    /\ row' = [row EXCEPT ![k].last = now,
                          ![k].next = NextRunAt(row[k].cadence, now)]
    /\ mine' = [mine EXCEPT ![p] = Len(history) + 1]
    /\ Goto(p, "finish")
    /\ Touch(k, {})

(* Mutant of Finish: an exception of the handler is not caught.             *)
FinishOrThrow(p) ==
    /\ pc[p] = "finish"
    /\ \/ /\ history' = [history EXCEPT ![mine[p]].status = "succeeded"]
          /\ Goto(p, IF p \in Dispatcher THEN "loop" ELSE "off")
       \/ /\ UNCHANGED history
          /\ Goto(p, "off")
    /\ mine' = [mine EXCEPT ![p] = 0]
    /\ UNCHANGED <<now, row, overlap, ids, guarded, edit, clash, orphans,
                   bounds>>

(* finish(): the handler succeeds or throws; the exception is caught.      *)
Finish(p) ==
    /\ pc[p] = "finish"
    /\ \E result \in {"succeeded", "failed"} :
         history' = [history EXCEPT ![mine[p]].status = result]
    /\ mine' = [mine EXCEPT ![p] = 0]
    /\ Goto(p, IF p \in Dispatcher THEN "loop" ELSE "off")
    /\ UNCHANGED <<now, row, overlap, ids, guarded, edit, clash, orphans,
                   bounds>>

(* A process dies; the history row it was to finish stays as it is, and so *)
(* does the mutex.                                                         *)
Kill(p) ==
    /\ pc[p] # "off" /\ kills < MaxKills /\ FewEvents
    /\ kills' = kills + 1
    /\ orphans' = IF pc[p] = "finish" THEN orphans \cup {mine[p]} ELSE orphans
    /\ mine' = [mine EXCEPT ![p] = 0]
    /\ ids' = [d \in Dispatcher |-> IF d = p THEN {} ELSE ids[d]]
    /\ guarded' = guarded \ {p}
    /\ Goto(p, "off")
    /\ UNCHANGED <<now, row, history, overlap, edit, clash, edits, manual>>

-----------------------------------------------------------------------------
(* The command concepts:schedule:dispatch: dispatchDue().                  *)

EnabledTasks == {k \in Task : row[k].enabled}

(* The scheduler starts the command unless it is still running.            *)
StartBySchedule(d) ==
    /\ pc[d] = "off" /\ ~overlap
    /\ overlap' = TRUE
    /\ guarded' = guarded \cup {d}
    /\ ids' = [ids EXCEPT ![d] = EnabledTasks]
    /\ Goto(d, "loop")
    /\ UNCHANGED <<now, row, history, mine, edit, clash, orphans, bounds>>

(* It can also be started by hand, without the mutex.                      *)
StartByHand(d) ==
    /\ pc[d] = "off" /\ manual < MaxManual /\ FewEvents
    /\ manual' = manual + 1
    /\ ids' = [ids EXCEPT ![d] = EnabledTasks]
    /\ Goto(d, "loop")
    /\ UNCHANGED <<now, row, history, overlap, guarded, mine, edit, clash,
                   orphans, edits, kills>>

(* Mutant of ClaimDue: what dispatchDue() has read is not looked at again.  *)
ClaimEnabled(d, k) ==
    /\ pc[d] = "loop"
    /\ k \in ids[d] /\ \A j \in ids[d] : k <= j
    /\ ids' = [ids EXCEPT ![d] = @ \ {k}]
    /\ StartRun(d, k, "scheduled")
    /\ UNCHANGED <<now, overlap, guarded, edit, orphans, bounds>>

(* claimDue(): the row is locked, and must be due at that time.            *)
ClaimDue(d, k) ==
    /\ pc[d] = "loop"
    /\ k \in ids[d] /\ \A j \in ids[d] : k <= j
    /\ ids' = [ids EXCEPT ![d] = @ \ {k}]
    /\ \/ /\ IsDue(row[k])
          /\ StartRun(d, k, "scheduled")
       \/ /\ ~IsDue(row[k])
          /\ UNCHANGED <<row, history, pc, mine, clash>>
    /\ UNCHANGED <<now, overlap, guarded, edit, orphans, bounds>>

(* The command ends, and the scheduler gives the mutex free.               *)
EndDispatch(d) ==
    /\ pc[d] = "loop" /\ ids[d] = {}
    /\ overlap' = (overlap /\ d \notin guarded)
    /\ guarded' = guarded \ {d}
    /\ Goto(d, "off")
    /\ UNCHANGED <<now, row, history, ids, mine, edit, clash, orphans, bounds>>

(* Mutant of MutexExpires: the mutex of a dead holder does not expire.     *)
MutexStays ==
    /\ overlap /\ guarded # {}
    /\ overlap' = FALSE
    /\ UNCHANGED <<now, row, history, procVars, edit, clash, orphans, bounds>>

(* withoutOverlapping(10): after ten minutes the mutex counts for nothing, *)
(* whether its holder is dead or only slow.                                *)
MutexExpires ==
    /\ overlap
    /\ overlap' = FALSE
    /\ UNCHANGED <<now, row, history, procVars, edit, clash, orphans, bounds>>

-----------------------------------------------------------------------------
(* The operator.                                                           *)

(* run(): no matter whether the task is enabled or due.                    *)
RunByHand(o, k) ==
    /\ pc[o] = "off" /\ manual < MaxManual /\ FewEvents
    /\ manual' = manual + 1
    /\ StartRun(o, k, "manual")
    /\ UNCHANGED <<now, overlap, ids, guarded, edit, orphans, edits, kills>>

(* setEnabled(), configure(), the toggle of the list and the edit form all *)
(* read the row, ...                                                       *)
LoadForEdit(e, k) ==
    /\ edit[e] = NoEdit /\ edits < MaxEdits /\ FewEvents
    /\ edits' = edits + 1
    /\ \E en \in BOOLEAN, c \in Cadence :
         edit' = [edit EXCEPT ![e] = [task |-> k, base |-> row[k],
                                      enabled |-> en, cadence |-> c]]
    /\ UNCHANGED <<now, row, history, overlap, procVars, clash, orphans,
                   manual, kills>>

(* next_run_at of the edited copy after the saving hook.                   *)
EditedNext(e) ==
    LET base == edit[e].base
    IN IF edit[e].cadence # base.cadence /\ base.last # Never
       THEN NextRunAt(edit[e].cadence, base.last)
       ELSE IF edit[e].enabled /\ base.next = Never THEN now
       ELSE base.next

Dirty(base, new, stored) == IF new = base THEN stored ELSE new

(* Mutant of SavedRow: every column is written.                             *)
SavedWhole(e) ==
    [edit[e].base EXCEPT !.enabled = edit[e].enabled,
                         !.cadence = edit[e].cadence,
                         !.next = EditedNext(e)]

(* ... and save the columns that differ from what they read.               *)
SavedRow(e) ==
    LET base == edit[e].base
        stored == row[edit[e].task]
    IN [enabled |-> Dirty(base.enabled, edit[e].enabled, stored.enabled),
        cadence |-> Dirty(base.cadence, edit[e].cadence, stored.cadence),
        last |-> stored.last,
        next |-> Dirty(base.next, EditedNext(e), stored.next)]

Save(e) ==
    /\ edit[e] # NoEdit
    /\ row' = [row EXCEPT ![edit[e].task] = SavedRow(e)]
    /\ edit' = [edit EXCEPT ![e] = NoEdit]
    /\ Touch(edit[e].task, {e})
    /\ UNCHANGED <<now, history, overlap, procVars, orphans, bounds>>

-----------------------------------------------------------------------------
DispatcherStep(d) ==
    \/ \E k \in Task : ClaimDue(d, k)
    \/ Finish(d)
    \/ EndDispatch(d)

Next ==
    \/ Tick
    \/ \E d \in Dispatcher :
          DispatcherStep(d) \/ StartBySchedule(d) \/ StartByHand(d)
    \/ \E o \in Operator : Finish(o) \/ \E k \in Task : RunByHand(o, k)
    \/ \E p \in Process : Kill(p)
    \/ \E e \in Editor : Save(e) \/ \E k \in Task : LoadForEdit(e, k)
    \/ MutexExpires

Spec == Init /\ [][Next]_vars

(* The scheduler keeps starting the command, a command that runs goes on,  *)
(* and the mutex does expire.                                              *)
FairSpec ==
    /\ Spec
    /\ WF_vars(\E d \in Dispatcher : StartBySchedule(d))
    /\ \A d \in Dispatcher : WF_vars(DispatcherStep(d))
    /\ WF_vars(MutexExpires)

-----------------------------------------------------------------------------
(* Each variable has its type; the history row a process has to finish is  *)
(* there.                                                                  *)
TypeOK ==
    /\ now \in Nat
    /\ row \in [Task -> Row]
    /\ history \in Seq(Run)
    /\ overlap \in BOOLEAN
    /\ pc \in [Process -> PC]
    /\ ids \in [Dispatcher -> SUBSET Task]
    /\ guarded \subseteq Dispatcher
    /\ mine \in [Process -> Nat]
    /\ \A p \in Process : pc[p] = "finish" => mine[p] \in DOMAIN history
    /\ edit \in [Editor -> Edit \cup {NoEdit}]
    /\ clash \subseteq Task
    /\ orphans \subseteq DOMAIN history
    /\ edits \in Nat /\ manual \in Nat /\ kills \in Nat

RunsOf(k) == {i \in DOMAIN history : history[i].task = k}

(* last_run_at of a task is the start of its newest history row, whoever   *)
(* edits the row at the same time: an edit does not write it back          *)
(* (markRan(), the unlocked save() of setEnabled() and configure()).       *)
LastRunIsNewest ==
    \A k \in Task :
        /\ RunsOf(k) = {} => row[k].last = Never
        /\ \A i \in RunsOf(k) :
              (\A j \in RunsOf(k) : j <= i) => row[k].last = history[i].at

(* next_run_at is one period after last_run_at, in the cadence of the row, *)
(* whatever sequence of runs and edits led there; only an edit that was    *)
(* overtaken between its read and its save can spoil it (the saving hook). *)
NextFollowsLast ==
    \A k \in Task \ clash :
        row[k].last # Never =>
            row[k].next = NextRunAt(row[k].cadence, row[k].last)

(* A task's row agrees with its history, run by run and edit by edit.      *)
RowFollowsHistory == LastRunIsNewest /\ NextFollowsLast

(* "When enabled, the scheduler runs this task at the configured cadence": *)
(* it starts a task only when a period has passed since the task was last  *)
(* started, by the scheduler or by hand.                                   *)
RunsAtItsCadence ==
    [][\A i \in DOMAIN history' \ DOMAIN history :
          history'[i].trigger = "scheduled" =>
              \A j \in RunsOf(history'[i].task) :
                  now >= NextRunAt(row[history'[i].task].cadence,
                                   history[j].at)]_vars

(* The same for a task none of whose edits was overtaken: neither several  *)
(* dispatchers nor manual runs make a task run twice in a period.          *)
RunsAtItsCadenceUnlessOvertaken ==
    [][\A i \in DOMAIN history' \ DOMAIN history :
          history'[i].trigger = "scheduled" /\ history'[i].task \notin clash =>
              \A j \in RunsOf(history'[i].task) :
                  now >= NextRunAt(row[history'[i].task].cadence,
                                   history[j].at)]_vars

(* A history row is running exactly while one process is about to finish   *)
(* it, or if that process died (finish()).                                 *)
HistoryCloses ==
    \A i \in DOMAIN history :
        LET finishers == {p \in Process : pc[p] = "finish" /\ mine[p] = i}
        IN /\ history[i].status = "running" <=>
                  finishers # {} \/ i \in orphans
           /\ \A p, q \in finishers : p = q

(* An enabled task that is due is run or disabled, also when a dispatcher  *)
(* dies and leaves its mutex behind, and whatever other tasks do.          *)
DueTasksAreRun == \A k \in Task : []<>~IsDue(row[k])
=============================================================================
