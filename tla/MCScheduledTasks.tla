-------------------------- MODULE MCScheduledTasks --------------------------
(* Instances of ScheduledTasks: an hourly cadence of two ticks and a cron  *)
(* expression that names every second or third tick.                       *)
EXTENDS ScheduledTasks, TLC

Cadences == {"hourly", "cron"}
CronCadences == {"cron"}
Periods == [c \in Cadences |-> IF c = "cron" THEN 3 ELSE 2]
ShortPeriods == [c \in Cadences |-> 2]
HourlyOnly == {"hourly"}
NoCron == {}
HourlyPeriod == [c \in HourlyOnly |-> 2]
Symmetry == Permutations(Dispatcher) \cup Permutations(Editor)
=============================================================================
