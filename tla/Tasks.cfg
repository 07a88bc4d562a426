SPECIFICATION FairSpec
CONSTANTS
    Task = {1, 2}
    Cadence <- Cadences
    Cron <- CronCadences
    Period <- ShortPeriods
    Dispatcher = {d1, d2}
    Operator = {o}
    Editor = {e1}
    MaxNow = 2
    OnAtStart = {2}
    MaxEdits = 1
    MaxManual = 1
    MaxKills = 1
    MaxEvents = 2
INVARIANTS
    HistoryCloses
    RowFollowsHistory
PROPERTIES
    DueTasksAreRun
    RunsAtItsCadenceUnlessOvertaken
