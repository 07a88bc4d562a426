SPECIFICATION Spec
CONSTANTS
    Task = {1}
    Cadence <- Cadences
    Cron <- CronCadences
    Period <- Periods
    Dispatcher = {d1, d2}
    Operator = {o}
    Editor = {e1, e2}
    MaxNow = 4
    OnAtStart = {}
    MaxEdits = 2
    MaxManual = 1
    MaxKills = 0
    MaxEvents = 3
SYMMETRY Symmetry
PROPERTIES
    RunsAtItsCadence
