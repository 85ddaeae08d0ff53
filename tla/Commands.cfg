SPECIFICATION MCSpec
CONSTANTS
    MaxCommands = 2
    Values = {on, bad}
    Refused = {bad}
    Unset = unset
    MaxPolls = 2
    RowQuestions <- MCQuestions
    Wrap = 6
    SketchQuestions <- MCSketchQuestions
    HealthRules <- MCHealthRules
    RenotifyAfter = 1
    MaxClock = 4
    HealthQuestions <- MCHealthQuestions
    Permits = 1
    MaxAttempts = 2
    DeliveryQuestions <- MCDeliveryQuestions
    Watchers <- MCWatchers
    StatusQuestions <- MCStatusQuestions
    Scheduled <- MCScheduled
    Cron <- MCCron
    PerMinute = 3
    MaxTicks = 13
    ScheduleQuestions <- MCScheduleQuestions
INVARIANTS
    CommandsSafe
    BoardFollows
    NothingGoesUntold
    RowTells
PROPERTIES
    Implements
    CommandSteps
    PathsSettle
CHECK_DEADLOCK FALSE
