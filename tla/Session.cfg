SPECIFICATION MCSpec
CONSTANTS
    Tabs = {a, b}
    WebLocks = TRUE
    Workspaces = {1, 2}
    Retries = 1
    MaxCalls = 4
    Budgets <- MCBudgets
    Users <- MCUsers
    TeamQuestions <- MCTeamQuestions
INVARIANTS
    SessionSafe
    TeamSafe
PROPERTIES
    RequestsSettle
    TeamSteps
CHECK_DEADLOCK FALSE
