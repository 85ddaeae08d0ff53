SPECIFICATION MCSpec
CONSTANTS
    Editors = {"device", "settings", "member", "template", "newZone", "newTemplate", "invite", "newKey", "newDashboard"}
    Mishaps = 1
    Saves = 2
INVARIANTS
    RecordsKept
    ListsAgree
    BoardKept
    InstallWorks
PROPERTIES
    ScreenSteps
    ScreensSettle
CHECK_DEADLOCK FALSE
