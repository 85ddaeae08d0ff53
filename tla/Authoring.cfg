SPECIFICATION MCSpec
CONSTANTS
    MaxEdits = 3
    MaxContacts = 5
INVARIANTS
    RuleMeansWhatIsShown
    WiringSound
PROPERTIES
    AuthoringSteps
    AuthoringSettles
CHECK_DEADLOCK FALSE
