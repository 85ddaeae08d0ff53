SPECIFICATION Spec
CONSTANTS
    Policies <- MCPolicies
    MaxLag = 1
    MaxTime = 6
INVARIANTS
    TimersArePolled
PROPERTIES
    HoldBeforeFire
    CooldownBetweenFires
    RefireNeedsRearm
    ClearEndsEpisode
