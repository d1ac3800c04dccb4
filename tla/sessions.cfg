\* An agent and an operator work on one skill, with a crash and another fault or outside move.
SPECIFICATION MCSpec
CONSTANTS
    home = home
    Session = {agent, operator}
    Agents = {agent}
    Profile = {home}
    ProfileOf <- MCProfileOf
    Root = {1, 2, 3}
    SharedRoot = 1
    Configs = {{2}, {3}}
    Package = {shared1, shared2, private1}
    Shared = {shared1, shared2}
    Withdrawn = private1
    None = None
    first = shared1
    configured = {2}
    MaxMade = 2
    MaxTrouble = 1
    MaxCrashes = 1
INVARIANTS
    SkillTypeOK
    Exclusive
    WaitsUpward
    RecordIsTrue
    LinksOwned
    ActsOnSeen
    Barred
    LinksLocked
    NeverStages
PROPERTIES
    DeletesComplete
    SharedIsPublished
    PackagesKept
    SessionsKeepContract
    BarrierLifts
CHECK_DEADLOCK FALSE
