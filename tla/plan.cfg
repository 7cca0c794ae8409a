\* Planning a route: the order of its stops and the travel times behind it.
SPECIFICATION Planning
CONSTANTS
    r1 = r1
    r2 = r2
    Requests = {r1, r2}
    Settings <- PlanWorlds
    MaxClock = 2
    TTL = 1
    CoverFrom = 3
    MaxRoutes = 2
    Rounds = 5
    BlockPasses = 100
    PolishPasses = 3
    Unit = 20
    LoadWeight = 7
    PriorityWeight = 5
    MinPoints = 2
    MinEps = 2
    MaxEps = 20
    DefaultEps = 10
INVARIANTS SearchIsSound EstimatesAreHonest
CHECK_DEADLOCK FALSE
