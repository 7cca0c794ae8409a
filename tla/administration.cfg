\* Requests one at a time, then overlapping; with a list; with stops of the
\* server; with the notices the postmen get; in a street that two beats share.
\* Or requests about one postman, in turn and overlapping.
SPECIFICATION PostOffice
CONSTANTS
    b1 = b1
    b2 = b2
    x = x
    y = y
    z = z
    s1 = s1
    s2 = s2
    d1 = d1
    d2 = d2
    d3 = d3
    p1 = p1
    p2 = p2
    Beats = {b1, b2}
    Localities = {x, y}
    Shapes = {s1, s2}
    Overlap <- TwoShapes
    Deliveries = {d1}
    Areas = {z}
    Words <- Vocabulary
    Address <- Addresses
    Letters <- AllLetters
    Spelling <- Misspelt
    Numbers = {"21"}
    GENERIC_ADDRESS_WORDS = {"MUMBAI"}
    OfficeArea <- BhandupWest
    Idf <- LogTable
    Place <- Houses
    Distance <- NoNeighbours
    Carrier <- Postman
    Postmen = {p1, p2}
    WithLogin = {p1, p2}
    Urgent = {}
    Rows <- TheList
    Mappings <- TwoMappings
    Suggested <- AllFields
    Slots = {h1, h2}
    Worlds <- OfficeWorlds
    StaffRequests = {r1, r2}
    MaxPhotos = 2
    StaffWorlds = {{"refusals", "signIns"}, {"busy", "stops", "signIns"}, {"busy", "accounts", "signIns"}, {"overlap", "busy", "refusals", "stops"}}
    MaxRequests <- Bounds
INVARIANTS MatchesAreCurrent SharedLocalityIsNotGuessed OverlapsAreDecided ToldWhatHappened NeighboursDecide StaffRecordsAgree
SYMMETRY Interchangeable
CHECK_DEADLOCK FALSE
