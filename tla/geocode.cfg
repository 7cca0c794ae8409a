\* Creations, retries, pins and "Retry Geocode All" against both providers
\* and none, and deliveries that teach where an address is.
SPECIFICATION Locating
CONSTANTS
    p1 = p1
    p2 = p2
    p3 = p3
    p4 = p4
    k1 = k1
    nokey = nokey
    lane = lane
    hall = hall
    full = full
    suite = suite
    vague = vague
    j1 = j1
    j2 = j2
    Parcels = {p1, p2, p3, p4}
    Keys = {k1}
    NoKey = nokey
    LearnKey <- TheKey
    Jobs = {j1, j2}
    FirstLine <- TheLine
    CacheKey <- AllFields
    HasArea <- Area
    Where <- Door
    AreaCentre = 2000
    PincodeCentre = 4000
    Gap = 1
    Backoff = 2
    Situations <- TheSituations
INVARIANTS PlacesAreSound
PROPERTIES RepeatsAreHarmless EveryLookupEnds
CHECK_DEADLOCK FALSE
