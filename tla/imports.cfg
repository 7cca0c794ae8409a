\* Two files that share a tracking id.  Five worlds: overlapping requests with
\* errors in and outside the try block of a confirm, with failing rows, and with
\* stops of the server, short ones too; one request at a time with failing runs
\* and matches, around a stop, and with mappings changed between failed runs.
SPECIFICATION FairSpec
CONSTANTS
    i1 = i1
    i2 = i2
    a = a
    b = b
    c = c
    Imports = {i1, i2}
    RowNumbers <- TwoRows
    Ids = {a, b, c}
    Mappings = {"m1", "m2"}
    Suggested = "m1"
    Content <- Files
    Handlers = {h1, h2}
    Worlds = {{"overlap", "run", "outside"}, {"overlap", "row"}, {"overlap", "crash", "quickRestart"}, {"crash", "match", "run"}, {"run", "row", "match", "remap"}}
    MaxCrashes = 1
INVARIANTS ProcessingIsOneRun 
PROPERTIES ConfirmedIsFinal EventuallyMatched
CHECK_DEADLOCK FALSE
