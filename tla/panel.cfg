\* One administrator imports two lists while others create a beat.
SPECIFICATION Panel
CONSTANTS
    HeaderField <- Headers
    NumberLike <- TheNumberLike
    Offices <- TheOffices
    OwnOffice = "bw"
    OfficeWords <- TheWords
    Survey <- TheSurvey
    Files <- TheFiles
    Columns <- TheColumns
    Beats0 <- TheBeats
    NewBeats = {"20"}
    MaxRows = 8000
    ListBounds <- TwoBounds
    MaxCalls = 2
PROPERTIES ShownIsImported ListedIsFound
CHECK_DEADLOCK FALSE
