SPECIFICATION BothSpec
CONSTANTS
    Producers = {p1}
    MaxText = 1
    MaxMedia = 1
    MaxUpdates = 1
    MaxFailures = 0
    Builds = {TRUE, FALSE}
    Stories <- LiveStories
CHECK_DEADLOCK FALSE
PROPERTIES ChangesShown ClosingEnds
