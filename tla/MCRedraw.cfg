SPECIFICATION Spec
CONSTANTS
    Producers = {p1, p2}
    MaxText = 1
    MaxMedia = 2
    MaxUpdates = 1
    MaxFailures = 1
    Builds = {TRUE, FALSE}
    Stories <- RedrawStories
SYMMETRY ProducerSymmetry
CHECK_DEADLOCK FALSE
INVARIANTS ChangesCovered GatesReopen
