SPECIFICATION ServiceSpec
CONSTANTS
  Posters = {p1, p2}
  Capacity = 3
  MaxRecords = 5
  trackA = trackA
  trackB = trackB
  noTrack = noTrack
SYMMETRY ServiceSymmetry
INVARIANTS OrderlyCloseFlushes ListenerKept OverlayKept TabsKept ImagesKept
PROPERTY OutboxSpec
CHECK_DEADLOCK FALSE
