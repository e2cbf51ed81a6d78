SPECIFICATION Spec
CONSTANTS
  u1 = u1 u2 = u2 f0 = f0
  Uploads = {u1, u2}
  Existing = {f0}
  MaxFiles = 2
  NoFile = NoFile
  MaxFaults = 1
SYMMETRY TwoFiles
INVARIANTS TypeOK OfferIsSound FilesKept CancelledStaysOut OrphansAreFound
CHECK_DEADLOCK FALSE
