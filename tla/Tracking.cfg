SPECIFICATION FairTracking
CONSTANTS
  r1 = r1 r2 = r2 parcel = parcel both = both
  Requests = {r1, r2}
  Last = 3
  Signatures = {parcel, both}
  Signature <- TwoParcels
  Silent = Silent
  Final = {1, 2, 3}
  MaxFailures = 2
INVARIANTS TrackingTypeOK StoredWasMailed OnceWhenSequential
PROPERTIES ShippedIsMailed
