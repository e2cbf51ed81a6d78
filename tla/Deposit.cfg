SPECIFICATION Spec
CONSTANTS
  r1 = r1 r2 = r2 d1 = d1 d2 = d2 s1 = s1 s2 = s2 s3 = s3
  Requests = {r1, r2}
  Invoices = {d1, d2}
  Sessions = {s1, s2, s3}
  None = None
  MaxRetries = 1
  MaxRecoveries = 1
SYMMETRY Same
INVARIANTS TypeOK OfferedIsStored DirectIsRecordable
