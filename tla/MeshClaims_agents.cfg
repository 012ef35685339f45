SPECIFICATION FairSpec
CONSTANTS monitor = monitor server = server c1 = c1 c2 = c2 alice = alice bob = bob login = login
  Processes = {monitor, server}
  Monitor = monitor
  Claims = {c1, c2}
  Observed = {c1}
  Owner <- ClaimOwner
  File <- ClaimFile
  MaxTime = 1
  Lease <- Leases
INVARIANTS TypeOK OneHolder
PROPERTIES RowsKept PendingWritten
CHECK_DEADLOCK FALSE
