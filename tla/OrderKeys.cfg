SPECIFICATION KeysSpec
CONSTANTS
  r1 = r1  r2 = r2  r3 = r3  r4 = r4  x = x  y = y  Absent = Absent
  Requests = {r1, r2, r3, r4}
  Body <- Mixed
  Faults = {"pricing", "put", "lost_reply", "complete", "release", "crash",
            "stale_read", "expiry"}
  MaxFaults = 3
INVARIANTS KeysInv ExclusiveSafe
PROPERTY CompletedStays
CHECK_DEADLOCK FALSE
