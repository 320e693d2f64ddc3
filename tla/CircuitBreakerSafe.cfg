SPECIFICATION FairSpec
CONSTANTS
  Callers = {c1, c2, c3}
  Threshold = 3
  Recovery = 2
  MaxFaults = 2
INVARIANTS TypeOK OpenAfterFailures OutageNoticed
PROPERTIES OpenEnds
