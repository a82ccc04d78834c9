CONSTANTS
  Commands = {c1, c2}
  MaxFaults = 3
SPECIFICATION Spec
INVARIANT TimeoutIsRetried
