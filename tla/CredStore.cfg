CONSTANTS
  Subs = {s1, s2}
  Blobs = {b1, b2}
  Trusted = {b1}
  None = None
  Calls = {c1, c2, c3}
  MaxFaults = 1
  MaxRestarts = 1
SPECIFICATION Spec
SYMMETRY Symmetry
INVARIANT TypeOK
INVARIANT WrittenIsDurable
INVARIANT SubsIsolated
