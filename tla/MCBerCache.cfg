SPECIFICATION Spec
CONSTANTS
  n_devs = 3
  Listeners = {1}
  Signals = {s1, s2}
  NoSignal = NoSignal
  RxParams = {p1, p2}
  None = None
  MaxCtr = 5
  MaxSyncs = 2
SYMMETRY Symmetry
INVARIANTS
  TypeOK
  KeptRateIsCurrent
PROPERTIES
  CacheIsTransparent
