\* Two addresses and two reloads: up to three generations.
SPECIFICATION FairSpec
CONSTANTS
  a1 = a1
  a2 = a2
  Addrs = {a1, a2}
  MaxReloads = 2
INVARIANTS
  TypeOK
  OneGeneration
  ConfigFresh
  NobodyStuck
PROPERTIES
  GensKeepContract
  TerminationEnds
  ReloadsServed
