\* Two allocating threads and a remote one, two size classes, an arena that
\* holds two blocks at most, and re-registration of the endpoint.
SPECIFICATION Spec
CONSTANTS
  t1 = t1
  t2 = t2
  t3 = t3
  r1 = r1
  r2 = r2
  Thread = {t1, t2, t3}
  Owner = {t1, t2}
  Ref = {r1, r2}
  Classes = 2
  ArenaEnd = 5
  MaxSize = 3
  GenModulus = 3
SYMMETRY Symmetry
INVARIANTS
  RefCountExact
  PayloadsDisjoint
  FreeListsLinked
  NoBlockLost
  ZeroActiveIsQuiet
PROPERTIES
  HeldBlockStable
