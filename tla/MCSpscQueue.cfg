CONSTANTS
  Desc = {d1, d2}
  NoDesc = NoDesc
  Depth = 2
  Modulus = 6
SPECIFICATION FairSpec
INVARIANTS NoSlotRace
PROPERTIES ImplementsFifo EveryDescriptorConsumed
