SPECIFICATION FairSpec
CONSTANTS
  Files = {f1, f2}
  Ops = {o1, o2}
INVARIANTS
  TypeOK
  UsersHaveTheirHolds
  HoldsAreNested
  AllOrNothing
PROPERTIES
  LoadFinishes
  UnloadFinishes
