SPECIFICATION Spec
CONSTANTS
  MaxRelease = 3
  MaxFaults = 3
INVARIANTS
  TypeOK
  WrittenMeansInstalled
  ErrorIsCoherent
PROPERTIES
  CommandShrinks
  InstallReturns
