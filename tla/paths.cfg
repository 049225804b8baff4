\* Twenty-three command lines and four output directories in two file systems,
\* with one directory exchanged at any moment.
CONSTANTS
  MaxPath = 12
  ReservedNames <- MCReservedNames
  Inputs <- MCInputs
  MaxFiles = 3
  FileSystems <- MCFileSystems
  Destinations <- MCDestinations
  LinkTarget <- MCLinkTarget
  Exchanges = 1
SPECIFICATION Spec
INVARIANTS
  CollectionIsComplete
  NamesAreText
  WalkStaysBelowItsRoot
  EveryEntryIsInItsPlace
PROPERTY
  OnlyAdds
