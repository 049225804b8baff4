\* A file, a second one whose name sorts between it and its slash, and a file
\* below a directory of the first one's name.
CONSTANTS
  MaxPath = 12
  ReservedNames <- MCReservedNames
  Inputs <- HiddenInputs
  MaxFiles = 3
  FileSystems <- MCFileSystems
  Destinations <- MCDestinations
  LinkTarget <- MCLinkTarget
  Exchanges = 0
SPECIFICATION Spec
INVARIANT AcceptedNamesDoNotCollide
