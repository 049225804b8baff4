\* An archive and an extraction under one name: every call may fail, every
\* process may be killed, the machine may crash.
SPECIFICATION Spec
CONSTANTS
  Writers = {archive1, file1}
  Replacing = {archive1}
  Final = Final
  Old = Old
  NoFile = NoFile
  Chunks = {c1, c2}
  Starts = {"file", "empty", "missing"}
  IoFails = TRUE
  MaxCrashes = 1
INVARIANTS
  ReturnTellsTheOutcome
  TemporaryIsGone
  SyncedPublicationSurvives
PROPERTY
  PublishesAtomically
