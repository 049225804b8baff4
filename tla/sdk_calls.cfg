\* Two calls after each other, entries of every kind, every set of failures.
SPECIFICATION Spec
CONSTANTS
  Names = {"a", "b", ".h", "d/e"}
  Hidden = {".h"}
  Nested = {"d/e"}
  Contents = {"0", "1"}
  Passwords = {"p", "q"}
  Keys = {"k"}
  MaxCalls = 2
  FailureSets = {{}, {"io"}, {"close"}, {"io", "close"}}
INVARIANTS
  CallsCleanUp
  ExtractGivesBack
