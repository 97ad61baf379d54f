CONSTANTS
  SymType <- TypeAll
  Decl <- DeclAll
  Calls <- KCalls
  Plans <- PlansAll
  Texts = {"2", "10"}
SPECIFICATION Spec
CHECK_DEADLOCK FALSE
INVARIANTS
  SavedIsKept
  NoRebuildMissed
PROPERTIES
  UpToDate
  ReadsBack
  NothingNew
