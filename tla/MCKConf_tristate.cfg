CONSTANTS
  SymType <- TypeTri
  Decl <- DeclTri
  Calls <- KCalls
  Plans <- PlansTri
  Texts = {}
SPECIFICATION Spec
CHECK_DEADLOCK FALSE
PROPERTIES
  UpToDate
