SPECIFICATION Spec
CONSTANTS
  Names <- MCNames
  Quoted = {"quoted"}
  Ambiguous = {"x b/y"}
  Cut <- MCCut
  Changes <- MCChanges
  NoName = NoName
  LeftPart = "x"
  RightPart = "y b/x b/y"
  Positions = {1, 3, 5}
  MaxSections = 2
  MaxLines = 4
  Lengths <- MCLengths
  Windows <- MCWindows
  Layouts <- MCLayouts
CHECK_DEADLOCK FALSE
INVARIANTS
  ParserKeepsPosition ChangesAreCounted FileIsIdentified
   DefinitionsHoldTheChange
