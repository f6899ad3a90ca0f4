CONSTANTS
  WORKSPACESIZE = 8
  MaxGlobals = 2
  MaxGarbage = 1
  Codes = {9}
  Nestings = {FALSE}
SPECIFICATION Spec
INVARIANTS PromptClean LostByTornFile
PROPERTIES LoadRestores
