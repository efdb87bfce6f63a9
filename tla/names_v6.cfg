SPECIFICATION Spec
CONSTANTS
  ha = ha
  V4 <- MCV4
  V6 <- MCV6
  Letters = {ha}
  None = None
INVARIANTS
  V6Found
