SPECIFICATION Spec
CONSTANTS
  c1 = c1
  c2 = c2
  r1 = r1
  b1 = b1
  b2 = b2
  run1 = run1
  Client <- MCClient
  Recipe <- MCRecipe
  Body <- MCBody
  Run <- MCRun
  Catalogue <- MCCatalogue
  MaxVersion = 3
PROPERTIES
  SnapshotIsCurrent
