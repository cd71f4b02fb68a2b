\* A component that is corrected during a run.
SPECIFICATION Spec
CONSTANTS
  Comps = {c}
  Perimeter = {c}
  Private = {}
  Products = {p}
  Datasets = {}
  NoParent = NoParent
  MaxVersion = 2
  MaxProposals = 1
  MaxEdits = 1
  MaxFlips = 1
PROPERTY TypesKept
