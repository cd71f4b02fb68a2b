\* A dataset and a component, corrected at any time.
SPECIFICATION Spec
CONSTANTS
  Comps = {c}
  Perimeter = {c}
  Private = {}
  Products = {p}
  Datasets = {d}
  NoParent = NoParent
  MaxVersion = 2
  MaxProposals = 2
  MaxEdits = 2
  MaxFlips = 2
PROPERTIES CorrectionsKept ArchivedByPeople
