\* Two components, one outside the perimeter, in one product.
SPECIFICATION Spec
CONSTANTS
  Comps = {in, out}
  Perimeter = {in}
  Private = {out}
  Products = {p}
  Datasets = {}
  NoParent = NoParent
  MaxVersion = 2
  MaxProposals = 2
  MaxEdits = 1
  MaxFlips = 1
PROPERTIES KeepsThePromise NodeQueueExact
