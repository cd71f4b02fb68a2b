\* A component that may call a target in two ways, and a link of the contracts.
SPECIFICATION Spec
CONSTANTS
  calls = calls
  uses = uses
  HelmKeys <- TwoHelm
  ContractKeys <- OneContract
  Workers = {w1}
  People = {p1}
  MaxProposals = 2
  MaxChanges = 2
  MaxEdits = 1
SYMMETRY Symmetry
PROPERTIES KeepsThePromise HelmQueueExact
