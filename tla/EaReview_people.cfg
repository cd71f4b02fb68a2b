\* A link of a component and one of the contracts, a run and a person.
SPECIFICATION Spec
CONSTANTS
  calls = calls
  uses = uses
  HelmKeys <- OneHelm
  ContractKeys <- OneContract
  Workers = {w1}
  People = {p1}
  MaxProposals = 1
  MaxChanges = 1
  MaxEdits = 1
PROPERTIES PeopleEdgesKept
