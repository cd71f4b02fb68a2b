\* A question to Gemini that has two models, each of which may be overloaded at
\* any step.
SPECIFICATION Spec
CONSTANTS
  Known = {"a"}
  Keys = {"gemini"}
  Configs <- SomeConfigs
  Fallbacks <- SomeFallbacks
  Turns <- SomeTurns
  Cited = {{}, {"a"}}
  MaxSteps = 3
  Delays = 2
  MaxLit = 2
  MaxSaves = 0
INVARIANTS OneModel
