SPECIFICATION Spec
CONSTANTS
  Configs <- AllConfigs
  Cap = 7
  Vocabs = {1, 3}
  PromptLens = {1, 5}
INVARIANTS RunningIsSound SamplerOnEverySequence BorrowedOutliveContext DerivedIsAccepted
