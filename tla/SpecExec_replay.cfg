SPECIFICATION Spec
CONSTANTS
  MaxLen = 14
  Tok = {1, 2, 3}
  DraftTok = {1, 2, 3}
  Costs = {1, 2}
  Width = 2
  Beams = 2
  BeamLen = 2
  Budget = 3
  ProType = "disabled"
  ProBeams = 1
  ProWidth = 1
  ProLen = 1
  ProBudget = 1
  MaxNew = 5
  Eog = {3}
  Prompts <- SeedPrompt
  RpcMayFail = FALSE
  Recurrent = FALSE
  MaxSeqs <- DeriveMaxSeqs
  Reference <- Recording
  PastEnd = 3
INVARIANTS ReplaySpellsReference EogStopsAfterWarmup
