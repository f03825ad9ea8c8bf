SPECIFICATION Spec
CONSTANTS
  MaxLen = 11
  Tok = {1, 2, 3}
  DraftTok = {1, 2}
  Costs = {1, 2}
  Width = 2
  Beams = 2
  BeamLen = 3
  Budget = 2
  ProType = "excluded"
  ProBeams = 1
  ProWidth = 2
  ProLen = 1
  ProBudget = 4
  MaxNew = 1
  Eog <- NoTokens
  Prompts <- OnePrompt
  RpcMayFail = FALSE
  Recurrent = FALSE
  MaxSeqs <- DeriveMaxSeqs
  Reference <- LiveTarget
  PastEnd = 1
INVARIANTS BetForksTrueHistory
