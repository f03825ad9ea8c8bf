SPECIFICATION Spec
CONSTANTS
  MaxLen = 9
  Tok = {1, 2, 3}
  DraftTok = {1, 2}
  Costs = {1, 2}
  Width = 2
  Beams = 1
  BeamLen = 2
  Budget = 3
  ProType = "excluded"
  ProBeams = 2
  ProWidth = 2
  ProLen = 1
  ProBudget = 4
  MaxNew = 1
  Eog = {2}
  Prompts <- OnePrompt
  RpcMayFail = FALSE
  Recurrent = FALSE
  MaxSeqs <- DeriveMaxSeqs
  Reference <- LiveTarget
  PastEnd = 1
INVARIANTS StopsAtEog
