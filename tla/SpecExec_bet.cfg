SPECIFICATION Spec
CONSTANTS
  MaxLen = 9
  Tok = {1, 2}
  DraftTok = {1, 2}
  Costs = {1, 3}
  Width = 2
  Beams = 2
  BeamLen = 3
  Budget = 2
  ProType = "excluded"
  ProBeams = 2
  ProWidth = 2
  ProLen = 1
  ProBudget = 4
  MaxNew = 2
  Eog <- NoTokens
  Prompts <- OnePrompt
  RpcMayFail = TRUE
  Recurrent = FALSE
  MaxSeqs <- DeriveMaxSeqs
  Reference <- LiveTarget
  PastEnd = 1
INVARIANTS TreeShape BranchesInCache FreeSeqsEmpty RequestStillDescribesTree ServerInStep WithinBudget DiesOnlyOutside OracleReproducesRound
PROPERTIES Lossless
