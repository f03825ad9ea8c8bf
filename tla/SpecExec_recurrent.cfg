SPECIFICATION FairSpec
CONSTANTS
  MaxLen = 10
  Tok = {1, 2, 3}
  DraftTok = {1, 2}
  Costs = {1, 2}
  Width = 2
  Beams = 1
  BeamLen = 2
  Budget = 2
  ProType = "included"
  ProBeams = 1
  ProWidth = 2
  ProLen = 1
  ProBudget = 4
  MaxNew = 2
  Eog = {3}
  Prompts <- OnePrompt
  RpcMayFail = TRUE
  Recurrent = TRUE
  MaxSeqs <- DeriveMaxSeqs
  Reference <- LiveTarget
  PastEnd = 1
INVARIANTS TypeOK CommittedSeqInStep DiesOnlyOutside
PROPERTIES Lossless Terminates
