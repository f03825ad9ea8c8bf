SPECIFICATION Spec
CONSTANTS
  Tok = {1, 2}
  MaxLen = 5
INVARIANTS CellsSpellChain AcceptanceFits
