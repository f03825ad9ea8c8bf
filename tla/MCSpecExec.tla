----------------------------- MODULE MCSpecExec -----------------------------
(* Small instances of SpecExec for TLC. *)
EXTENDS SpecExecProps

SeedPrompt   == {<<1>>}
OnePrompt    == {<<1, 2>>}
NoTokens     == {}
LiveTarget   == <<>>
Recording    == <<1, 2, 1, 1, 2, 1, 1>>
=============================================================================
