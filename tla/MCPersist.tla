----------------------------- MODULE MCPersist -----------------------------
(* Persist for TLC: texts of one and two blocks.                            *)
EXTENDS Persist

MCText == {<<Letter>>, <<Letter, Letter, Letter>>}
MCProgram == <<Letter, Letter, Letter>>
=============================================================================
