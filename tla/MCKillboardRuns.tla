-------------------------- MODULE MCKillboardRuns --------------------------
(* Small instances of KillboardRuns: processes differ by nothing.             *)
EXTENDS KillboardRuns, TLC

Interchangeable == Permutations(Collectors)
=============================================================================
