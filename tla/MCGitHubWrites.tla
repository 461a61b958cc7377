--------------------------- MODULE MCGitHubWrites ---------------------------
(***************************************************************************)
(* Model values for the run of the GitHub writes.                          *)
(***************************************************************************)
EXTENDS GitHubWritesProperties, TLC

CONSTANTS x, y, a, b

TwoCallers == {x, y}
TwoShas == {a, b}

\* Callers are alike, and so are commits.
Alike == Permutations(TwoCallers) \cup Permutations(TwoShas)
=============================================================================
