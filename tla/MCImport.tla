------------------------------ MODULE MCImport ------------------------------
EXTENDS Import, TLC

ImportSymmetry ==
  Permutations(Files) \cup Permutations(Commits) \cup Permutations(Sessions)
=============================================================================
