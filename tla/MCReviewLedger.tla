--------------------------- MODULE MCReviewLedger ---------------------------
EXTENDS ReviewLedger, TLC

\* Every permutation of the interchangeable values of a run.
RaceSymmetry == Permutations(Lineages) \cup Permutations(Collectors) \cup Permutations(Reviewers)

FindingSymmetry ==
  Permutations(Reviewers) \cup Permutations(Fixers) \cup Permutations(Changes)
=============================================================================
