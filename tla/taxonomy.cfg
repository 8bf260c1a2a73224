SPECIFICATION Spec
CONSTANTS
  Term = {1, 2, 3, 4, 5, 6, 7, 8}
  Vocab = {"a", "b"}
  VocOf <- MCVocOf
  SlugOf <- MCSlugOf
  Obj = {o1, o2}
  Session = {s1, s2}
  MaxPath = 7
  Deployments <- MCDeployments
INVARIANTS NestingRight TagsRight PairsKept
SYMMETRY Symmetry
CHECK_DEADLOCK FALSE
