SPECIFICATION RequestSpec
CONSTANTS
  N = 2
  Width = 4
  Golden = 9
  c1 = c1
  c2 = c2
  Calls = {c1, c2}
  Kinds = {"chat", "post", "fallback", "dual", "audit"}
  Shapes <- MCShapes
  Lists <- MCLists
  Chains <- MCChains
  Prompts <- MCPrompts
  Routings <- MCRoutings
  Name <- MCName
  Model <- MCModel
  Star = "*"
SYMMETRY MCSymmetry
INVARIANTS
  CallerUntouched
  SentFaithful
  SharesFair
\* Calls end.
CHECK_DEADLOCK FALSE
