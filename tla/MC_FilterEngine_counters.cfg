CONSTANTS
  Checkers = {c1, c2}
  Writers = {w1}
  Domains <- MCDomains
  Actions <- MCActions
  NULL = NULL
  MaxRules = 2
  MaxChecks = 2
  MaxResets = 1
SYMMETRY MCCheckerSymmetry
SPECIFICATION Spec
CHECK_DEADLOCK FALSE
INVARIANT CountersConsistent
