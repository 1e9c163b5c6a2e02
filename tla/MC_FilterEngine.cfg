CONSTANTS
  Checkers = {c1}
  Writers = {w1, w2}
  Domains <- MCDomains
  Actions <- MCActions
  NULL = NULL
  MaxRules = 2
  MaxChecks = 2
  MaxResets = 1
SYMMETRY MCWriterSymmetry
SPECIFICATION Spec
CHECK_DEADLOCK FALSE
INVARIANT TypeOK
INVARIANT CountersConsistentUnlessRaced
INVARIANT RulesOwned
PROPERTY ImplementsAtomicFilter
