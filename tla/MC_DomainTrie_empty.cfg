CONSTANTS
  Domains <- MCDomainsWithEmpty
  Rules = {r1, r2}
  NULL = NULL
  MaxRuleCount = 4
SYMMETRY MCRuleSymmetry
SPECIFICATION Spec
INVARIANT MatchIsSpecified
