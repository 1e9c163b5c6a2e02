--------------------------- MODULE MC_DomainTrie ---------------------------
(***************************************************************************)
(* Model-checking instance of DomainTrie.                                  *)
(***************************************************************************)
EXTENDS DomainTrie, TLC

\* Names that exercise every normalisation path: an exact name, its
\* wildcard, a deeper upper-case name, a deeper wildcard, a sibling under
\* the same parent, an unrelated top label and a trailing dot.
MCDomains ==
  { <<"a">>,
    <<"*", ".", "a">>,
    <<"B", ".", "a">>,
    <<"*", ".", "b", ".", "A">>,
    <<"c", ".", "a">>,
    <<"b">>,
    <<"a", ".">> }

\* The same names plus "*.." and ".", which normalise to no label at all.
MCDomainsWithEmpty ==
  MCDomains \cup { <<"*", ".", ".">>, <<".">> }

MCRuleSymmetry == Permutations(Rules)
=============================================================================
