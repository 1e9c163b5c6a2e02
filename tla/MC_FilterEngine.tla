-------------------------- MODULE MC_FilterEngine --------------------------
(***************************************************************************)
(* Model-checking instance of FilterEngine.                                *)
(***************************************************************************)
EXTENDS FilterEngine, TLC

\* An exact name and the wildcard over it, so that a rule added for one
\* changes what a check of the other returns, and the empty name the
\* decoder produces for the root query ".".
MCDomains == { <<"a">>, <<"*", ".", "A">>, <<>> }

MCActions == {"Allow", "Block", "Redirect", "Log"}

MCCheckerSymmetry == Permutations(Checkers)
MCWriterSymmetry == Permutations(Writers)
=============================================================================
