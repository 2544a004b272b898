-------------------------- MODULE MCResourceLimits --------------------------
\* Instances of ResourceLimits for TLC.
EXTENDS ResourceLimits, TLC

Symmetry == Permutations(Handlers)
=============================================================================
