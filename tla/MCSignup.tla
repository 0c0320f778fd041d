------------------------------- MODULE MCSignup -------------------------------
EXTENDS Signup, TLC

CONSTANTS a1, a2, n1, n2, r1, r2, go, rust

\* A set that is known, and one of which a tag is not
MCTagSets == {{go}, {go, rust}}

Symmetry == Permutations(Addresses) \cup Permutations(Names) \cup Permutations(Requests)

=============================================================================
