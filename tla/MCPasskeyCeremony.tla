-------------------------- MODULE MCPasskeyCeremony --------------------------
EXTENDS PasskeyCeremony, TLC

CONSTANTS u1, u2, c1, c2, h1, h2, h3, r1, r2

Symmetry == Permutations(Users) \cup Permutations(Creds) \cup Permutations(Tokens) \cup Permutations(Requests)

=============================================================================
