----------------------------- MODULE MCLoginFlow -----------------------------
EXTENDS LoginFlow, TLC

Symmetry == Permutations(IPs) \cup Permutations(Logins)
=============================================================================
