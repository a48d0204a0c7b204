------------------------------ MODULE MCGateway ------------------------------
\* Three creation requests against a threshold of two: enough to trip while trips are pending
\* and to fail again after a restart.  Two requests and two syncs of one key: enough for each
\* to fall between the other's reads and writes.
EXTENDS Gateway, TLC

CONSTANTS r1, r2, s1, s2, a
MCRequests == {r1, r2}
MCSyncs == {s1, s2}
MCPlans == {a}
Symmetry == Permutations(MCRequests) \cup Permutations(MCSyncs)
=============================================================================
