----------------------------- MODULE MCManager -----------------------------
EXTENDS Manager, TLC
CONSTANTS v1, v2, c1, c2, p1, p2, p3, base, u1, u2, u3, u4

MCImages == {<<p1, base>>}
MCNames  == (VMs \X (1..MaxTarget + 1)) \cup {base}
MCVolName(v, n) == <<v, n>>

\* v2's name is that of v1's first extra disk: v2's clone is v1's volume 2.
CollidingName(v, n) == IF v = v2 /\ n = 1 THEN <<v1, 2>> ELSE <<v, n>>

Symmetry == Permutations(Uuids) \cup Permutations(Clients)
=============================================================================
