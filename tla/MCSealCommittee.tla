--------------------------- MODULE MCSealCommittee ---------------------------
(* TLC instances of SealCommittee: three accounts, small rosters. *)
EXTENDS SealCommittee, TLC

CONSTANTS a1, a2, a3, p1, p2, p3, n1, n2, n3, c1, c2, c3, k1, k2, d1, d2

\* Vectors of length 2 and 3, so that the length check of propose_internal matters.
MCPartialPks == {<<p1, p2>>, <<p2, p1>>, <<p1, p2, p3>>}

\* One roster has a duplicate and one is a singleton; both must be refused.
MCRoster == {<<a1, a2>>, <<a3, a2>>, <<a1, a2, a3>>, <<a1, a1>>, <<a1>>}

\* In the rotation instance any account may ask for any name.
MCNamesOf == [a \in Address |-> Name]

MCRosterSmall == {<<a1, a2>>, <<a2, a1, a3>>}
MCPartialPksSmall == {<<p1, p2>>, <<p1, p2, p3>>}
MCNamesOfSmall == (a1 :> {n1}) @@ (a2 :> {n2}) @@ (a3 :> {n3})

Symm == Permutations({n1, n2, n3}) \cup Permutations({c1, c2, c3})
          \cup Permutations({k1, k2}) \cup Permutations({d1, d2})
=============================================================================
