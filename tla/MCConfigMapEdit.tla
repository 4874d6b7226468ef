--------------------------- MODULE MCConfigMapEdit ---------------------------
(***************************************************************************)
(* Instances of ConfigMapEdit for TLC: two items, one or two contents, one *)
(* address per request and one each for the cache and the next object.     *)
(***************************************************************************)
EXTENDS ConfigMapEdit, TLC

CONSTANTS r1, r2, r3, k1, k2, v1, v2, a1, a2, a3, a4

MCTwoRequests   == {r1, r2}
MCThreeRequests == {r1, r2, r3}
MCTwoAddrs      == {a1, a2}
MCThreeAddrs    == {a1, a2, a3}
MCFourAddrs     == {a1, a2, a3, a4}
MCOneKey        == {k1}
MCKeys          == {k1, k2}
MCOneValue      == {v1}
MCValues        == {v1, v2}

Symmetry == Permutations(Requests) \cup Permutations(Addrs)
=============================================================================
