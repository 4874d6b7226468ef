----------------------------- MODULE MCWorkbench -----------------------------
(***************************************************************************)
(* An instance of Workbench for TLC: two of everything that can be chosen,   *)
(* a pod with one container and one with two, a cluster that cannot be       *)
(* edited, one request more than a user needs under way on every page,       *)
(* three downloads of two files, two requests to the proxy beside a watch,   *)
(* and two calls for the diffs of two pairs of profiles, one of them without *)
(* a difference.                                                             *)
(***************************************************************************)
EXTENDS Workbench, TLC

CONSTANTS east, west, m, p1, p2, app, side, web, home, heap, equal, differing

MCHasNamespace == {<<east, m>>, <<west, m>>}
MCContainersOf == p1 :> <<app, side>> @@ p2 :> <<app>>
MCWorkloadOf   == p1 :> web @@ p2 :> web
MCWorkDir      == <<home>>
MCNoSamples    == {<<equal, heap>>}

\* The clusters of the selects are interchangeable: no property tells them apart.
Symmetry == Permutations(Clusters)
=============================================================================
