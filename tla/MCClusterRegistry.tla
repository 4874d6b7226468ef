-------------------------- MODULE MCClusterRegistry --------------------------
(***************************************************************************)
(* Instances of ClusterRegistry for TLC: a few requests, one name that is  *)
(* a kubeconfig context and one that is not, a content that does not build.*)
(***************************************************************************)
EXTENDS ClusterRegistry, TLC

CONSTANTS r1, r2, r3, cloud, laptop, good, other, broken

MCTwoRequests   == {r1, r2}
MCThreeRequests == {r1, r2, r3}
MCOneName       == {cloud}
MCNames         == {cloud, laptop}
MCLocal         == {laptop}
MCNoLocal       == {}
MCCfgs          == {good, broken}
MCThreeCfgs     == {good, other, broken}
MCTwoGood       == {good, other}
MCGood          == {good}

\* The requests are interchangeable: no property tells them apart.
Symmetry == Permutations(Requests)
=============================================================================
