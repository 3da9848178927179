---------------------------- MODULE MCDeployment ----------------------------
(* Small instances of Deployment for TLC: two containers, one of an older    *)
(* release.                                                                  *)
EXTENDS Deployment, TLC

CONSTANTS c1, c2

LatestOf == c1 :> 1 @@ c2 :> 2
=============================================================================
