------------------------------- MODULE MCRollout -------------------------------
(* Instances of ZooKeeperRollout for TLC; the bounds are in the configurations. *)
EXTENDS ZooKeeperRollout
=============================================================================
