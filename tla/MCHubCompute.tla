---------------------------- MODULE MCHubCompute ----------------------------
(* Model-checking instances of HubCompute.                                 *)
EXTENDS HubCompute, TLC

\* One reserved unit per job.
OneUnit == [j \in Jobs |-> 1]

\* Jobs differ only in the order in which they are enqueued.
JobSymmetry == Permutations(Jobs)
=============================================================================
