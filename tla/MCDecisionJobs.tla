---------------------------- MODULE MCDecisionJobs ----------------------------
(* Model-checking instances of DecisionJobs.                               *)
EXTENDS DecisionJobs

CONSTANTS j1, p1

\* No selection is cold, or the one of j1 needs a preparation batch.
Warm == [j \in Jobs |-> 0]
Cold == [j \in Jobs |-> IF j = j1 THEN 1 ELSE 0]

\* The automatic profile was completed before: j1 meets every fault.  Or it
\* is still to come and contends with j1 for the worker, without faults.
Alone ==
  /\ job = [j \in Jobs |-> IF j = p1
              THEN [NoRow EXCEPT !.state = "completed", !.attempt = 1,
                      !.phase = "completed", !.rowid = 1, !.by = 1]
              ELSE NoRow]
  /\ faults = 0
Sharing ==
  /\ job = [j \in Jobs |-> NoRow]
  /\ faults = MaxFaults

SceneInit ==
  /\ Alone \/ Sharing
  /\ cold = Batches
  /\ member = TRUE
  /\ published = {}
  /\ sup = SupAt("down", NoJob, 0)
  /\ work = [w \in Processes |-> NoProc]

SceneSpec == SceneInit /\ [][Next]_vars /\ Running
=============================================================================
