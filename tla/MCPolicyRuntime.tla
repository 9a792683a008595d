--------------------------- MODULE MCPolicyRuntime ---------------------------
(* Model-checking instances of PolicyRuntime.                               *)
EXTENDS PolicyRuntime

CONSTANTS rival, rivalRequest

AllClients == (1..MaxOwn) \cup Rivals
AllRequests == (1..MaxDecisions) \cup {rivalRequest}

Scene(start, asks, modes, decisions, snaps, hosts, others) ==
  [start |-> start, asks |-> asks, modes |-> modes, decisions |-> decisions,
   snaps |-> snaps, hosts |-> hosts, others |-> others]

\* People who command and take over; modes that stop by themselves; a rival
\* and repeated requests; a Host restarted under a playing runtime.
Takeover == Scene("human", 3, {"auto"}, 1, 0, 1, FALSE)
Steps    == Scene("one_step", 2, {"one_step", "shadow"}, 2, 1, 1, FALSE)
Rivalry  == Scene("auto", 0, {}, 1, 1, 1, TRUE)
Restart  == Scene("auto", 1, {"auto", "one_step"}, 2, 1, 2, FALSE)
AllScenes == {Takeover, Steps, Rivalry, Restart}
=============================================================================
