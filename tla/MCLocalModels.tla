---------------------------- MODULE MCLocalModels ----------------------------
(* A model-checking instance of LocalModels: five scenes, so that their     *)
(* commands, ends and recoveries do not multiply.                           *)
EXTENDS LocalModels

CONSTANTS r1, r2, Scenes

\* A Workbench that has loaded r1 or nothing, and how many operations, ends
\* and recoveries of the game's interface are left.
Scene(loaded, asks, ends, recoveries) ==
  [loaded |-> loaded, asks |-> asks, ends |-> ends, recoveries |-> recoveries]

\* Loading and its first command; three commands; two commands and a recovery
\* elsewhere; two across an end; a session that outlives two Workbenches.
First   == Scene(FALSE, 3, 1, 0)
Crowd   == Scene(TRUE, 3, 0, 0)
Elsewhere == Scene(TRUE, 2, 0, 1)
Broken  == Scene(TRUE, 2, 1, 0)
Lasting == Scene(TRUE, 1, 2, 0)
AllScenes == {First, Crowd, Elsewhere, Broken, Lasting}

Opening(s) ==
  /\ disk = [status |-> IF s.loaded THEN "loaded" ELSE "idle", prev |-> NoRun,
             startup |-> IF s.loaded THEN r1 ELSE Unnamed]
  /\ wb = IF s.loaded
          THEN [Opened(disk) EXCEPT !.status = "loaded", !.loaded = TRUE,
                  !.startup = r1, !.client = r1, !.process = r1, !.prev = NoRun]
          ELSE Opened(disk)
  /\ rt = [r \in Runs |->
             [life |-> IF s.loaded /\ r = r1 THEN "running" ELSE "none",
              epoch |-> 0, held |-> 0, recovered |-> 0, doubt |-> {}]]
  /\ ops = MaxOps - s.asks
  /\ faults = MaxFaults - s.ends
  /\ others = MaxOthers - s.recoveries

SceneInit ==
  /\ \E s \in Scenes : Opening(s)
  /\ th = [t \in Threads |-> IF t \in 1..ops THEN Done ELSE NoThread]
  /\ sender = 0
  /\ wire = [t \in Threads |-> NoRequest]

SceneSpec == SceneInit /\ [][Next]_vars /\ Fairness
=============================================================================
