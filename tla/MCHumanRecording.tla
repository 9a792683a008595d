-------------------------- MODULE MCHumanRecording --------------------------
(* Three inputs, cast as: two queued actions; a queued action beside a     *)
(* native task; and a button or another choice beside a choice in the      *)
(* selector of a queued action or of a task.                               *)
EXTENDS HumanRecording, TLC

CONSTANTS x, y, z

CastTable ==
  {(x :> "game" @@ y :> "game" @@ z :> "off"),
   (x :> "game" @@ y :> "task" @@ z :> "off"),
   (x :> "game" @@ y :> "ui" @@ z :> "choice"),
   (x :> "task" @@ y :> "ui" @@ z :> "choice"),
   (x :> "game" @@ y :> "choice" @@ z :> "choice"),
   (x :> "task" @@ y :> "choice" @@ z :> "choice")}
=============================================================================
