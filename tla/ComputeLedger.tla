--------------------------- MODULE ComputeLedger ---------------------------
(***************************************************************************)
(* What the Hub's compute ledger promises, without leases, tokens, fences, *)
(* processes or a clock.  Jobs wait, one at a time is owned, an intent is  *)
(* promised durably before the external invocation is launched, each job   *)
(* is launched at most once, a result is selected at most once and only    *)
(* for an owned job, and a closed job stays closed.                        *)
(***************************************************************************)
CONSTANT Jobs

VARIABLES
  stage,     \* life of a job
  promised,  \* jobs whose invocation intent is durable
  launched,  \* jobs whose external invocation was requested
  selected   \* jobs whose result was selected

ledgerVars == <<stage, promised, launched, selected>>

Stages == {"new", "waiting", "owned", "closed"}

Init ==
  /\ stage = [j \in Jobs |-> "new"]
  /\ promised = {}
  /\ launched = {}
  /\ selected = {}

Admit(j) ==
  /\ stage[j] = "new"
  /\ stage' = [stage EXCEPT ![j] = "waiting"]
  /\ UNCHANGED <<promised, launched, selected>>

Withdraw(j) ==
  /\ stage[j] = "waiting"
  /\ stage' = [stage EXCEPT ![j] = "closed"]
  /\ UNCHANGED <<promised, launched, selected>>

Take(j) ==
  /\ stage[j] = "waiting"
  /\ \A k \in Jobs : stage[k] # "owned"
  /\ stage' = [stage EXCEPT ![j] = "owned"]
  /\ UNCHANGED <<promised, launched, selected>>

Promise(j) ==
  /\ stage[j] = "owned"
  /\ j \notin promised
  /\ promised' = promised \cup {j}
  /\ UNCHANGED <<stage, launched, selected>>

Launch(j) ==
  /\ j \in promised \ launched
  /\ launched' = launched \cup {j}
  /\ UNCHANGED <<stage, promised, selected>>

Select(j) ==
  /\ stage[j] = "owned"
  /\ j \in launched
  /\ stage' = [stage EXCEPT ![j] = "closed"]
  /\ selected' = selected \cup {j}
  /\ UNCHANGED <<promised, launched>>

Close(j) ==
  /\ stage[j] = "owned"
  /\ stage' = [stage EXCEPT ![j] = "closed"]
  /\ UNCHANGED <<promised, launched, selected>>

Next == \E j \in Jobs : \/ Admit(j) \/ Withdraw(j) \/ Take(j) \/ Promise(j)
                        \/ Launch(j) \/ Select(j) \/ Close(j)

Spec == Init /\ [][Next]_ledgerVars
=============================================================================
