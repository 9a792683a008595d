----------------------------- MODULE MCRecords ------------------------------
(* One model-checking instance of what is kept on record: the members and  *)
(* their computers, research reservations, and the recording of Human play *)
(* (MCHumanRecording).  The three share no state, and a desk chosen at the *)
(* start sees the operations of one of them, so that their interleavings   *)
(* do not multiply.                                                        *)
EXTENDS HubCuration, HubMembership, MCHumanRecording

CONSTANTS a, b, c, s1, s2, gold, merged, train, boss, other, old, fresh, f1, f2

\* The second batch of s2 holds the duplicate of the decision in s1.
RunOfDecision   == [d \in {a, b, c} |-> IF d = a THEN 1 ELSE 2]
PrintOfDecision == [d \in {a, b, c} |-> IF d = c THEN 2 ELSE 1]
Batches  == [s \in {s1, s2} |-> IF s = s1 THEN <<{a}>> ELSE <<{c}, {b}>>]
Purposes == [d \in {gold, merged, train} |->
               IF d = train THEN "training" ELSE "gold"]
Lineage  == [d \in {gold, merged, train} |->
               CASE d = gold -> {s1} [] d = merged -> {gold} [] OTHER -> {s1, s2}]
Roster   == [m \in {boss, other} |-> {old}]

FlowSymmetry == Permutations({f1, f2})

VARIABLE desk

Init ==
  /\ CurationInit
  /\ MembershipInit
  /\ RecordingInit
  /\ desk \in {"members", "training", "quality", "recording"}
  /\ desk # "recording" => cast = CHOOSE k \in CastTable : TRUE

Next ==
  /\ UNCHANGED desk
  /\ \/ /\ desk = "members" /\ MembershipNext
        /\ UNCHANGED <<curationVars, recordVars>>
     \/ /\ desk = "training" /\ CurationNext
        /\ UNCHANGED <<notes, memberVars, recordVars>>
     \/ /\ desk = "quality" /\ CurationNext
        /\ UNCHANGED <<user, memberVars, recordVars>>
     \/ /\ desk = "recording" /\ RecordingNext
        /\ UNCHANGED <<curationVars, memberVars>>

Spec == Init /\ [][Next]_<<curationVars, memberVars, recordVars, desk>>
=============================================================================
