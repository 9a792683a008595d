-------------------------- MODULE HubComputeProofs --------------------------
(***************************************************************************)
(* IInv is inductive, hence the safety properties of HubCompute hold for   *)
(* any number of jobs, targets, seconds and faults.                        *)
(***************************************************************************)
EXTENDS HubCompute, FiniteSetTheorems, TLAPS

USE ConstantsOK

-----------------------------------------------------------------------------
(* Records: what the updates of the actions keep.                          *)

LEMMA RowUpdate ==
  ASSUME NEW r \in Row, NEW s \in Statuses, NEW n \in Nat
  PROVE  /\ [r EXCEPT !.status = s] \in Row
         /\ [r EXCEPT !.status = s, !.lease = n] \in Row
         /\ [r EXCEPT !.lease = n, !.status = s] \in Row
         /\ [r EXCEPT !.status = s, !.rowid = n] \in Row
         /\ [r EXCEPT !.until = n] \in Row
         /\ [r EXCEPT !.ref = TRUE] \in Row
  BY DEF Row

LEMMA RowResult ==
  ASSUME NEW r \in Row, NEW s \in Statuses,
         NEW x \in {"none", "preflight", "cancelled"} \cup Receipts
  PROVE  [r EXCEPT !.status = s, !.result = x] \in Row
  BY DEF Row

LEMMA LocalsGoto ==
  ASSUME NEW p \in PCs, sch \in Locals, sch' = [sch EXCEPT !.pc = p]
  PROVE  sch' \in Locals /\ sch'.pc = p /\ sch'.job = sch.job
         /\ sch'.receipt = sch.receipt
  BY DEF Locals

LEMMA LocalsAfter ==
  ASSUME NEW p \in PCs, NEW a \in {"idle", "poll", "uncertain"}, sch \in Locals,
         sch' = [sch EXCEPT !.pc = p, !.after = a]
  PROVE  sch' \in Locals /\ sch'.pc = p /\ sch'.job = sch.job
  BY DEF Locals

LEMMA LocalsAt ==
  ASSUME NEW p \in PCs, sch' = At(p)
  PROVE  sch' \in Locals /\ sch'.pc = p
  BY DEF At, Locals, Statuses

\* In the body of a tick the row is that of a claimed job.
LEMMA InBody ==
  ASSUME IInv, sch.pc \in BodyPCs
  PROVE  /\ J \in Jobs /\ job[J] \in Row /\ att[J] \in Attempt
         /\ job[J].status \in Active \cup Settled
         /\ sch \in Locals
  BY DEF IInv, TypeOK, BodyOK, J, Row, Statuses

-----------------------------------------------------------------------------
(* One lemma per action of HubCompute.                                     *)

LEMMA EnqueueStep == ASSUME NEW j0 \in Jobs, IInv, Enqueue(j0) PROVE IInv'
  <1> USE DEF IInv, Enqueue, env, ext
  <1>a. job[j0] \in Row /\ Cardinality(Enqueued) + 1 \in Nat
    <2>1. IsFiniteSet(Enqueued)
      BY FS_Subset DEF Enqueued, ConstantsOK
    <2>2. Cardinality(Enqueued) \in Nat
      BY <2>1, FS_CardinalityType
    <2> QED BY <2>2 DEF TypeOK
  <1>1. TypeOK'
    BY <1>a, RowUpdate DEF TypeOK, Statuses, Active, Settled
  <1>2. BodyOK' /\ TickOK'
    BY DEF TypeOK, BodyOK, TickOK, Row, Attempt, Calls, Receipts, Statuses, Active, Settled
  <1>3. OneOwned'
    BY DEF OneOwned, Owned, TypeOK, Row, Attempt, Calls, Receipts, Statuses, Active, Settled
  <1>4. (\A j \in Jobs : AttemptOK(j) /\ HandleOK(j) /\ SettleOK(j))'
    BY DEF AttemptOK, HandleOK, SettleOK, Owned, TypeOK, Row, Attempt, Calls, Receipts, Statuses, Active, Settled
  <1> QED BY <1>1, <1>2, <1>3, <1>4

LEMMA CancelStep == ASSUME NEW j0 \in Jobs, IInv, Cancel(j0) PROVE IInv'
  <1> USE DEF IInv, Cancel, CancelStatus, env, ext
  <1>a. job[j0] \in Row /\ CancelStatus(job[j0].status) \in Statuses
    BY DEF TypeOK, Row, Statuses, Settled, Active
  <1>1. TypeOK'
    BY <1>a, RowUpdate DEF TypeOK
  <1>2. BodyOK' /\ TickOK'
    BY DEF TypeOK, BodyOK, TickOK, Row, Attempt, Calls, Receipts, Statuses, Active, Settled
  <1>3. OneOwned'
    BY DEF OneOwned, Owned, TypeOK, Row, Attempt, Calls, Receipts, Statuses, Active, Settled
  <1>4. (\A j \in Jobs : AttemptOK(j) /\ HandleOK(j) /\ SettleOK(j))'
    BY DEF AttemptOK, HandleOK, SettleOK, Owned, TypeOK, Row, Attempt, Calls, Receipts, Statuses, Active, Settled
  <1> QED BY <1>1, <1>2, <1>3, <1>4

LEMMA CancelElapsedStep == ASSUME IInv, CancelElapsed PROVE IInv'
  <1> USE DEF IInv, CancelElapsed, CancelStatus, env, ext
  <1>b. J \in Jobs /\ job[J] \in Row /\ att[J] \in Attempt /\ sch \in Locals
        /\ job[J].status \in Active \cup Settled
    BY InBody DEF BodyPCs, PCs
  <1>a. CancelStatus(job[J].status) \in Statuses
    BY <1>b DEF Row, Statuses, Settled, Active
  <1>g. sch' \in Locals /\ sch'.pc = "begin" /\ sch'.job = sch.job
    BY <1>b, LocalsGoto DEF Goto, PCs
  <1>1. TypeOK'
    BY <1>a, <1>b, <1>g, RowUpdate DEF TypeOK
  <1>2. BodyOK' /\ TickOK'
    BY <1>b, <1>g DEF TypeOK, BodyOK, TickOK, J, Row, Attempt, Calls, Receipts, Statuses, Active, Settled
  <1>3. OneOwned'
    BY <1>b DEF OneOwned, Owned, TypeOK, Row, Attempt, Calls, Receipts, Statuses, Active, Settled
  <1>4. (\A j \in Jobs : AttemptOK(j) /\ HandleOK(j) /\ SettleOK(j))'
    BY <1>b DEF AttemptOK, HandleOK, SettleOK, Owned, TypeOK, Row, Attempt, Calls, Receipts, Statuses, Active, Settled
  <1> QED BY <1>1, <1>2, <1>3, <1>4

LEMMA ReconcileStep == ASSUME NEW j0 \in Jobs, IInv, ReconcileStopped(j0) PROVE IInv'
  <1> USE DEF IInv, ReconcileStopped, StopEvidence, env, ext
  <1>a. job[j0] \in Row
    BY DEF TypeOK
  <1>1. TypeOK'
    BY <1>a, RowUpdate DEF TypeOK, Statuses, Active, Settled
  <1>2. BodyOK' /\ TickOK'
    BY DEF TypeOK, BodyOK, TickOK, Row, Attempt, Calls, Receipts, Statuses, Active, Settled
  <1>3. OneOwned'
    BY DEF OneOwned, Owned, TypeOK, Row, Attempt, Calls, Receipts, Statuses, Active, Settled
  <1>4. (\A j \in Jobs : AttemptOK(j) /\ HandleOK(j) /\ SettleOK(j))'
    BY DEF AttemptOK, HandleOK, SettleOK, Owned, TypeOK, Row, Attempt, Calls, Receipts, Statuses, Active, Settled
  <1> QED BY <1>1, <1>2, <1>3, <1>4

LEMMA ExpireStep == ASSUME IInv, Expire PROVE IInv'
  <1> USE DEF IInv, Expire, env, ext
  <1>g. sch' \in Locals /\ sch'.pc = "read"
    BY LocalsGoto DEF Goto, PCs, TypeOK
  <1>a. \A j \in Jobs : job[j] \in Row /\ [job[j] EXCEPT !.status = "uncertain"] \in Row
    BY RowUpdate DEF TypeOK, Statuses, Active, Settled
  <1>1. TypeOK'
    BY <1>a, <1>g DEF TypeOK
  <1>2. BodyOK' /\ TickOK'
    BY <1>g DEF TypeOK, BodyOK, TickOK, BodyPCs
  <1>3. OneOwned'
    BY DEF OneOwned, Owned, TypeOK, Row, Attempt, Calls, Receipts, Statuses, Active, Settled
  <1>4. (\A j \in Jobs : AttemptOK(j) /\ HandleOK(j) /\ SettleOK(j))'
    BY DEF AttemptOK, HandleOK, SettleOK, Owned, TypeOK, Row, Attempt, Calls, Receipts, Statuses, Active, Settled
  <1> QED BY <1>1, <1>2, <1>3, <1>4

LEMMA FailBeforeStep == ASSUME IInv, FailBeforeCompute PROVE IInv'
  <1> USE DEF IInv, FailBeforeCompute, EndTick, env, ext
  <1>b. J \in Jobs /\ job[J] \in Row /\ att[J] \in Attempt /\ sch \in Locals
        /\ job[J].status \in Active \cup Settled
    BY InBody DEF BodyPCs, PCs
  <1>i. sch' \in Locals /\ sch'.pc = "idle"
    BY LocalsAt DEF PCs
  <1>1. TypeOK'
    BY <1>b, <1>i, RowResult DEF TypeOK, Statuses, Active, Settled
  <1>2. BodyOK' /\ TickOK'
    BY <1>i DEF TypeOK, BodyOK, TickOK, BodyPCs
  <1>3. OneOwned'
    BY <1>b DEF OneOwned, Owned, TypeOK, Row, Attempt, Calls, Receipts, Statuses, Active, Settled
  <1>4. (\A j \in Jobs : AttemptOK(j) /\ HandleOK(j) /\ SettleOK(j))'
    BY <1>b DEF AttemptOK, HandleOK, SettleOK, Owned, Live, TypeOK, Row, Attempt, Calls, Receipts, Statuses, Active, Settled
  <1> QED BY <1>1, <1>2, <1>3, <1>4

LEMMA UncertainStep == ASSUME IInv, ComputeUncertain PROVE IInv'
  <1> USE DEF IInv, ComputeUncertain, EndTick, env, ext
  <1>b. J \in Jobs /\ job[J] \in Row /\ att[J] \in Attempt /\ sch \in Locals
        /\ job[J].status \in Active \cup Settled
    BY InBody DEF BodyPCs, PCs
  <1>i. sch' \in Locals /\ sch'.pc = "idle"
    BY LocalsAt DEF PCs
  <1>1. TypeOK'
    BY <1>b, <1>i, RowUpdate DEF TypeOK, Statuses, Active, Settled
  <1>2. BodyOK' /\ TickOK'
    BY <1>i DEF TypeOK, BodyOK, TickOK, BodyPCs
  <1>3. OneOwned'
    BY <1>b DEF OneOwned, Owned, TypeOK, Row, Attempt, Calls, Receipts, Statuses, Active, Settled
  <1>4. (\A j \in Jobs : AttemptOK(j) /\ HandleOK(j) /\ SettleOK(j))'
    BY <1>b DEF AttemptOK, HandleOK, SettleOK, Owned, TypeOK, Row, Attempt, Calls, Receipts, Statuses, Active, Settled
  <1> QED BY <1>1, <1>2, <1>3, <1>4

LEMMA HeartbeatStep == ASSUME IInv, Heartbeat PROVE IInv'
  <1> USE DEF IInv, Heartbeat, EndTick, env, ext
  <1>b. J \in Jobs /\ job[J] \in Row /\ att[J] \in Attempt /\ sch \in Locals
        /\ job[J].status \in Active \cup Settled
    BY InBody DEF BodyPCs, PCs
  <1>i. sch' \in Locals /\ sch'.pc = "idle"
    BY LocalsAt DEF PCs
  <1>a. Least(sch.now + LeaseSeconds, job[J].deadline) \in Nat
    BY <1>b DEF Least, Row, Locals
  <1>1. TypeOK'
    BY <1>a, <1>b, <1>i, RowUpdate DEF TypeOK, Statuses, Active, Settled
  <1>2. BodyOK' /\ TickOK'
    BY <1>i DEF TypeOK, BodyOK, TickOK, BodyPCs
  <1>3. OneOwned'
    BY <1>b DEF OneOwned, Owned, TypeOK, Row, Attempt, Calls, Receipts, Statuses, Active, Settled
  <1>4. (\A j \in Jobs : AttemptOK(j) /\ HandleOK(j) /\ SettleOK(j))'
    BY <1>b DEF AttemptOK, HandleOK, SettleOK, Owned, TypeOK, Row, Attempt, Calls, Receipts, Statuses, Active, Settled
  <1> QED BY <1>1, <1>2, <1>3, <1>4

LEMMA PauseStep == ASSUME NEW value \in BOOLEAN, IInv, Pause(value) PROVE IInv'
  <1> USE DEF IInv, Pause, env, ext
  <1>1. TypeOK'
    BY DEF TypeOK
  <1>2. BodyOK' /\ TickOK'
    BY DEF TypeOK, BodyOK, TickOK
  <1>3. OneOwned'
    BY DEF OneOwned, Owned
  <1>4. (\A j \in Jobs : AttemptOK(j) /\ HandleOK(j) /\ SettleOK(j))'
    BY DEF AttemptOK, HandleOK, SettleOK, Owned
  <1> QED BY <1>1, <1>2, <1>3, <1>4

LEMMA TickStep == ASSUME IInv, Tick PROVE IInv'
  <1> USE DEF IInv, Tick, table, env, ext
  <1>g. sch' \in Locals /\ sch'.pc \in {"idle", "expire"}
    BY DEF At, Locals, PCs, Statuses, TypeOK
  <1>1. TypeOK'
    BY <1>g DEF TypeOK
  <1>2. BodyOK' /\ TickOK'
    BY <1>g DEF TypeOK, BodyOK, TickOK, BodyPCs
  <1>3. OneOwned'
    BY DEF OneOwned, Owned
  <1>4. (\A j \in Jobs : AttemptOK(j) /\ HandleOK(j) /\ SettleOK(j))'
    BY DEF AttemptOK, HandleOK, SettleOK, Owned
  <1> QED BY <1>1, <1>2, <1>3, <1>4

LEMMA ReadJobsStep == ASSUME IInv, ReadJobs PROVE IInv'
  <1> USE DEF IInv, ReadJobs, table, env, ext
  <1>g. /\ sch' \in Locals
        /\ \/ sch'.pc \in {"idle", "claim"}
           \/ sch'.pc = "token" /\ sch'.job \in ActiveJobs
    <2>1. CASE \E j \in ActiveJobs : sch' = ReadRow(job[j], j, "token")
      <3> PICK j \in ActiveJobs : sch' = ReadRow(job[j], j, "token")
        BY <2>1
      <3>1. j \in Jobs /\ job[j] \in Row
        BY DEF ActiveJobs, TypeOK
      <3> QED
        BY <3>1 DEF ReadRow, Row, Locals, PCs, TypeOK
    <2>2. CASE sch' = At("idle") \/ sch' = [sch EXCEPT !.pc = "claim"]
      BY <2>2, LocalsAt, LocalsGoto DEF PCs, TypeOK
    <2> QED
      BY <2>1, <2>2 DEF EndTick
  <1>1. TypeOK'
    BY <1>g DEF TypeOK
  <1>2. BodyOK' /\ TickOK'
    BY <1>g DEF TypeOK, BodyOK, TickOK, ActiveJobs, Active, BodyPCs
  <1>3. OneOwned'
    BY DEF OneOwned, Owned
  <1>4. (\A j \in Jobs : AttemptOK(j) /\ HandleOK(j) /\ SettleOK(j))'
    BY DEF AttemptOK, HandleOK, SettleOK, Owned
  <1> QED BY <1>1, <1>2, <1>3, <1>4

LEMMA PreflightStep == ASSUME IInv, Preflight PROVE IInv'
  <1> USE DEF IInv, Preflight, table, env, ext
  <1>b. J \in Jobs /\ job[J] \in Row /\ att[J] \in Attempt /\ sch \in Locals
        /\ job[J].status \in Active \cup Settled
    BY InBody DEF BodyPCs, PCs
  <1>g. sch' \in Locals /\ sch'.pc \in {"prepare", "reject"} /\ sch'.job = sch.job
    BY LocalsGoto DEF Goto, PCs, TypeOK
  <1>1. TypeOK'
    BY <1>g DEF TypeOK
  <1>2. BodyOK' /\ TickOK'
    BY <1>b, <1>g DEF TypeOK, BodyOK, TickOK, J, BodyPCs, PCs
  <1>3. OneOwned'
    BY DEF OneOwned, Owned
  <1>4. (\A j \in Jobs : AttemptOK(j) /\ HandleOK(j) /\ SettleOK(j))'
    BY DEF AttemptOK, HandleOK, SettleOK, Owned
  <1> QED BY <1>1, <1>2, <1>3, <1>4

LEMMA ReadAttemptStep == ASSUME IInv, ReadAttempt PROVE IInv'
  <1> USE DEF IInv, ReadAttempt, table, env, ext
  <1>b. J \in Jobs /\ job[J] \in Row /\ att[J] \in Attempt /\ sch \in Locals
        /\ job[J].status \in Active \cup Settled
    BY InBody DEF BodyPCs, PCs
  <1>g. sch' \in Locals /\ sch'.pc \in {"uncertain", "begin", "poll"} /\ sch'.job = sch.job
    BY LocalsGoto, LocalsAfter DEF PCs, TypeOK
  <1>1. TypeOK'
    BY <1>g DEF TypeOK
  <1>2. BodyOK' /\ TickOK'
    BY <1>b, <1>g DEF TypeOK, BodyOK, TickOK, J, BodyPCs, PCs
  <1>3. OneOwned'
    BY DEF OneOwned, Owned
  <1>4. (\A j \in Jobs : AttemptOK(j) /\ HandleOK(j) /\ SettleOK(j))'
    BY DEF AttemptOK, HandleOK, SettleOK, Owned
  <1> QED BY <1>1, <1>2, <1>3, <1>4

LEMMA PollReceiptStep == ASSUME IInv, PollReceipt PROVE IInv'
  <1> USE DEF IInv, PollReceipt, table, env, ext
  <1>b. J \in Jobs /\ job[J] \in Row /\ att[J] \in Attempt /\ sch \in Locals
        /\ job[J].status \in Active \cup Settled
    BY InBody DEF BodyPCs, PCs
  <1>g. sch' \in Locals /\ sch'.pc = "accept" /\ sch'.job = sch.job /\ sch'.receipt = call[J]
    BY <1>b DEF Locals, PCs, TypeOK
  <1>1. TypeOK'
    BY <1>g DEF TypeOK
  <1>2. BodyOK' /\ TickOK'
    BY <1>b, <1>g DEF TypeOK, BodyOK, TickOK, J, BodyPCs, PCs
  <1>3. OneOwned'
    BY DEF OneOwned, Owned
  <1>4. (\A j \in Jobs : AttemptOK(j) /\ HandleOK(j) /\ SettleOK(j))'
    BY DEF AttemptOK, HandleOK, SettleOK, Owned
  <1> QED BY <1>1, <1>2, <1>3, <1>4

LEMMA PollPendingStep == ASSUME IInv, PollPending PROVE IInv'
  <1> USE DEF IInv, PollPending, table, env, ext
  <1>b. J \in Jobs /\ job[J] \in Row /\ att[J] \in Attempt /\ sch \in Locals
        /\ job[J].status \in Active \cup Settled
    BY InBody DEF BodyPCs, PCs
  <1>g. sch' \in Locals /\ (sch'.pc = "idle" \/ (sch'.pc \in {"cancel", "heartbeat"} /\ sch'.job = sch.job))
    <2>1. \/ sch' = [sch EXCEPT !.pc = "cancel", !.after = "idle"]
          \/ sch' = [sch EXCEPT !.pc = "heartbeat"]
          \/ sch' = At("idle")
      OBVIOUS
    <2> HIDE DEF PollPending
    <2>2. CASE sch' = [sch EXCEPT !.pc = "cancel", !.after = "idle"]
      BY <1>b, <2>2, LocalsAfter DEF PCs
    <2>3. CASE sch' = [sch EXCEPT !.pc = "heartbeat"]
      BY <1>b, <2>3, LocalsGoto DEF PCs
    <2>4. CASE sch' = At("idle")
      <3>1. "idle" \in PCs
        BY DEF PCs
      <3> QED BY <2>4, <3>1, LocalsAt
    <2> QED BY <2>1, <2>2, <2>3, <2>4
  <1>1. TypeOK'
    BY <1>g DEF TypeOK
  <1>2. BodyOK' /\ TickOK'
    BY <1>b, <1>g DEF TypeOK, BodyOK, TickOK, J, BodyPCs, PCs
  <1>3. OneOwned'
    BY DEF OneOwned, Owned
  <1>4. (\A j \in Jobs : AttemptOK(j) /\ HandleOK(j) /\ SettleOK(j))'
    BY DEF AttemptOK, HandleOK, SettleOK, Owned
  <1> QED BY <1>1, <1>2, <1>3, <1>4

LEMMA PollFailedStep == ASSUME IInv, PollFailed PROVE IInv'
  <1> USE DEF IInv, PollFailed, ResultUncertain, table, env, ext
  <1>b. J \in Jobs /\ job[J] \in Row /\ att[J] \in Attempt /\ sch \in Locals
        /\ job[J].status \in Active \cup Settled
    BY InBody DEF BodyPCs, PCs
  <1>g. sch' \in Locals /\ sch'.pc \in {"cancel", "uncertain"} /\ sch'.job = sch.job
    BY LocalsGoto, LocalsAfter DEF PCs, TypeOK
  <1>1. TypeOK'
    BY <1>g DEF TypeOK
  <1>2. BodyOK' /\ TickOK'
    BY <1>b, <1>g DEF TypeOK, BodyOK, TickOK, J, BodyPCs, PCs
  <1>3. OneOwned'
    BY DEF OneOwned, Owned
  <1>4. (\A j \in Jobs : AttemptOK(j) /\ HandleOK(j) /\ SettleOK(j))'
    BY DEF AttemptOK, HandleOK, SettleOK, Owned
  <1> QED BY <1>1, <1>2, <1>3, <1>4

LEMMA StartStep == ASSUME IInv, Start PROVE IInv'
  <1> USE DEF IInv, Start, table, env, ext
  <1>i. sch' \in Locals /\ sch'.pc = "idle"
    BY LocalsAt DEF PCs
  <1>1. TypeOK'
    BY <1>i DEF TypeOK
  <1>2. BodyOK' /\ TickOK'
    BY <1>i DEF TypeOK, BodyOK, TickOK, BodyPCs
  <1>3. OneOwned'
    BY DEF OneOwned, Owned
  <1>4. (\A j \in Jobs : AttemptOK(j) /\ HandleOK(j) /\ SettleOK(j))'
    BY DEF AttemptOK, HandleOK, SettleOK, Owned
  <1> QED BY <1>1, <1>2, <1>3, <1>4

LEMMA CrashStep == ASSUME IInv, Crash PROVE IInv'
  <1> USE DEF IInv, Crash, table, ext
  <1>i. sch' \in Locals /\ sch'.pc = "down"
    BY LocalsAt DEF PCs
  <1>1. TypeOK'
    BY <1>i DEF TypeOK
  <1>2. BodyOK' /\ TickOK'
    BY <1>i DEF TypeOK, BodyOK, TickOK, BodyPCs
  <1>3. OneOwned'
    BY DEF OneOwned, Owned
  <1>4. (\A j \in Jobs : AttemptOK(j) /\ HandleOK(j) /\ SettleOK(j))'
    BY DEF AttemptOK, HandleOK, SettleOK, Owned
  <1> QED BY <1>1, <1>2, <1>3, <1>4

LEMMA RaisesStep == ASSUME IInv, TickRaises PROVE IInv'
  <1> USE DEF IInv, TickRaises, EndTick, table, ext
  <1>i. sch' \in Locals /\ sch'.pc = "idle"
    BY LocalsAt DEF PCs
  <1>1. TypeOK'
    BY <1>i DEF TypeOK
  <1>2. BodyOK' /\ TickOK'
    BY <1>i DEF TypeOK, BodyOK, TickOK, BodyPCs
  <1>3. OneOwned'
    BY DEF OneOwned, Owned
  <1>4. (\A j \in Jobs : AttemptOK(j) /\ HandleOK(j) /\ SettleOK(j))'
    BY DEF AttemptOK, HandleOK, SettleOK, Owned
  <1> QED BY <1>1, <1>2, <1>3, <1>4

LEMMA TimeStep == ASSUME IInv, TimePasses PROVE IInv'
  <1> USE DEF IInv, TimePasses, table, ext
  <1>1. TypeOK'
    BY DEF TypeOK
  <1>2. BodyOK' /\ TickOK'
    BY DEF TypeOK, BodyOK, TickOK
  <1>3. OneOwned'
    BY DEF OneOwned, Owned
  <1>4. (\A j \in Jobs : AttemptOK(j) /\ HandleOK(j) /\ SettleOK(j))'
    BY DEF AttemptOK, HandleOK, SettleOK, Owned
  <1> QED BY <1>1, <1>2, <1>3, <1>4

LEMMA CallEndsStep == ASSUME NEW j0 \in Jobs, IInv, CallEnds(j0) PROVE IInv'
  <1> USE DEF IInv, CallEnds, table, env
  <1>1. TypeOK'
    BY DEF TypeOK, Calls, Receipts
  <1>2. BodyOK' /\ TickOK'
    BY DEF TypeOK, BodyOK, TickOK, Calls, Receipts
  <1>3. OneOwned'
    BY DEF OneOwned, Owned
  <1>4. (\A j \in Jobs : AttemptOK(j) /\ HandleOK(j) /\ SettleOK(j))'
    BY DEF AttemptOK, HandleOK, SettleOK, Owned, TypeOK, Calls, Receipts, Row
  <1> QED BY <1>1, <1>2, <1>3, <1>4

LEMMA PrepareStep == ASSUME IInv, PrepareCompute PROVE IInv'
  <1> USE DEF IInv, PrepareCompute, env, ext
  <1>b. J \in Jobs /\ job[J] \in Row /\ att[J] \in Attempt /\ sch \in Locals
        /\ job[J].status \in Active \cup Settled
    BY InBody DEF BodyPCs, PCs
  <1> DEFINE n == [NoAttempt EXCEPT !.phase = "submitting",
                                    !.fence = job[J].fence, !.target = target]
  <1>n. /\ n \in Attempt /\ n.phase = "submitting" /\ ~n.handle
        /\ n.cancel = "none" /\ n.fence = job[J].fence
    BY <1>b DEF NoAttempt, Attempt, Row, TypeOK
  <1>g. /\ sch' \in Locals
        /\ \/ sch'.pc = "idle" /\ att' = att
           \/ /\ sch'.pc = "submit" /\ sch'.job = sch.job
              /\ job[J].status = "running" /\ att[J].phase = "none"
              /\ att' = [att EXCEPT ![J] = n]
    BY <1>b, LocalsGoto, LocalsAt DEF Goto, EndTick, PCs, Live
  <1>u. UNCHANGED <<job, paused, mem, target, tokens, clock, faults, call, spawns, cancels>>
    OBVIOUS
  <1> HIDE DEF n, PrepareCompute
  <1>1. TypeOK'
    BY <1>b, <1>n, <1>g, <1>u DEF TypeOK
  <1>2. BodyOK' /\ TickOK'
    BY <1>b, <1>n, <1>g, <1>u DEF TypeOK, BodyOK, TickOK, J, BodyPCs, PCs, AttemptOK
  <1>3. OneOwned'
    BY <1>u DEF OneOwned, Owned
  <1>t. att \in [Jobs -> Attempt]
    BY DEF TypeOK
  <1>o. \A j \in Jobs : AttemptOK(j) /\ HandleOK(j) /\ SettleOK(j)
    OBVIOUS
  <1>4. (\A j \in Jobs : AttemptOK(j) /\ HandleOK(j) /\ SettleOK(j))'
    <2> SUFFICES ASSUME NEW j \in Jobs
                 PROVE  (AttemptOK(j) /\ HandleOK(j) /\ SettleOK(j))'
      OBVIOUS
    <2> HIDE DEF IInv
    <2>1. \/ att'[j] = att[j]
          \/ /\ j = J /\ job[j].status = "running" /\ att[j].phase = "none"
             /\ att'[j].phase = "submitting" /\ ~att'[j].handle
             /\ att'[j].fence = job[j].fence
      BY <1>b, <1>g, <1>n, <1>t
    <2>2. att'[j] # att[j] => spawns[j] = 0 /\ call[j] = "none" /\ cancels[j] =< 1
                              /\ cancels[j] = 0
      BY <1>o, <2>1 DEF AttemptOK
    <2> QED
      BY <1>o, <1>u, <2>1, <2>2 DEF AttemptOK, HandleOK, SettleOK, Owned,
         Settled, Receipts
  <1> QED BY <1>1, <1>2, <1>3, <1>4

LEMMA SubmitStep == ASSUME IInv, Submit PROVE IInv'
  <1> USE DEF IInv, Submit, table, env
  <1>b. J \in Jobs /\ job[J] \in Row /\ att[J] \in Attempt /\ sch \in Locals
        /\ job[J].status \in Active \cup Settled
    BY InBody DEF BodyPCs, PCs
  <1>g. /\ sch' \in Locals /\ sch'.pc \in {"bind", "uncertain"} /\ sch'.job = sch.job
        /\ \/ Spawned
           \/ UNCHANGED ext /\ sch'.pc = "uncertain"
    BY <1>b, LocalsGoto DEF Goto, PCs
  <1>s. att[J].phase = "submitting" /\ spawns[J] = 0
    BY DEF TickOK, J
  <1>1. TypeOK'
    BY <1>b, <1>g DEF TypeOK, Spawned, ext, Calls
  <1>2. BodyOK' /\ TickOK'
    BY <1>b, <1>g, <1>s DEF TypeOK, BodyOK, TickOK, Spawned, ext, J, BodyPCs, PCs
  <1>3. OneOwned'
    BY DEF OneOwned, Owned
  <1>4. (\A j \in Jobs : AttemptOK(j) /\ HandleOK(j) /\ SettleOK(j))'
    BY <1>b, <1>g, <1>s DEF AttemptOK, HandleOK, SettleOK, Owned, TypeOK, Spawned, ext, Row, Receipts, Statuses, Settled, Active
  <1> QED BY <1>1, <1>2, <1>3, <1>4

LEMMA BindStep == ASSUME IInv, BindComputeHandle PROVE IInv'
  <1> USE DEF IInv, BindComputeHandle, EndTick, env, ext
  <1>b. J \in Jobs /\ job[J] \in Row /\ att[J] \in Attempt /\ sch \in Locals
        /\ job[J].status \in Active \cup Settled
    BY InBody DEF BodyPCs, PCs
  <1>i. sch' \in Locals /\ sch'.pc = "idle"
    BY LocalsAt DEF PCs
  <1>s. spawns[J] = 1
    BY DEF TickOK, J
  <1>a. /\ [att[J] EXCEPT !.handle = TRUE, !.phase = "submitted"] \in Attempt
        /\ [job[J] EXCEPT !.ref = TRUE] \in Row
    BY <1>b DEF Attempt, Row
  <1>c. \/ UNCHANGED <<job, att>>
        \/ /\ job[J].status \in Active /\ att[J].phase # "none"
           /\ job' = [job EXCEPT ![J] = [@ EXCEPT !.ref = TRUE]]
           /\ att' = [att EXCEPT ![J] = [@ EXCEPT !.handle = TRUE, !.phase = "submitted"]]
    BY <1>b DEF TypeOK
  <1>u. UNCHANGED <<paused, mem, target, tokens, clock, faults, call, spawns, cancels>>
    OBVIOUS
  <1>t. job \in [Jobs -> Row] /\ att \in [Jobs -> Attempt]
    BY DEF TypeOK
  <1>o. \A j \in Jobs : AttemptOK(j) /\ HandleOK(j) /\ SettleOK(j)
    OBVIOUS
  <1>1. TypeOK'
    BY <1>a, <1>b, <1>i DEF TypeOK
  <1>2. BodyOK' /\ TickOK'
    BY <1>i DEF TypeOK, BodyOK, TickOK, BodyPCs
  <1>3. OneOwned'
    BY <1>b DEF OneOwned, Owned, TypeOK, Row, Attempt, Calls, Receipts, Statuses, Active, Settled
  <1>4. (\A j \in Jobs : AttemptOK(j) /\ HandleOK(j) /\ SettleOK(j))'
    <2> SUFFICES ASSUME NEW j \in Jobs
                 PROVE  (AttemptOK(j) /\ HandleOK(j) /\ SettleOK(j))'
      OBVIOUS
    <2> HIDE DEF IInv, BindComputeHandle
    <2>1. /\ job'[j].status = job[j].status /\ job'[j].result = job[j].result
          /\ job'[j].fence = job[j].fence
      BY <1>b, <1>c, <1>t DEF Row
    <2>2. \/ att'[j] = att[j]
          \/ /\ j = J /\ att'[j].phase = "submitted" /\ att'[j].handle
             /\ att[j].phase # "none"
             /\ att'[j].fence = att[j].fence /\ att'[j].cancel = att[j].cancel
             /\ job[j].status \in Active
      <3>1. CASE j # J
        BY <1>b, <1>c, <1>t, <3>1
      <3>2. CASE j = J
        <4>1. \/ att'[J] = att[J]
              \/ /\ att'[J] = [att[J] EXCEPT !.handle = TRUE, !.phase = "submitted"]
                 /\ job[J].status \in Active /\ att[J].phase # "none"
          BY <1>b, <1>c, <1>t
        <4>2. CASE att'[J] = att[J]
          BY <3>2, <4>2
        <4>3. CASE /\ att'[J] = [att[J] EXCEPT !.handle = TRUE, !.phase = "submitted"]
                   /\ job[J].status \in Active /\ att[J].phase # "none"
          <5>1. att'[J].phase = "submitted" /\ att'[J].fence = att[J].fence
                /\ att'[J].cancel = att[J].cancel
            BY <1>b, <4>3 DEF Attempt
          <5>2. att'[J].handle
            BY <1>b, <4>3 DEF Attempt
          <5> QED BY <3>2, <4>3, <5>1, <5>2
        <4> QED BY <4>1, <4>2, <4>3
      <3> QED BY <3>1, <3>2
    <2> QED
      BY <1>b, <1>o, <1>s, <1>u, <2>1, <2>2
         DEF AttemptOK, HandleOK, SettleOK, Owned, Active, Settled, Receipts
  <1> QED BY <1>1, <1>2, <1>3, <1>4

LEMMA RecoverStep == ASSUME IInv, RecoverCompute PROVE IInv'
  <1> USE DEF IInv, RecoverCompute, env, ext
  <1>b. J \in Jobs /\ job[J] \in Row /\ att[J] \in Attempt /\ sch \in Locals
        /\ job[J].status \in Active \cup Settled
    BY InBody DEF BodyPCs, PCs
  <1>g. /\ sch' \in Locals
        /\ \/ sch'.pc = "idle"
           \/ sch'.pc = "state" /\ sch'.job = sch.job
    BY <1>b, LocalsGoto, LocalsAt DEF Goto, EndTick, PCs
  <1>a. PICK s \in Active \cup Settled :
          /\ s \in Active \cup Settled
          /\ s = job[J].status \/ (s = "uncertain" /\ job[J].status = "running")
          /\ \/ UNCHANGED <<job, mem, tokens>>
             \/ /\ job' = [job EXCEPT ![J] = [@ EXCEPT !.lease = tokens + 1, !.status = s]]
                /\ mem' = [mem EXCEPT ![J] = tokens + 1]
                /\ tokens' = tokens + 1
    <2> DEFINE t == IF job[J].status = "running" /\ job[J].until =< sch.now
                    THEN "uncertain" ELSE job[J].status
    <2>1. t \in Active \cup Settled
      BY <1>b DEF Active, Settled
    <2>2. t = job[J].status \/ (t = "uncertain" /\ job[J].status = "running")
      <3>1. CASE job[J].status = "running" /\ job[J].until =< sch.now
        BY <3>1
      <3>2. CASE ~(job[J].status = "running" /\ job[J].until =< sch.now)
        BY <3>2
      <3> QED BY <3>1, <3>2
    <2>3. \/ UNCHANGED <<job, mem, tokens>>
          \/ /\ job' = [job EXCEPT ![J] = [@ EXCEPT !.lease = tokens + 1, !.status = t]]
             /\ mem' = [mem EXCEPT ![J] = tokens + 1]
             /\ tokens' = tokens + 1
      BY <1>b DEF TypeOK, Row
    <2> HIDE DEF t
    <2> QED BY <2>1, <2>2, <2>3
  <1> HIDE DEF RecoverCompute
  <1>u. UNCHANGED <<att, paused, target, clock, faults, call, spawns, cancels>>
    BY DEF RecoverCompute
  <1>r. [job[J] EXCEPT !.lease = tokens + 1, !.status = s] \in Row
    <2>1. s \in Statuses /\ tokens + 1 \in Nat
      BY <1>a DEF Statuses, TypeOK
    <2> QED BY <1>b, <2>1, RowUpdate
  <1>c. job \in [Jobs -> Row] /\ \A j \in Jobs : job[j] \in Row
    BY DEF TypeOK
  <1>1. TypeOK'
    BY <1>a, <1>b, <1>g, <1>r, <1>u DEF TypeOK
  <1>2. BodyOK' /\ TickOK'
    BY <1>a, <1>b, <1>g, <1>u DEF TypeOK, BodyOK, TickOK, J, BodyPCs, PCs, RecoverCompute, Row, Attempt, Calls, Receipts, Statuses, Active, Settled
  <1>d. \A j \in Jobs : Owned(j)' => Owned(j)
    <2> SUFFICES ASSUME NEW j \in Jobs, Owned(j)' PROVE Owned(j)
      OBVIOUS
    <2>1. job'[j].status = job[j].status \/ job[j].status = "running"
      <3>1. \/ job'[j] = job[j]
            \/ j = J /\ job'[J] = [job[J] EXCEPT !.lease = tokens + 1, !.status = s]
        BY <1>a, <1>b, <1>c
      <3>2. s = job[J].status \/ job[J].status = "running"
        BY <1>a
      <3> QED BY <1>b, <3>1, <3>2 DEF Row
    <2> QED BY <2>1 DEF Owned, Settled
  <1>3. OneOwned'
    BY <1>d DEF OneOwned
  <1>t. job \in [Jobs -> Row]
    BY DEF TypeOK
  <1>o. \A j \in Jobs : AttemptOK(j) /\ HandleOK(j) /\ SettleOK(j)
    OBVIOUS
  <1>4. (\A j \in Jobs : AttemptOK(j) /\ HandleOK(j) /\ SettleOK(j))'
    <2> SUFFICES ASSUME NEW j \in Jobs
                 PROVE  (AttemptOK(j) /\ HandleOK(j) /\ SettleOK(j))'
      OBVIOUS
    <2> HIDE DEF IInv
    <2>1. /\ job'[j].result = job[j].result /\ job'[j].fence = job[j].fence
          /\ \/ job'[j].status = job[j].status
             \/ job[j].status = "running" /\ job'[j].status = "uncertain"
      <3>1. CASE j # J
        BY <1>a, <1>b, <1>t, <3>1
      <3>2. CASE j = J
        <4>1. \/ job'[J] = job[J]
              \/ job'[J] = [job[J] EXCEPT !.lease = tokens + 1, !.status = s]
          BY <1>a, <1>b, <1>t
        <4>2. job[J].status = "running" \/ s = job[J].status
          BY <1>a
        <4> QED BY <1>a, <1>b, <3>2, <4>1, <4>2 DEF Row
      <3> QED BY <3>1, <3>2
    <2> QED
      BY <1>o, <1>u, <2>1 DEF AttemptOK, HandleOK, SettleOK, Owned, Settled, Receipts
  <1> QED BY <1>1, <1>2, <1>3, <1>4

LEMMA BeginStep == ASSUME IInv, BeginComputeCancel PROVE IInv'
  <1> USE DEF IInv, BeginComputeCancel, env, ext
  <1>b. J \in Jobs /\ job[J] \in Row /\ att[J] \in Attempt /\ sch \in Locals
        /\ job[J].status \in Active \cup Settled
    BY InBody DEF BodyPCs, PCs
  <1>r. ReturnFromCancel =>
          sch' \in Locals /\ (\/ sch'.pc = "idle"
                              \/ sch'.pc \in {"poll", "uncertain"} /\ sch'.job = sch.job)
    <2>1. CASE sch.after = "idle"
      BY <2>1, LocalsAt DEF ReturnFromCancel, PCs
    <2>2. CASE sch.after # "idle"
      <3>1. sch.after \in {"poll", "uncertain"}
        BY <1>b, <2>2 DEF Locals
      <3> QED BY <1>b, <2>2, <3>1, LocalsGoto DEF ReturnFromCancel, PCs
    <2> QED BY <2>1, <2>2
  <1>g. /\ sch' \in Locals
        /\ \/ (sch'.pc = "idle" \/ (sch'.pc \in {"poll", "uncertain"} /\ sch'.job = sch.job))
              /\ att' = att
           \/ /\ sch'.pc = "stop" /\ sch'.job = sch.job
              /\ att[J].cancel = "none" /\ att[J].handle
              /\ att' = [att EXCEPT ![J] = [@ EXCEPT !.cancel = "requested"]]
    <2>0. /\ Fenced /\ job[J].status = "cancelling" /\ att[J].handle =>
               IF att[J].cancel = "none"
               THEN att' = [att EXCEPT ![J].cancel = "requested"] /\ Goto("stop")
               ELSE ReturnFromCancel /\ UNCHANGED att
          /\ ~(Fenced /\ job[J].status = "cancelling" /\ att[J].handle) =>
               EndTick /\ UNCHANGED att
      OBVIOUS
    <2> HIDE DEF BeginComputeCancel
    <2>1. CASE Fenced /\ job[J].status = "cancelling" /\ att[J].handle
               /\ att[J].cancel = "none"
      BY <1>b, <2>0, <2>1, LocalsGoto DEF Goto, PCs, TypeOK
    <2>2. CASE Fenced /\ job[J].status = "cancelling" /\ att[J].handle
               /\ att[J].cancel # "none"
      BY <1>r, <2>0, <2>2
    <2>3. CASE ~(Fenced /\ job[J].status = "cancelling" /\ att[J].handle)
      BY <2>0, <2>3, LocalsAt DEF EndTick, PCs
    <2> QED BY <2>1, <2>2, <2>3
  <1>a. [att[J] EXCEPT !.cancel = "requested"] \in Attempt
    BY <1>b DEF Attempt
  <1> HIDE DEF BeginComputeCancel
  <1>u. UNCHANGED <<job, paused, mem, target, tokens, clock, faults, call, spawns, cancels>>
    BY DEF BeginComputeCancel
  <1>1. TypeOK'
    BY <1>a, <1>b, <1>g, <1>u DEF TypeOK
  <1>2. BodyOK' /\ TickOK'
    <2>1. sch'.pc = "stop" => att'[J].cancel = "requested" /\ cancels'[J] = 0
      <3> SUFFICES ASSUME sch'.pc = "stop"
                   PROVE  att'[J].cancel = "requested" /\ cancels'[J] = 0
        OBVIOUS
      <3>1. att[J].cancel = "none"
            /\ att' = [att EXCEPT ![J] = [@ EXCEPT !.cancel = "requested"]]
        BY <1>g
      <3>2. att'[J] = [att[J] EXCEPT !.cancel = "requested"]
        BY <1>b, <3>1 DEF TypeOK
      <3>3. att'[J].cancel = "requested"
        BY <1>b, <3>2 DEF Attempt
      <3>4. cancels[J] = 0
        BY <1>b, <3>1 DEF AttemptOK
      <3> QED BY <1>u, <3>3, <3>4
    <2>2. sch'.pc = "stop" => att'[J].handle
      BY <1>b, <1>g DEF Attempt, TypeOK
    <2>3. /\ job' = job
          /\ sch'.pc \in BodyPCs => sch'.job = J
          /\ sch'.pc \in {"idle", "poll", "uncertain", "stop"}
      BY <1>g, <1>u DEF J, BodyPCs, PCs
    <2>4. job[J].status \notin {"absent", "queued"}
      BY <1>b DEF Active, Settled
    <2> HIDE DEF IInv
    <2>5. BodyOK'
      BY <1>b, <2>3, <2>4 DEF BodyOK
    <2>6. TickOK'
      BY <1>b, <2>1, <2>2, <2>3 DEF TickOK, BodyPCs, PCs
    <2> QED BY <2>5, <2>6
  <1>3. OneOwned'
    BY <1>u DEF OneOwned, Owned
  <1>t. att \in [Jobs -> Attempt]
    BY DEF TypeOK
  <1>o. \A j \in Jobs : AttemptOK(j) /\ HandleOK(j) /\ SettleOK(j)
    OBVIOUS
  <1>4. (\A j \in Jobs : AttemptOK(j) /\ HandleOK(j) /\ SettleOK(j))'
    <2> SUFFICES ASSUME NEW j \in Jobs
                 PROVE  (AttemptOK(j) /\ HandleOK(j) /\ SettleOK(j))'
      OBVIOUS
    <2> HIDE DEF IInv
    <2>1. /\ att'[j].phase = att[j].phase /\ att'[j].fence = att[j].fence
          /\ att'[j].handle = att[j].handle
          /\ att'[j].cancel = "none" => att[j].cancel = "none"
      BY <1>g, <1>b, <1>t DEF Attempt
    <2> QED
      BY <1>o, <1>u, <2>1 DEF AttemptOK, HandleOK, SettleOK, Owned
  <1> QED BY <1>1, <1>2, <1>3, <1>4

LEMMA ProviderCancelStep == ASSUME IInv, ProviderCancel PROVE IInv'
  <1> USE DEF IInv, ProviderCancel, table, env
  <1>b. J \in Jobs /\ job[J] \in Row /\ att[J] \in Attempt /\ sch \in Locals
        /\ job[J].status \in Active \cup Settled
    BY InBody DEF BodyPCs, PCs
  <1>g. sch' \in Locals /\ sch'.pc = "record" /\ sch'.job = sch.job
    BY <1>b DEF Locals, PCs
  <1>s. att[J].cancel = "requested" /\ cancels[J] = 0 /\ att[J].handle
    BY DEF TickOK, J
  <1>p. att[J].phase # "none"
    BY <1>b, <1>s DEF AttemptOK
  <1>1. TypeOK'
    BY <1>b, <1>g DEF TypeOK
  <1>2. BodyOK' /\ TickOK'
    BY <1>b, <1>g DEF TypeOK, BodyOK, TickOK, J, BodyPCs, PCs
  <1>3. OneOwned'
    BY DEF OneOwned, Owned
  <1>4. (\A j \in Jobs : AttemptOK(j) /\ HandleOK(j) /\ SettleOK(j))'
    BY <1>b, <1>p, <1>s DEF AttemptOK, HandleOK, SettleOK, Owned, TypeOK
  <1> QED BY <1>1, <1>2, <1>3, <1>4

LEMMA RecordStep == ASSUME IInv, RecordComputeCancel PROVE IInv'
  <1> USE DEF IInv, RecordComputeCancel, env, ext
  <1>b. J \in Jobs /\ job[J] \in Row /\ att[J] \in Attempt /\ sch \in Locals
        /\ job[J].status \in Active \cup Settled
    BY InBody DEF BodyPCs, PCs
  <1>r. ReturnFromCancel =>
          sch' \in Locals /\ (\/ sch'.pc = "idle"
                              \/ sch'.pc \in {"poll", "uncertain"} /\ sch'.job = sch.job)
    <2>1. CASE sch.after = "idle"
      BY <2>1, LocalsAt DEF ReturnFromCancel, PCs
    <2>2. CASE sch.after # "idle"
      <3>1. sch.after \in {"poll", "uncertain"}
        BY <1>b, <2>2 DEF Locals
      <3> QED BY <1>b, <2>2, <3>1, LocalsGoto DEF ReturnFromCancel, PCs
    <2> QED BY <2>1, <2>2
  <1>a. PICK a \in {"acknowledged", "unknown"} :
          \/ att' = att
          \/ att' = [att EXCEPT ![J] = [@ EXCEPT !.cancel = a]]
    <2> DEFINE x == IF sch.ack THEN "acknowledged" ELSE "unknown"
    <2> x \in {"acknowledged", "unknown"}
      OBVIOUS
    <2> \/ att' = att
        \/ att' = [att EXCEPT ![J] = [@ EXCEPT !.cancel = x]]
      BY <1>b DEF TypeOK
    <2> HIDE DEF x
    <2> QED OBVIOUS
  <1>g. /\ sch' \in Locals
        /\ \/ sch'.pc = "idle"
           \/ sch'.pc \in {"poll", "uncertain"} /\ sch'.job = sch.job
    <2>1. ReturnFromCancel \/ EndTick
      OBVIOUS
    <2>2. CASE EndTick
      <3> HIDE DEF RecordComputeCancel
      <3> QED BY <2>2, LocalsAt DEF EndTick, PCs
    <2> QED BY <1>r, <2>1, <2>2
  <1>c. [att[J] EXCEPT !.cancel = a] \in Attempt
    BY <1>b DEF Attempt
  <1> HIDE DEF RecordComputeCancel
  <1>u. UNCHANGED <<job, paused, mem, target, tokens, clock, faults, call, spawns, cancels>>
    BY DEF RecordComputeCancel
  <1>1. TypeOK'
    BY <1>a, <1>b, <1>c, <1>g, <1>u DEF TypeOK
  <1>2. BodyOK' /\ TickOK'
    <2> HIDE DEF IInv
    <2>1. sch'.pc \in BodyPCs => sch'.job = J /\ job'[J].status = job[J].status
      BY <1>g, <1>u DEF BodyPCs, PCs, J
    <2>2. job[J].status \notin {"absent", "queued"}
      BY <1>b DEF Active, Settled
    <2>3. BodyOK'
      BY <1>b, <2>1, <2>2 DEF BodyOK
    <2>4. TickOK'
      BY <1>g DEF TickOK
    <2> QED BY <2>3, <2>4
  <1>3. OneOwned'
    BY <1>u DEF OneOwned, Owned
  <1>t. att \in [Jobs -> Attempt]
    BY DEF TypeOK
  <1>o. \A j \in Jobs : AttemptOK(j) /\ HandleOK(j) /\ SettleOK(j)
    OBVIOUS
  <1>4. (\A j \in Jobs : AttemptOK(j) /\ HandleOK(j) /\ SettleOK(j))'
    <2> SUFFICES ASSUME NEW j \in Jobs
                 PROVE  (AttemptOK(j) /\ HandleOK(j) /\ SettleOK(j))'
      OBVIOUS
    <2> HIDE DEF IInv
    <2>1. /\ att'[j].phase = att[j].phase /\ att'[j].fence = att[j].fence
          /\ att'[j].handle = att[j].handle
          /\ att'[j].cancel = "none" => att[j].cancel = "none"
      BY <1>a, <1>b, <1>t DEF Attempt
    <2> QED
      BY <1>o, <1>u, <2>1 DEF AttemptOK, HandleOK, SettleOK, Owned
  <1> QED BY <1>1, <1>2, <1>3, <1>4

LEMMA ClaimStep == ASSUME IInv, Claim PROVE IInv'
  <1> USE DEF IInv, Claim, env, ext
  <1>l. /\ Least(sch.now + LeaseSeconds, sch.now + MaxSeconds) \in Nat
        /\ sch.now + MaxSeconds \in Nat /\ tokens + 1 \in Nat
    BY DEF Least, TypeOK, Locals, ConstantsOK
  <1>a. \/ sch' = At("idle") /\ UNCHANGED <<job, mem, tokens>>
        \/ \E j \in QueuedJobs :
             /\ ActiveJobs = {}
             /\ job' = [job EXCEPT ![j] = ClaimRow(job[j])]
             /\ mem' = [mem EXCEPT ![j] = tokens + 1]
             /\ tokens' = tokens + 1
             /\ sch' = ReadRow(ClaimRow(job[j]), j, "preflight")
    BY DEF EndTick, TypeOK, QueuedJobs
  <1>u. UNCHANGED <<att, paused, target, clock, faults, call, spawns, cancels>>
    OBVIOUS
  <1> HIDE DEF Claim
  <1>c. ASSUME NEW j \in QueuedJobs
        PROVE  /\ j \in Jobs /\ job[j] \in Row /\ job[j].status = "queued"
               /\ ClaimRow(job[j]) \in Row
               /\ ClaimRow(job[j]).status = "running"
               /\ ClaimRow(job[j]).result = job[j].result
               /\ ReadRow(ClaimRow(job[j]), j, "preflight") \in Locals
               /\ ReadRow(ClaimRow(job[j]), j, "preflight").pc = "preflight"
               /\ ReadRow(ClaimRow(job[j]), j, "preflight").job = j
    <2>1. j \in Jobs /\ job[j] \in Row /\ job[j].status = "queued"
      BY DEF QueuedJobs, TypeOK
    <2>2. /\ ClaimRow(job[j]) \in Row /\ ClaimRow(job[j]).status = "running"
          /\ ClaimRow(job[j]).result = job[j].result
      <3> DEFINE u == Least(sch.now + LeaseSeconds, sch.now + MaxSeconds)
                 d == sch.now + MaxSeconds
                 f == job[j].fence + 1
                 t == tokens + 1
      <3>1. ClaimRow(job[j]) = [job[j] EXCEPT !.status = "running", !.fence = f,
              !.lease = t, !.until = u, !.deadline = d, !.ref = FALSE]
        BY DEF ClaimRow
      <3>2. u \in Nat /\ d \in Nat
        BY <1>l
      <3>3. f \in Nat /\ t \in Nat
        BY <2>1, <1>l DEF Row
      <3> HIDE DEF u, d, f, t, ClaimRow, IInv
      <3>4. ClaimRow(job[j]) \in Row
        <4>1. "running" \in Statuses /\ FALSE \in BOOLEAN
          BY DEF Statuses, Active
        <4> QED BY <2>1, <3>1, <3>2, <3>3, <4>1 DEF Row
      <3>5. ClaimRow(job[j]).status = "running" /\ ClaimRow(job[j]).result = job[j].result
        BY <2>1, <3>1 DEF Row
      <3> QED BY <3>4, <3>5
    <2>3. /\ ReadRow(ClaimRow(job[j]), j, "preflight") \in Locals
          /\ ReadRow(ClaimRow(job[j]), j, "preflight").pc = "preflight"
          /\ ReadRow(ClaimRow(job[j]), j, "preflight").job = j
      <3> HIDE DEF ClaimRow
      <3> QED BY <2>1, <2>2 DEF ReadRow, Row, Locals, PCs, TypeOK
    <2> QED BY <2>1, <2>2, <2>3
  <1>i. sch' = At("idle") => sch' \in Locals /\ sch'.pc = "idle"
    BY LocalsAt DEF PCs
  <1>1. TypeOK'
    BY <1>a, <1>c, <1>i, <1>l, <1>u DEF TypeOK
  <1>2. BodyOK' /\ TickOK'
    BY <1>a, <1>c, <1>i, <1>u DEF TypeOK, BodyOK, TickOK, BodyPCs
  <1>3. OneOwned'
    BY <1>a, <1>c DEF OneOwned, Owned, ActiveJobs, Row, Attempt, Calls, Receipts, Statuses, Active, Settled, TypeOK
  <1>4. (\A j \in Jobs : AttemptOK(j) /\ HandleOK(j) /\ SettleOK(j))'
    BY <1>a, <1>c, <1>u DEF AttemptOK, HandleOK, SettleOK, Owned, TypeOK, Statuses, Active, Settled, Receipts
  <1> QED BY <1>1, <1>2, <1>3, <1>4

LEMMA AcceptStep == ASSUME IInv, AcceptCompute PROVE IInv'
  <1> USE DEF IInv, AcceptCompute, env, ext
  <1>b. J \in Jobs /\ job[J] \in Row /\ att[J] \in Attempt /\ sch \in Locals
        /\ job[J].status \in Active \cup Settled
    BY InBody DEF BodyPCs, PCs
  <1>s. sch.receipt \in Receipts /\ call[J] = sch.receipt
    BY DEF TickOK, J
  <1>a. PICK x \in {"cancelled", sch.receipt} :
          /\ x = sch.receipt \/ x = "cancelled"
          /\ \/ /\ UNCHANGED <<job, att>>
                /\ sch' \in Locals /\ sch'.pc \in {"cancel", "uncertain"} /\ sch'.job = sch.job
             \/ /\ sch' \in Locals /\ sch'.pc = "idle"
                /\ att[J].handle /\ job[J].status \in Active
                /\ job' = [job EXCEPT ![J] = [@ EXCEPT !.status = x, !.result = x]]
                /\ att' = [att EXCEPT ![J] = [@ EXCEPT !.phase = x, !.receipt = sch.receipt]]
    <2>1. CASE Fenced /\ att[J].handle /\ job[J].status \in Permitted
      <3> DEFINE y == IF Cancelling THEN "cancelled" ELSE sch.receipt
      <3>1. y \in {"cancelled", sch.receipt}
        OBVIOUS
      <3>2. /\ att[J].handle /\ job[J].status \in Active
            /\ sch' \in Locals /\ sch'.pc = "idle"
        BY <2>1, LocalsAt DEF Permitted, Active, EndTick, PCs
      <3>3. /\ job' = [job EXCEPT ![J] = [@ EXCEPT !.status = y, !.result = y]]
            /\ att' = [att EXCEPT ![J] = [@ EXCEPT !.phase = y, !.receipt = sch.receipt]]
        BY <2>1, <1>b DEF TypeOK
      <3> HIDE DEF y
      <3> QED BY <3>1, <3>2, <3>3
    <2>2. CASE ~(Fenced /\ att[J].handle /\ job[J].status \in Permitted)
      BY <1>b, <2>2, LocalsGoto, LocalsAfter DEF ResultUncertain, PCs
    <2> QED BY <2>1, <2>2
  <1>u. UNCHANGED <<paused, mem, target, tokens, clock, faults, call, spawns, cancels>>
    OBVIOUS
  <1> HIDE DEF AcceptCompute
  <1>r. /\ [job[J] EXCEPT !.status = x, !.result = x] \in Row
        /\ [att[J] EXCEPT !.phase = x, !.receipt = sch.receipt] \in Attempt
    BY <1>b, <1>s, RowResult DEF Attempt, Statuses, Settled, Receipts
  <1>t. job \in [Jobs -> Row] /\ att \in [Jobs -> Attempt]
    BY DEF TypeOK
  <1>o. \A j \in Jobs : AttemptOK(j) /\ HandleOK(j) /\ SettleOK(j)
    OBVIOUS
  <1>1. TypeOK'
    BY <1>a, <1>b, <1>r, <1>u DEF TypeOK
  <1>2. BodyOK' /\ TickOK'
    <2>1. job'[J].status \notin {"absent", "queued"}
      <3>1. \/ job'[J] = job[J]
            \/ job'[J] = [job[J] EXCEPT !.status = x, !.result = x]
        BY <1>a, <1>b, <1>t
      <3>2. x \in {"cancelled", "completed", "paused"}
        BY <1>a, <1>s DEF Receipts
      <3>3. job'[J].status \in {job[J].status, x}
        BY <1>b, <3>1 DEF Row
      <3> QED BY <1>b, <3>2, <3>3 DEF Active, Settled
    <2> QED BY <1>a, <1>b, <2>1 DEF BodyOK, TickOK, J, BodyPCs, PCs
  <1>3. OneOwned'
    BY <1>a, <1>b DEF OneOwned, Owned, TypeOK, Row, Attempt, Calls, Receipts, Statuses, Active, Settled
  <1>4. (\A j \in Jobs : AttemptOK(j) /\ HandleOK(j) /\ SettleOK(j))'
    <2> SUFFICES ASSUME NEW j \in Jobs
                 PROVE  (AttemptOK(j) /\ HandleOK(j) /\ SettleOK(j))'
      OBVIOUS
    <2> HIDE DEF IInv
    <2>1. \/ job'[j] = job[j] /\ att'[j] = att[j]
          \/ /\ j = J /\ job[j].status \in Active /\ att[j].handle
             /\ job'[j].status = x /\ job'[j].result = x
             /\ job'[j].fence = job[j].fence
             /\ att'[j].phase = x /\ att'[j].handle
             /\ att'[j].fence = att[j].fence /\ att'[j].cancel = att[j].cancel
      <3>1. CASE j # J
        BY <1>a, <1>b, <1>t, <3>1
      <3>2. CASE j = J
        <4>1. \/ job'[J] = job[J] /\ att'[J] = att[J]
              \/ /\ job[J].status \in Active /\ att[J].handle
                 /\ job'[J] = [job[J] EXCEPT !.status = x, !.result = x]
                 /\ att'[J] = [att[J] EXCEPT !.phase = x, !.receipt = sch.receipt]
          BY <1>a, <1>b, <1>t
        <4>2. CASE job'[J] = job[J] /\ att'[J] = att[J]
          BY <3>2, <4>2
        <4>3. CASE /\ job[J].status \in Active /\ att[J].handle
                   /\ job'[J] = [job[J] EXCEPT !.status = x, !.result = x]
                   /\ att'[J] = [att[J] EXCEPT !.phase = x, !.receipt = sch.receipt]
          <5>1. /\ job'[J].status = x /\ job'[J].result = x
                /\ job'[J].fence = job[J].fence
            BY <1>b, <4>3 DEF Row
          <5>2. /\ att'[J].phase = x /\ att'[J].fence = att[J].fence
                /\ att'[J].cancel = att[J].cancel
            BY <1>b, <4>3 DEF Attempt
          <5>3. att'[J].handle
            BY <1>b, <4>3 DEF Attempt
          <5> QED BY <3>2, <4>3, <5>1, <5>2, <5>3
        <4> QED BY <4>1, <4>2, <4>3
      <3> QED BY <3>1, <3>2
    <2>2. x = "cancelled" \/ (x = call[J] /\ x \in Receipts)
      BY <1>a, <1>s
    <2> QED
      BY <1>b, <1>o, <1>s, <1>u, <2>1, <2>2
         DEF AttemptOK, HandleOK, SettleOK, Owned, Active, Settled, Receipts
  <1> QED BY <1>1, <1>2, <1>3, <1>4

-----------------------------------------------------------------------------
(* The theorems.                                                           *)

LEMMA InitInv == ASSUME Init PROVE IInv
  <1> USE DEF Init
  <1>1. sch \in Locals /\ sch.pc = "down"
    BY DEF At, Locals, PCs, Statuses
  <1>2. EmptyRow \in Row /\ EmptyRow.status = "absent" /\ EmptyRow.result = "none"
    BY DEF EmptyRow, Row, Statuses
  <1>3. /\ NoAttempt \in Attempt /\ NoAttempt.phase = "none"
        /\ ~NoAttempt.handle
    BY DEF NoAttempt, Attempt
  <1>4. TypeOK
    BY <1>1, <1>2, <1>3 DEF TypeOK, Calls
  <1>5. BodyOK /\ TickOK
    BY <1>1 DEF BodyOK, TickOK, BodyPCs
  <1>6. OneOwned
    BY <1>2 DEF OneOwned, Owned
  <1>7. \A j \in Jobs : AttemptOK(j) /\ HandleOK(j) /\ SettleOK(j)
    BY <1>2, <1>3 DEF AttemptOK, HandleOK, SettleOK, Owned, Receipts
  <1> QED BY <1>4, <1>5, <1>6, <1>7 DEF IInv

LEMMA SchedulerInv == ASSUME IInv, Scheduler PROVE IInv'
  BY TickStep, ExpireStep, ReadJobsStep, ClaimStep, PreflightStep, FailBeforeStep,
     PrepareStep, SubmitStep, BindStep, UncertainStep, RecoverStep,
     ReadAttemptStep, CancelElapsedStep, BeginStep, ProviderCancelStep,
     RecordStep, PollReceiptStep, PollPendingStep, PollFailedStep, AcceptStep,
     HeartbeatStep DEF Scheduler

LEMMA StutterInv == ASSUME IInv, UNCHANGED vars PROVE IInv'
  <1> USE DEF IInv, vars
  <1>1. TypeOK'
    BY DEF TypeOK
  <1>2. BodyOK' /\ TickOK' /\ OneOwned'
    BY DEF BodyOK, TickOK, OneOwned, Owned
  <1>3. (\A j \in Jobs : AttemptOK(j) /\ HandleOK(j) /\ SettleOK(j))'
    BY DEF AttemptOK, HandleOK, SettleOK, Owned
  <1> QED BY <1>1, <1>2, <1>3

LEMMA NextInv == ASSUME IInv, [Next]_vars PROVE IInv'
  <1>1. CASE Operator
    BY <1>1, EnqueueStep, CancelStep, ReconcileStep, PauseStep DEF Operator
  <1>2. CASE Scheduler
    BY <1>2, SchedulerInv
  <1>3. CASE Start \/ Crash \/ TickRaises \/ TimePasses
    BY <1>3, StartStep, CrashStep, RaisesStep, TimeStep
  <1>4. CASE \E j \in Jobs : CallEnds(j)
    BY <1>4, CallEndsStep
  <1>5. CASE UNCHANGED vars
    BY <1>5, StutterInv
  <1> QED BY <1>1, <1>2, <1>3, <1>4, <1>5 DEF Next

\* The inductive invariant: what the tables, the scheduler's locals and the
\* provider's calls have to do with one another in every reachable state.
THEOREM Invariance == Spec => []IInv
  BY InitInv, NextInv, PTL DEF Spec

\* Every row, local and counter stays in its domain.
THEOREM TypeCorrect == Spec => []TypeOK
  <1>1. IInv => TypeOK
    BY DEF IInv
  <1> QED BY <1>1, Invariance, PTL

\* The scheduler never owns two jobs: multiple_active_jobs is unreachable.
THEOREM OneOwnedAlways == Spec => []OneOwned
  <1>1. IInv => OneOwned
    BY DEF IInv
  <1> QED BY <1>1, Invariance, PTL

\* No crash, lost answer or recovery submits an invocation a second time,
THEOREM AtMostOnce == Spec => []SpawnedOnce
  <1>1. IInv => SpawnedOnce
    BY DEF IInv, AttemptOK, SpawnedOnce
  <1> QED BY <1>1, Invariance, PTL

\* or sends its cancellation a second time.
THEOREM CancelledAtMostOnce == Spec => []CancelledOnce
  <1>1. IInv => CancelledOnce
    BY DEF IInv, AttemptOK, CancelledOnce
  <1> QED BY <1>1, Invariance, PTL

\* Every external call is accounted for by a durable intent of its claim.
THEOREM IntentFirst == Spec => []IntentBeforeSpawn
  <1>1. IInv => IntentBeforeSpawn
    BY DEF IInv, AttemptOK, IntentBeforeSpawn
  <1> QED BY <1>1, Invariance, PTL

\* A job with a recorded handle does not settle while its call runs,
THEOREM LiveCallsTracked == Spec => []LiveCallTracked
  <1>1. IInv => LiveCallTracked
    BY DEF IInv, SettleOK, AttemptOK, LiveCallTracked
  <1> QED BY <1>1, Invariance, PTL

\* and what it settles with is what the call returned.
THEOREM SettlementSound == Spec => []ResultGenuine
  <1>1. IInv => ResultGenuine
    BY DEF IInv, SettleOK, AttemptOK, ResultGenuine
  <1> QED BY <1>1, Invariance, PTL

-----------------------------------------------------------------------------
(* What a step may never do: move a settled job, select the output of a    *)
(* cancelled one, launch a job that has no durable intent.                 *)

\* One job's part of SettledFinal and CancelWins.
Final(j) == job[j].status \in Settled =>
              /\ job'[j].status = job[j].status
              /\ job'[j].result = job[j].result
              /\ att'[j] = att[j]

Wins(j) == job[j].status = "cancelling" =>
             job'[j].status \in {"cancelling", "cancelled"}

FinalWins == \A j \in Jobs : Final(j) /\ Wins(j)

\* A step that leaves the tables alone.
LEMMA Untouched == ASSUME UNCHANGED <<job, att>> PROVE FinalWins
  BY DEF FinalWins, Final, Wins

\* A step that changes only the status and lease of rows.
LEMMA StatusStep ==
  ASSUME att' = att,
         \A j \in Jobs :
           /\ job'[j].result = job[j].result \/ job[j].status \notin Settled
           /\ job[j].status \in Settled => job'[j].status = job[j].status
           /\ job[j].status = "cancelling" => job'[j].status \in {"cancelling", "cancelled"}
  PROVE  FinalWins
  BY DEF FinalWins, Final, Wins

LEMMA OperatorFinal == ASSUME IInv, Operator PROVE FinalWins
  <1> USE DEF IInv, TypeOK, env, ext
  <1>1. ASSUME NEW i \in Jobs, Enqueue(i) PROVE FinalWins
    BY <1>1, StatusStep DEF Enqueue, Row, Settled
  <1>2. ASSUME NEW i \in Jobs, Cancel(i) PROVE FinalWins
    BY <1>2, StatusStep DEF Cancel, CancelStatus, Row, Settled
  <1>3. ASSUME NEW i \in Jobs, ReconcileStopped(i) PROVE FinalWins
    BY <1>3, StatusStep DEF ReconcileStopped, Row, Settled
  <1>4. ASSUME NEW value \in BOOLEAN, Pause(value) PROVE FinalWins
    BY <1>4, Untouched DEF Pause
  <1> QED BY <1>1, <1>2, <1>3, <1>4 DEF Operator

LEMMA SchedulerFinal == ASSUME IInv, Scheduler PROVE FinalWins
  <1> USE DEF table, env, ext
  <1>t. job \in [Jobs -> Row] /\ att \in [Jobs -> Attempt]
    BY DEF IInv, TypeOK
  <1>b. ASSUME sch.pc \in BodyPCs PROVE J \in Jobs
    BY <1>b, InBody
  <1>1. CASE Tick \/ ReadJobs \/ Preflight \/ Submit \/ ReadAttempt \/ ProviderCancel
             \/ PollReceipt \/ PollPending \/ PollFailed
    BY <1>1, Untouched DEF Tick, ReadJobs, Preflight, Submit, ReadAttempt,
       ProviderCancel, PollReceipt, PollPending, PollFailed
  <1>2. CASE Expire
    BY <1>2, <1>t, StatusStep DEF Expire, Row, Settled
  <1>3. CASE Claim
    BY <1>3, <1>t, StatusStep, Untouched DEF Claim, ClaimRow, QueuedJobs, Row, Settled
  <1>4. CASE FailBeforeCompute
    <2>1. J \in Jobs
      BY <1>4, <1>b DEF FailBeforeCompute, BodyPCs, PCs
    <2> QED
      BY <1>4, <1>t, <2>1, StatusStep, Untouched
         DEF FailBeforeCompute, Live, Row, Settled
  <1>5. CASE PrepareCompute
    <2>1. J \in Jobs
      BY <1>5, <1>b DEF PrepareCompute, BodyPCs, PCs
    <2> QED
      BY <1>5, <1>t, <2>1 DEF PrepareCompute, Live, FinalWins, Final, Wins, Settled
  <1>6. CASE BindComputeHandle
    <2>1. J \in Jobs
      BY <1>6, <1>b DEF BindComputeHandle, BodyPCs, PCs
    <2> QED
      BY <1>6, <1>t, <2>1
         DEF BindComputeHandle, FinalWins, Final, Wins, Row, Settled, Active
  <1>7. CASE ComputeUncertain
    <2>1. J \in Jobs
      BY <1>7, <1>b DEF ComputeUncertain, BodyPCs, PCs
    <2> QED
      BY <1>7, <1>t, <2>1, StatusStep, Untouched
         DEF ComputeUncertain, Row, Settled, Active
  <1>8. CASE RecoverCompute
    <2>1. J \in Jobs
      BY <1>8, <1>b DEF RecoverCompute, BodyPCs, PCs
    <2> QED
      BY <1>8, <1>t, <2>1, StatusStep, Untouched
         DEF RecoverCompute, Row, Settled, Active
  <1>9. CASE CancelElapsed
    <2>1. J \in Jobs
      BY <1>9, <1>b DEF CancelElapsed, BodyPCs, PCs
    <2> QED
      BY <1>9, <1>t, <2>1, StatusStep DEF CancelElapsed, CancelStatus, Row, Settled
  <1>10. CASE BeginComputeCancel
    <2>1. J \in Jobs
      BY <1>10, <1>b DEF BeginComputeCancel, BodyPCs, PCs
    <2>2. UNCHANGED job
      BY <1>10 DEF BeginComputeCancel
    <2>3. \/ att' = att
          \/ /\ job[J].status = "cancelling"
             /\ att' = [att EXCEPT ![J].cancel = "requested"]
      BY <1>10 DEF BeginComputeCancel
    <2> QED BY <1>t, <2>1, <2>2, <2>3 DEF FinalWins, Final, Wins, Settled
  <1>11. CASE RecordComputeCancel
    <2>1. J \in Jobs
      BY <1>11, <1>b DEF RecordComputeCancel, BodyPCs, PCs
    <2> QED
      BY <1>11, <1>t, <2>1 DEF RecordComputeCancel, FinalWins, Final, Wins, Settled
  <1>12. CASE AcceptCompute
    <2>1. J \in Jobs
      BY <1>12, <1>b DEF AcceptCompute, BodyPCs, PCs
    <2>2. \/ UNCHANGED <<job, att>>
          \/ /\ job[J].status \in Permitted
             /\ \A j \in Jobs \ {J} : job'[j] = job[j] /\ att'[j] = att[j]
             /\ Cancelling => job'[J].status = "cancelled"
      BY <1>12, <1>t, <2>1 DEF AcceptCompute, Row
    <2> QED
      BY <2>1, <2>2 DEF FinalWins, Final, Wins, Settled, Permitted
  <1>13. CASE Heartbeat
    <2>1. J \in Jobs
      BY <1>13, <1>b DEF Heartbeat, BodyPCs, PCs
    <2> QED
      BY <1>13, <1>t, <2>1, StatusStep, Untouched DEF Heartbeat, Row
  <1> QED
    BY <1>1, <1>2, <1>3, <1>4, <1>5, <1>6, <1>7, <1>8, <1>9, <1>10, <1>11, <1>12,
       <1>13 DEF Scheduler

LEMMA NextFinal == ASSUME IInv, [Next]_vars PROVE FinalWins
  <1>1. CASE Start \/ Crash \/ TickRaises \/ TimePasses \/ UNCHANGED vars
             \/ \E j \in Jobs : CallEnds(j)
    BY <1>1, Untouched DEF Start, Crash, TickRaises, TimePasses, CallEnds, vars, table
  <1> QED BY <1>1, OperatorFinal, SchedulerFinal DEF Next

\* A settled job is final, whatever arrives late.
THEOREM SettledIsFinal == Spec => SettledFinal
  <1>1. IInv /\ [Next]_vars =>
          [\A j \in Jobs : job[j].status \in Settled =>
             /\ job'[j].status = job[j].status
             /\ job'[j].result = job[j].result
             /\ att'[j] = att[j]]_vars
    BY NextFinal DEF FinalWins, Final
  <1> QED BY <1>1, Invariance, PTL DEF Spec, SettledFinal

\* A cancellation that was requested is never overtaken by a result.
THEOREM CancellationWins == Spec => CancelWins
  <1>1. IInv /\ [Next]_vars =>
          [\A j \in Jobs : job[j].status = "cancelling" =>
             job'[j].status \in {"cancelling", "cancelled"}]_vars
    BY NextFinal DEF FinalWins, Wins
  <1> QED BY <1>1, Invariance, PTL DEF Spec, CancelWins

-----------------------------------------------------------------------------
(* HubCompute implements ComputeLedger: every step of the tables, the      *)
(* scheduler, the operators and the provider is a step of the abstract     *)
(* ledger or leaves it unchanged.                                          *)

Stage    == [j \in Jobs |-> StageOf(job[j].status)]
Promised == {j \in Jobs : att[j].phase # "none"}
Launched == {j \in Jobs : spawns[j] > 0}
Selected == {j \in Jobs : job[j].status \in Receipts}
Abstract == <<Stage, Promised, Launched, Selected>>

LEMMA StageFacts ==
  /\ StageOf("absent") = "new" /\ StageOf("queued") = "waiting"
  /\ \A s \in Active : StageOf(s) = "owned"
  /\ \A s \in Settled : StageOf(s) = "closed"
  BY DEF StageOf, Active, Settled

\* What the abstract ledger does not see.
LEMMA Invisible ==
  ASSUME \A j \in Jobs :
           /\ StageOf(job'[j].status) = StageOf(job[j].status)
           /\ att'[j].phase # "none" <=> att[j].phase # "none"
           /\ spawns'[j] > 0 <=> spawns[j] > 0
           /\ job'[j].status \in Receipts <=> job[j].status \in Receipts
  PROVE  Abstract' = Abstract
  BY DEF Abstract, Stage, Promised, Launched, Selected

\* One row moves to status t, nothing else the ledger sees changes.
Moves(j, t) ==
  /\ j \in Jobs
  /\ job'[j].status = t
  /\ \A k \in Jobs \ {j} : job'[k].status = job[k].status
  /\ \A k \in Jobs : (att'[k].phase # "none") <=> (att[k].phase # "none")
  /\ spawns' = spawns

LEMMA MoveStage ==
  ASSUME NEW j, NEW t, Moves(j, t), job \in [Jobs -> Row]
  PROVE  /\ Stage' = [Stage EXCEPT ![j] = StageOf(t)]
         /\ Promised' = Promised /\ Launched' = Launched
         /\ job[j].status \notin Receipts =>
              Selected' = IF t \in Receipts THEN Selected \cup {j} ELSE Selected
  BY DEF Moves, Stage, Promised, Launched, Selected

LEMMA MoveAdmit ==
  ASSUME NEW j, job \in [Jobs -> Row], Moves(j, "queued"), job[j].status = "absent"
  PROVE  Ledger!Admit(j)
  BY MoveStage, StageFacts DEF Moves, Ledger!Admit, Stage, Promised, Launched,
     Selected, Receipts

LEMMA MoveWithdraw ==
  ASSUME NEW j, job \in [Jobs -> Row], Moves(j, "cancelled"), job[j].status = "queued"
  PROVE  Ledger!Withdraw(j)
  BY MoveStage, StageFacts DEF Moves, Ledger!Withdraw, Stage, Promised, Launched,
     Selected, Receipts, Settled

LEMMA MoveTake ==
  ASSUME NEW j, job \in [Jobs -> Row], Moves(j, "running"), job[j].status = "queued",
         ActiveJobs = {}
  PROVE  Ledger!Take(j)
  <1>1. \A k \in Jobs : StageOf(job[k].status) # "owned"
    BY StageFacts DEF ActiveJobs, Row, Statuses
  <1> QED
    BY <1>1, MoveStage, StageFacts DEF Moves, Ledger!Take, Stage, Promised, Launched,
       Selected, Receipts, Active

LEMMA MoveClose ==
  ASSUME NEW j, NEW t \in {"failed", "cancelled"}, job \in [Jobs -> Row], Moves(j, t),
         job[j].status \in Active
  PROVE  Ledger!Close(j)
  BY MoveStage, StageFacts DEF Moves, Ledger!Close, Stage, Promised, Launched,
     Selected, Receipts, Active, Settled

LEMMA MoveSelect ==
  ASSUME NEW j, NEW t \in Receipts, job \in [Jobs -> Row], Moves(j, t),
         job[j].status \in Active, spawns[j] > 0
  PROVE  Ledger!Select(j)
  BY MoveStage, StageFacts DEF Moves, Ledger!Select, Stage, Promised, Launched,
     Selected, Receipts, Active, Settled

LEMMA Promises ==
  ASSUME NEW j \in Jobs, StageOf(job[j].status) = "owned", att[j].phase = "none",
         att'[j].phase = "submitting",
         \A k \in Jobs \ {j} : att'[k] = att[k],
         UNCHANGED <<job, spawns>>
  PROVE  Ledger!Promise(j)
  BY DEF Ledger!Promise

LEMMA Launches ==
  ASSUME NEW j \in Jobs, att[j].phase = "submitting", spawns[j] = 0,
         spawns \in [Jobs -> Nat], spawns' = [spawns EXCEPT ![j] = @ + 1],
         UNCHANGED <<job, att>>
  PROVE  Ledger!Launch(j)
  <1>1. \A k \in Jobs : spawns'[k] > 0 <=> (spawns[k] > 0 \/ k = j)
    OBVIOUS
  <1> QED BY <1>1 DEF Ledger!Launch

AbstractStep == (\E j \in Jobs : \/ Ledger!Admit(j) \/ Ledger!Withdraw(j)
                                 \/ Ledger!Take(j) \/ Ledger!Promise(j)
                                 \/ Ledger!Launch(j) \/ Ledger!Select(j)
                                 \/ Ledger!Close(j))
                \/ Abstract' = Abstract

LEMMA OperatorMaps == ASSUME IInv, Operator PROVE AbstractStep
  <1> USE DEF env, ext
  <1>t. job \in [Jobs -> Row]
    BY DEF IInv, TypeOK
  <1>1. ASSUME NEW i \in Jobs, Enqueue(i) PROVE AbstractStep
    <2>1. Moves(i, "queued") /\ job[i].status = "absent"
      BY <1>1, <1>t DEF Enqueue, Moves, Row
    <2> QED BY <1>t, <2>1, MoveAdmit DEF AbstractStep
  <1>2. ASSUME NEW i \in Jobs, Cancel(i) PROVE AbstractStep
    <2>1. CASE job[i].status = "queued"
      <3>1. CancelStatus(job[i].status) = "cancelled"
        BY <2>1 DEF CancelStatus, Settled
      <3>2. Moves(i, "cancelled")
        BY <1>2, <1>t, <3>1 DEF Cancel, Moves, Row
      <3> QED BY <1>t, <2>1, <3>2, MoveWithdraw DEF AbstractStep
    <2>2. CASE job[i].status # "queued"
      <3>1. job[i].status \in Active \cup Settled
        BY <1>2, <1>t, <2>2 DEF Cancel, Row, Statuses
      <3>2. /\ job'[i].status = CancelStatus(job[i].status)
            /\ \A k \in Jobs \ {i} : job'[k] = job[k]
            /\ att' = att /\ spawns' = spawns
        BY <1>2, <1>t DEF Cancel, Row
      <3>3. /\ StageOf(CancelStatus(job[i].status)) = StageOf(job[i].status)
            /\ CancelStatus(job[i].status) \in Receipts <=> job[i].status \in Receipts
        BY <3>1, StageFacts DEF CancelStatus, Active, Settled, Receipts
      <3> QED BY <3>2, <3>3, Invisible DEF AbstractStep
    <2> QED BY <2>1, <2>2
  <1>3. ASSUME NEW i \in Jobs, ReconcileStopped(i) PROVE AbstractStep
    <2>1. PICK t \in {"failed", "cancelled"} : Moves(i, t)
      BY <1>3, <1>t DEF ReconcileStopped, Moves, Row
    <2>2. job[i].status \in Active
      BY <1>3 DEF ReconcileStopped, Active
    <2> QED BY <1>t, <2>1, <2>2, MoveClose DEF AbstractStep
  <1>4. ASSUME NEW value \in BOOLEAN, Pause(value) PROVE AbstractStep
    BY <1>4, Invisible DEF Pause, AbstractStep
  <1> QED BY <1>1, <1>2, <1>3, <1>4 DEF Operator

LEMMA SchedulerMaps == ASSUME IInv, Scheduler PROVE AbstractStep
  <1> USE DEF table, env, ext
  <1>t. job \in [Jobs -> Row] /\ att \in [Jobs -> Attempt] /\ spawns \in [Jobs -> Nat]
    BY DEF IInv, TypeOK
  <1>b. ASSUME sch.pc \in BodyPCs
        PROVE  J \in Jobs /\ job[J].status \in Active \cup Settled
    BY <1>b, InBody
  <1>1. CASE Tick \/ ReadJobs \/ Preflight \/ ReadAttempt \/ ProviderCancel
             \/ PollReceipt \/ PollPending \/ PollFailed
    <2>1. UNCHANGED <<job, att, spawns>>
      BY <1>1 DEF Tick, ReadJobs, Preflight, ReadAttempt, ProviderCancel,
         PollReceipt, PollPending, PollFailed
    <2> QED BY <2>1, Invisible DEF AbstractStep
  <1>2. CASE Expire
    <2>1. \A j \in Jobs : \/ job'[j].status = job[j].status
                          \/ job[j].status = "running" /\ job'[j].status = "uncertain"
      BY <1>2, <1>t DEF Expire, Row
    <2>2. att' = att /\ spawns' = spawns
      BY <1>2 DEF Expire
    <2> QED
      BY <2>1, <2>2, StageFacts, Invisible DEF AbstractStep, Active, Receipts
  <1>3. CASE Claim
    <2>1. att' = att /\ spawns' = spawns
      BY <1>3 DEF Claim
    <2>2. \/ job' = job
          \/ ActiveJobs = {} /\ \E j \in QueuedJobs : job' = [job EXCEPT ![j] = ClaimRow(@)]
      BY <1>3 DEF Claim
    <2>3. CASE job' = job
      BY <2>1, <2>3, Invisible DEF AbstractStep
    <2>4. ASSUME NEW j \in QueuedJobs, ActiveJobs = {},
                 job' = [job EXCEPT ![j] = ClaimRow(@)]
          PROVE  AbstractStep
      <3>1. j \in Jobs /\ job[j].status = "queued" /\ job[j] \in Row
        BY <1>t DEF QueuedJobs
      <3>2. ClaimRow(job[j]).status = "running"
        BY <3>1 DEF ClaimRow, Row
      <3>3. Moves(j, "running")
        BY <1>t, <2>1, <2>4, <3>1, <3>2 DEF Moves
      <3> QED BY <1>t, <2>4, <3>1, <3>3, MoveTake DEF AbstractStep
    <2> QED BY <2>2, <2>3, <2>4
  <1>4. CASE FailBeforeCompute
    <2>1. J \in Jobs
      BY <1>4, <1>b DEF FailBeforeCompute, BodyPCs, PCs
    <2>2. \/ UNCHANGED <<job, att, spawns>>
          \/ Moves(J, "failed") /\ job[J].status = "running"
      BY <1>4, <1>t, <2>1 DEF FailBeforeCompute, Live, Moves, Row
    <2>3. CASE Moves(J, "failed") /\ job[J].status = "running"
      BY <1>t, <2>1, <2>3, MoveClose DEF AbstractStep, Active
    <2> QED BY <2>2, <2>3, Invisible DEF AbstractStep
  <1>5. CASE PrepareCompute
    <2>1. J \in Jobs
      BY <1>5, <1>b DEF PrepareCompute, BodyPCs, PCs
    <2>2. \/ UNCHANGED <<job, att, spawns>>
          \/ /\ job[J].status = "running" /\ att[J].phase = "none"
             /\ att'[J].phase = "submitting"
             /\ \A k \in Jobs \ {J} : att'[k] = att[k]
             /\ UNCHANGED <<job, spawns>>
      BY <1>5, <1>t, <2>1 DEF PrepareCompute, Live, NoAttempt
    <2>3. CASE UNCHANGED <<job, att, spawns>>
      BY <2>3, Invisible DEF AbstractStep
    <2>4. CASE /\ job[J].status = "running" /\ att[J].phase = "none"
               /\ att'[J].phase = "submitting"
               /\ \A k \in Jobs \ {J} : att'[k] = att[k]
               /\ UNCHANGED <<job, spawns>>
      <3>1. StageOf(job[J].status) = "owned"
        BY <2>4, StageFacts DEF Active
      <3> QED BY <2>1, <2>4, <3>1, Promises DEF AbstractStep
    <2> QED BY <2>2, <2>3, <2>4
  <1>6. CASE Submit
    <2>1. J \in Jobs
      BY <1>6, <1>b DEF Submit, BodyPCs, PCs
    <2>2. spawns[J] = 0 /\ att[J].phase = "submitting"
      BY <1>6 DEF Submit, IInv, TickOK, J
    <2>3. /\ UNCHANGED <<job, att>>
          /\ \/ spawns' = spawns
             \/ spawns' = [spawns EXCEPT ![J] = @ + 1]
      BY <1>6 DEF Submit, Spawned
    <2>4. CASE spawns' = spawns
      BY <2>3, <2>4, Invisible DEF AbstractStep
    <2>5. CASE spawns' = [spawns EXCEPT ![J] = @ + 1]
      <3> QED BY <1>t, <2>1, <2>2, <2>3, <2>5, Launches DEF AbstractStep
    <2> QED BY <2>3, <2>4, <2>5
  <1>7. CASE BindComputeHandle
    <2>1. J \in Jobs
      BY <1>7, <1>b DEF BindComputeHandle, BodyPCs, PCs
    <2>2. \A k \in Jobs : /\ job'[k].status = job[k].status
                          /\ (att'[k].phase # "none") <=> (att[k].phase # "none")
      <3>1. \/ job' = job /\ att' = att
            \/ /\ att[J].phase # "none"
               /\ job' = [job EXCEPT ![J].ref = TRUE]
               /\ att' = [att EXCEPT ![J].handle = TRUE, ![J].phase = "submitted"]
        BY <1>7 DEF BindComputeHandle
      <3>2. \A k \in Jobs : job'[k].status = job[k].status
        BY <1>t, <2>1, <3>1 DEF Row
      <3>3. \A k \in Jobs : att'[k].phase = att[k].phase
                           \/ (att[k].phase # "none" /\ att'[k].phase = "submitted")
        BY <1>t, <2>1, <3>1 DEF Attempt
      <3> QED BY <3>2, <3>3
    <2>3. spawns' = spawns
      BY <1>7 DEF BindComputeHandle
    <2> QED BY <2>2, <2>3, Invisible DEF AbstractStep
  <1>8. CASE ComputeUncertain \/ RecoverCompute \/ CancelElapsed \/ Heartbeat
    <2>1. J \in Jobs /\ job[J].status \in Active \cup Settled
      BY <1>8, <1>b DEF ComputeUncertain, RecoverCompute, CancelElapsed, Heartbeat,
         BodyPCs, PCs
    <2>2. /\ att' = att /\ spawns' = spawns
          /\ \A k \in Jobs \ {J} : job'[k].status = job[k].status
      BY <1>8, <1>t, <2>1 DEF ComputeUncertain, RecoverCompute, CancelElapsed, Heartbeat
    <2>3. \/ job'[J].status = job[J].status
          \/ job[J].status \in Active /\ job'[J].status \in Active
      <3>1. CASE ComputeUncertain
        BY <3>1, <1>t, <2>1 DEF ComputeUncertain, Row, Active
      <3>2. CASE RecoverCompute
        BY <3>2, <1>t, <2>1 DEF RecoverCompute, Row, Active
      <3>3. CASE CancelElapsed
        BY <3>3, <1>t, <2>1 DEF CancelElapsed, CancelStatus, Row, Active, Settled
      <3>4. CASE Heartbeat
        BY <3>4, <1>t, <2>1 DEF Heartbeat, Row
      <3> QED BY <1>8, <3>1, <3>2, <3>3, <3>4
    <2>4. \A s \in Active : StageOf(s) = "owned" /\ s \notin Receipts
      BY StageFacts DEF Active, Receipts
    <2> QED BY <2>1, <2>2, <2>3, <2>4, Invisible DEF AbstractStep
  <1>9. CASE BeginComputeCancel \/ RecordComputeCancel
    <2>1. J \in Jobs
      BY <1>9, <1>b DEF BeginComputeCancel, RecordComputeCancel, BodyPCs, PCs
    <2>2. job' = job /\ spawns' = spawns /\ \A k \in Jobs : att'[k].phase = att[k].phase
      BY <1>9, <1>t, <2>1 DEF BeginComputeCancel, RecordComputeCancel, Attempt
    <2> QED BY <2>2, Invisible DEF AbstractStep
  <1>10. CASE AcceptCompute
    <2>1. J \in Jobs
      BY <1>10, <1>b DEF AcceptCompute, BodyPCs, PCs
    <2>2. sch.receipt \in Receipts
      BY <1>10 DEF AcceptCompute, IInv, TickOK
    <2>3. att[J].handle => spawns[J] > 0 /\ att[J].phase # "none"
      BY <2>1 DEF IInv, HandleOK, AttemptOK
    <2> DEFINE t == IF Cancelling THEN "cancelled" ELSE sch.receipt
    <2>4. t = "cancelled" \/ t \in Receipts
      BY <2>2
    <2>5. t # "none"
      BY <2>4 DEF Receipts
    <2>6. \/ UNCHANGED <<job, att, spawns>>
          \/ /\ att[J].handle /\ job[J].status \in Active
             /\ job' = [job EXCEPT ![J] = [@ EXCEPT !.status = t, !.result = t]]
             /\ att' = [att EXCEPT ![J] = [@ EXCEPT !.phase = t, !.receipt = sch.receipt]]
             /\ spawns' = spawns
      BY <1>10, <1>t, <2>1 DEF AcceptCompute, Permitted, Active
    <2> HIDE DEF t
    <2>7. CASE UNCHANGED <<job, att, spawns>>
      BY <2>7, Invisible DEF AbstractStep
    <2>8. CASE /\ att[J].handle /\ job[J].status \in Active
               /\ job' = [job EXCEPT ![J] = [@ EXCEPT !.status = t, !.result = t]]
               /\ att' = [att EXCEPT ![J] = [@ EXCEPT !.phase = t, !.receipt = sch.receipt]]
               /\ spawns' = spawns
      <3>1. job'[J].status = t
        BY <1>t, <2>1, <2>8 DEF Row
      <3>2. att'[J].phase = t
        BY <1>t, <2>1, <2>8 DEF Attempt
      <3>3. \A k \in Jobs \ {J} : job'[k] = job[k] /\ att'[k] = att[k]
        BY <1>t, <2>1, <2>8
      <3>4. Moves(J, t)
        BY <2>1, <2>3, <2>5, <2>8, <3>1, <3>2, <3>3 DEF Moves
      <3> QED
        BY <1>t, <2>1, <2>3, <2>4, <2>8, <3>4, MoveClose, MoveSelect DEF AbstractStep
    <2> QED BY <2>6, <2>7, <2>8
  <1> QED
    BY <1>1, <1>2, <1>3, <1>4, <1>5, <1>6, <1>7, <1>8, <1>9, <1>10 DEF Scheduler

LEMMA NextMaps == ASSUME IInv, [Next]_vars PROVE AbstractStep
  <1>1. CASE Start \/ Crash \/ TickRaises \/ TimePasses \/ UNCHANGED vars
             \/ \E j \in Jobs : CallEnds(j)
    <2>1. UNCHANGED <<job, att, spawns>>
      BY <1>1 DEF Start, Crash, TickRaises, TimePasses, CallEnds, vars, table, ext
    <2> QED BY <2>1, Invisible DEF AbstractStep
  <1> QED BY <1>1, OperatorMaps, SchedulerMaps DEF Next

LEMMA InitMaps == ASSUME Init PROVE Ledger!Init
  <1>1. \A j \in Jobs : /\ job[j].status = "absent" /\ att[j].phase = "none"
                        /\ spawns[j] = 0
    BY DEF Init, EmptyRow, NoAttempt
  <1> QED BY <1>1, StageFacts DEF Ledger!Init, Receipts

\* The detailed ledger implements the abstract one.
THEOREM Refinement == Spec => ImplementsLedger
  <1>1. Init => Ledger!Init
    BY InitMaps
  <1>2. IInv /\ [Next]_vars => [Ledger!Next]_(Ledger!ledgerVars)
    BY NextMaps DEF AbstractStep, Abstract, Ledger!Next, Ledger!ledgerVars, Stage,
       Promised, Launched, Selected
  <1> QED
    BY <1>1, <1>2, Invariance, PTL DEF Spec, ImplementsLedger, Ledger!Spec
=============================================================================
