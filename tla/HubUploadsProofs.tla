-------------------------- MODULE HubUploadsProofs --------------------------
(***************************************************************************)
(* Proofs about the reception of uploads: UploadInv is inductive, and a    *)
(* receipt is archived, unique under local staging, and final.             *)
(***************************************************************************)
EXTENDS HubUploads, FiniteSetTheorems, TLAPS

USE UploadConstantsOK

\* The retry delay is a number of seconds whatever the attempt.
LEMMA BackoffNat == ASSUME NEW n \in Nat PROVE Backoff(n) \in Nat
BY DEF Backoff

\* What one counted failure does to a row.
LEMMA FailedRow ==
  ASSUME NEW r \in Row, clock \in Nat,
         r.status \in {"awaiting_upload", "verification_pending"} =>
           r.attempts < MaxAttempts
  PROVE  /\ Failed(r) \in Row
         /\ Failed(r).receipt = r.receipt
         /\ r.status # "verification_pending" => Failed(r) = r
         /\ r.status = "verification_pending" =>
              /\ Failed(r).status \in {"verification_pending", "transfer_failed"}
              /\ Failed(r).attempts = r.attempts + 1
              /\ Failed(r).status = "transfer_failed"
                   => Failed(r).attempts = MaxAttempts
              /\ Failed(r).status = "verification_pending"
                   => Failed(r).attempts < MaxAttempts
<1>1. Backoff(r.attempts + 1) \in Nat
  BY BackoffNat DEF Row
<1> DEFINE later == clock + Backoff(r.attempts + 1)
<1>2. later \in Nat
  BY <1>1
<1> HIDE DEF later
<1>3. Failed(r) = IF r.status # "verification_pending" THEN r
                  ELSE [r EXCEPT !.attempts = @ + 1, !.retryAt = later,
                                 !.status = IF r.attempts + 1 >= MaxAttempts
                                            THEN "transfer_failed" ELSE @]
  BY DEF Failed, later
<1>4. CASE r.status # "verification_pending"
  BY <1>3, <1>4
<1>5. CASE r.status = "verification_pending"
  <2> DEFINE s == IF r.attempts + 1 >= MaxAttempts
                  THEN "transfer_failed" ELSE r.status
  <2>1. Failed(r) = [r EXCEPT !.attempts = r.attempts + 1, !.retryAt = later,
                              !.status = s]
    BY <1>3, <1>5
  <2>2. s \in Statuses
    BY <1>5 DEF Statuses
  <2>3. r.attempts \in Nat /\ r.attempts < MaxAttempts
    BY <1>5 DEF Row
  <2>4. /\ s \in {"verification_pending", "transfer_failed"}
        /\ s = "transfer_failed" => r.attempts + 1 = MaxAttempts
        /\ s = "verification_pending" => r.attempts + 1 < MaxAttempts
    BY <1>5, <2>3
  <2> HIDE DEF s
  <2>5. /\ Failed(r).attempts = r.attempts + 1
        /\ Failed(r).status = s
        /\ Failed(r).receipt = r.receipt
    BY <2>1 DEF Row
  <2>6. Failed(r) \in Row
    <3> DEFINE a == [r EXCEPT !.attempts = r.attempts + 1]
    <3> DEFINE b == [a EXCEPT !.retryAt = later]
    <3>1. a \in Row
      BY <2>3 DEF Row
    <3>2. b \in Row
      BY <1>2, <3>1 DEF Row
    <3>3. [b EXCEPT !.status = s] \in Row
      BY <2>2, <3>2 DEF Row
    <3>4. Failed(r) = [b EXCEPT !.status = s]
      BY <2>1 DEF Row
    <3> QED
      BY <3>3, <3>4
  <2> QED
    BY <1>5, <2>4, <2>5, <2>6
<1> QED
  BY <1>4, <1>5

\* The initial state satisfies the invariant.
LEMMA InitUploadInv == Init => UploadInv
BY DEF Init, UploadInv, TypeOK, ReceiptArchived, BoundedAttempts, WorkOK,
       StagedOK, Known, NoRow, NoProc, SupAt, Row, Process, Processes,
       Supervisor, Statuses, Terminal, Bodies, Outcome

\* A step that leaves rows, processes, the store and staging alone.
LEMMA QuietStep ==
  ASSUME UploadInv, UNCHANGED <<up, staged, evidence, proc>>,
         puts' \subseteq Uploads \X Bodies, sup' \in Supervisor,
         sup'.pc \in {"chosen", "running", "failing"} => sup'.upload \in Known,
         clock' \in Nat, faults' \in Nat
  PROVE  UploadInv'
BY DEF UploadInv, TypeOK, ReceiptArchived, BoundedAttempts, WorkOK, StagedOK,
       Known

\* Requests of devices and operators.
LEMMA RequestStep ==
  ASSUME UploadInv, Request
  PROVE  UploadInv'
<1> USE DEF Row, Statuses, Terminal, Known
<1>1. PICK u \in Uploads :
        \/ CreateUpload(u) \/ RequestVerification(u) \/ RetryUpload(u)
        \/ \E b \in Bodies : BeginPut(u, b) \/ EndPut(u, b)
  BY DEF Request
<1>2. CASE CreateUpload(u)
  <2>1. Cardinality(Known) + 1 \in Nat
    <3>1. IsFiniteSet(Known)
      BY FS_Subset DEF Known
    <3> QED BY <3>1, FS_CardinalityType
  <2> DEFINE r == [up[u] EXCEPT !.status = "awaiting_upload",
                                !.rowid = Cardinality(Known) + 1]
  <2>2. /\ up' = [up EXCEPT ![u] = r]
        /\ up[u].status = "absent"
        /\ UNCHANGED <<puts, staged, evidence, sup, proc, clock, faults>>
    BY <1>2 DEF CreateUpload, service
  <2>3. /\ r \in Row
        /\ r.status = "awaiting_upload"
        /\ r.receipt = up[u].receipt
        /\ r.attempts = up[u].attempts
    BY <2>1 DEF UploadInv, TypeOK
  <2> HIDE DEF r
  <2>4. TypeOK'
    BY <2>2, <2>3 DEF UploadInv, TypeOK
  <2>5. ReceiptArchived'
    BY <2>2, <2>3 DEF UploadInv, TypeOK, ReceiptArchived
  <2>6. BoundedAttempts'
    BY <2>2, <2>3 DEF UploadInv, TypeOK, BoundedAttempts
  <2>7. WorkOK' /\ StagedOK'
    BY <2>2, <2>3 DEF UploadInv, TypeOK, WorkOK, StagedOK
  <2> QED
    BY <2>4, <2>5, <2>6, <2>7 DEF UploadInv
<1>3. CASE RequestVerification(u)
  BY <1>3 DEF RequestVerification, service, UploadInv, TypeOK, ReceiptArchived,
     BoundedAttempts, WorkOK, StagedOK, Outcome
<1>4. CASE RetryUpload(u)
  BY <1>4 DEF RetryUpload, service, UploadInv, TypeOK, ReceiptArchived,
     BoundedAttempts, WorkOK, StagedOK, Outcome
<1>5. ASSUME NEW b \in Bodies, BeginPut(u, b) PROVE UploadInv'
  BY <1>5, QuietStep DEF BeginPut, service, UploadInv, TypeOK, WorkOK
<1>6. ASSUME NEW b \in Bodies, EndPut(u, b) PROVE UploadInv'
  <2>1. Written(staged[u], b) \in Bodies
    BY DEF UploadInv, TypeOK, Written, Bodies
  <2>2. /\ puts' = puts \ {<<u, b>>}
        /\ UNCHANGED <<up, evidence, sup, proc, clock, faults>>
        /\ staged' = staged \/ staged' = [staged EXCEPT ![u] = Written(@, b)]
    BY <1>6 DEF EndPut, service
  <2>3. TypeOK'
    BY <2>1, <2>2 DEF UploadInv, TypeOK
  <2>4. ReceiptArchived' /\ BoundedAttempts' /\ WorkOK'
    BY <2>2 DEF UploadInv, ReceiptArchived, BoundedAttempts, WorkOK
  <2>5. StagedOK'
    <3> SUFFICES ASSUME ~Replaceable PROVE StagedOK'
      BY DEF StagedOK
    <3>1. \A v \in Uploads : staged[v] \in Bodies => staged'[v] = staged[v]
      BY <2>2 DEF UploadInv, TypeOK, Written, Bodies
    <3> QED
      BY <2>2, <3>1 DEF UploadInv, StagedOK, WorkOK, TypeOK
  <2> QED
    BY <2>3, <2>4, <2>5 DEF UploadInv
<1> QED
  BY <1>1, <1>2, <1>3, <1>4, <1>5, <1>6

\* Recording a failure keeps the invariant, whoever records it.
LEMMA FailedStep ==
  ASSUME UploadInv, NEW u \in Known, up' = [up EXCEPT ![u] = Failed(@)],
         UNCHANGED <<puts, staged, evidence>>,
         proc' \in [Processes -> Process], sup' \in Supervisor,
         sup'.pc \in {"chosen", "running", "failing"} => sup'.upload \in Known,
         \A p \in Processes :
           /\ proc'[p].pc # "none" => proc'[p].upload \in Known
           /\ proc'[p].pc \in {"publish", "finish"} => proc'[p] = proc[p],
         clock' \in Nat, faults' \in Nat
  PROVE  UploadInv'
<1>1. /\ u \in Uploads
      /\ up[u] \in Row
      /\ up[u].status # "absent"
  BY DEF UploadInv, TypeOK, Known
<1>2. up[u].status \in {"awaiting_upload", "verification_pending"} =>
        up[u].attempts < MaxAttempts
  BY <1>1 DEF UploadInv, BoundedAttempts
<1> DEFINE r == Failed(up[u])
<1>3. /\ r \in Row
      /\ r.receipt = up[u].receipt
      /\ up[u].status # "verification_pending" => r = up[u]
      /\ up[u].status = "verification_pending" =>
           /\ r.status \in {"verification_pending", "transfer_failed"}
           /\ r.status = "transfer_failed" => r.attempts = MaxAttempts
           /\ r.status = "verification_pending" => r.attempts < MaxAttempts
  BY <1>1, <1>2, FailedRow DEF UploadInv, TypeOK
<1>4. up' = [up EXCEPT ![u] = r]
  OBVIOUS
<1> HIDE DEF r
<1>5. TypeOK'
  BY <1>1, <1>3, <1>4 DEF UploadInv, TypeOK
<1>6. ReceiptArchived'
  BY <1>1, <1>3, <1>4 DEF UploadInv, TypeOK, ReceiptArchived, Terminal
<1>7. BoundedAttempts'
  BY <1>1, <1>3, <1>4 DEF UploadInv, TypeOK, BoundedAttempts
<1>8. Known' = Known
  BY <1>1, <1>3, <1>4 DEF Known, UploadInv, TypeOK
<1>9. WorkOK'
  BY <1>8 DEF UploadInv, WorkOK
<1>10. StagedOK'
  BY DEF UploadInv, StagedOK
<1> QED
  BY <1>5, <1>6, <1>7, <1>9, <1>10 DEF UploadInv

\* A step that only replaces one process by one without an archive.
LEMMA ProcessStep ==
  ASSUME UploadInv, UNCHANGED <<up, puts, staged, evidence>>,
         NEW p \in Processes, NEW q \in Process, proc' = [proc EXCEPT ![p] = q],
         q.pc # "none" => q.upload \in Known,
         q.pc \notin {"publish", "finish"},
         sup' \in Supervisor,
         sup'.pc \in {"chosen", "running", "failing"} => sup'.upload \in Known,
         clock' \in Nat, faults' \in Nat
  PROVE  UploadInv'
<1>1. TypeOK'
  BY DEF UploadInv, TypeOK
<1>2. ReceiptArchived' /\ BoundedAttempts'
  BY DEF UploadInv, ReceiptArchived, BoundedAttempts
<1>3. \A o \in Processes : proc'[o] = IF o = p THEN q ELSE proc[o]
  BY DEF UploadInv, TypeOK
<1>4. Known' = Known
  BY DEF Known
<1>5. WorkOK'
  BY <1>3, <1>4 DEF UploadInv, WorkOK
<1>6. StagedOK'
  BY <1>3 DEF UploadInv, StagedOK
<1> QED
  BY <1>1, <1>2, <1>5, <1>6 DEF UploadInv

\* The steps of a verifier process.
LEMMA VerifierStep ==
  ASSUME UploadInv, NEW p \in Processes, Verifier(p)
  PROVE  UploadInv'
<1> DEFINE u == proc[p].upload
<1>1. /\ proc[p] \in Process
      /\ proc[p].pc # "none" => u \in Known /\ u \in Uploads
  BY DEF UploadInv, TypeOK, WorkOK, Known
<1>2. CASE ReadRow(p)
  <2>1. PICK s \in {"download", "exited"} :
          proc' = [proc EXCEPT ![p].pc = s]
    BY <1>2 DEF ReadRow, Move
  <2>2. proc[p].pc = "read" /\ u \in Known
    BY <1>1, <1>2 DEF ReadRow
  <2> DEFINE q == [proc[p] EXCEPT !.pc = s]
  <2>3. /\ q \in Process
        /\ q.pc = s
        /\ q.upload = u
        /\ proc' = [proc EXCEPT ![p] = q]
    BY <1>1, <2>1, <2>2 DEF Process
  <2>4. /\ UNCHANGED <<up, puts, staged, evidence>>
        /\ clock' \in Nat /\ faults' \in Nat /\ sup' \in Supervisor
        /\ sup'.pc \in {"chosen", "running", "failing"} => sup'.upload \in Known
    BY <1>2 DEF ReadRow, UploadInv, TypeOK, WorkOK
  <2> HIDE DEF q, u
  <2> QED
    BY <2>2, <2>3, <2>4, ProcessStep
<1>3. CASE Download(p)
  BY <1>1, <1>3 DEF Download, UploadInv, TypeOK, ReceiptArchived,
     BoundedAttempts, WorkOK, StagedOK, Process, Known, Bodies
<1>4. CASE Publish(p)
  <2>1. /\ proc[p].pc = "publish"
        /\ proc[p].body \in Bodies
        /\ u \in Uploads
    BY <1>1, <1>4 DEF Publish, UploadInv, WorkOK
  <2>2. TypeOK'
    BY <1>4, <2>1 DEF Publish, Move, UploadInv, TypeOK, Process
  <2>3. ReceiptArchived' /\ BoundedAttempts'
    BY <1>4 DEF Publish, UploadInv, ReceiptArchived, BoundedAttempts
  <2>4. WorkOK'
    BY <1>4, <2>1 DEF Publish, Move, UploadInv, TypeOK, WorkOK, Known, Process
  <2>5. StagedOK'
    BY <1>4, <2>1 DEF Publish, Move, UploadInv, TypeOK, StagedOK, Process
  <2> QED
    BY <2>2, <2>3, <2>4, <2>5 DEF UploadInv
<1>5. CASE FinishUpload(p)
  <2>1. /\ proc[p].pc = "finish"
        /\ proc[p].body \in Bodies
        /\ u \in Uploads /\ u \in Known
        /\ <<u, proc[p].body>> \in evidence
    BY <1>1, <1>5 DEF FinishUpload, UploadInv, WorkOK
  <2>2. CASE up[u].receipt \in {"none", proc[p].body}
    <3> DEFINE r == [up[u] EXCEPT !.status = Outcome(proc[p].body),
                                  !.receipt = proc[p].body]
    <3>1. /\ up' = [up EXCEPT ![u] = r]
          /\ proc' = [proc EXCEPT ![p].pc = "exited"]
          /\ UNCHANGED <<puts, staged, evidence, sup, clock, faults>>
      BY <1>5, <2>2 DEF FinishUpload, Move
    <3>2. /\ r \in Row
          /\ r.status = Outcome(proc[p].body)
          /\ r.receipt = proc[p].body
          /\ r.status \in Terminal
      <4> DEFINE o == Outcome(proc[p].body)
      <4>1. o \in Terminal
        BY DEF Outcome, Terminal
      <4>2. up[u] \in Row
        BY <2>1 DEF UploadInv, TypeOK
      <4>3. r = [up[u] EXCEPT !.status = o, !.receipt = proc[p].body]
        OBVIOUS
      <4> HIDE DEF o
      <4> DEFINE a == [up[u] EXCEPT !.status = o]
      <4>4. a \in Row
        BY <4>1, <4>2 DEF Row, Statuses
      <4>5. [a EXCEPT !.receipt = proc[p].body] \in Row
        BY <2>1, <4>4 DEF Row
      <4>6. r = [a EXCEPT !.receipt = proc[p].body]
        BY <4>2, <4>3 DEF Row
      <4>7. r.status = o /\ r.receipt = proc[p].body
        BY <4>2, <4>3 DEF Row
      <4> HIDE DEF r, a
      <4> QED
        BY <4>1, <4>5, <4>6, <4>7 DEF o
    <3> HIDE DEF r
    <3>3. TypeOK'
      BY <2>1, <3>1, <3>2 DEF UploadInv, TypeOK, Process
    <3>4. ReceiptArchived'
      BY <2>1, <3>1, <3>2 DEF UploadInv, TypeOK, ReceiptArchived, Bodies
    <3>5. BoundedAttempts'
      BY <2>1, <3>1, <3>2 DEF UploadInv, TypeOK, BoundedAttempts, Terminal
    <3>6. Known' = Known
      BY <2>1, <3>1, <3>2 DEF Known, UploadInv, TypeOK, Terminal
    <3>7. WorkOK' /\ StagedOK'
      BY <2>1, <3>1, <3>6 DEF UploadInv, TypeOK, WorkOK, StagedOK, Process
    <3> QED
      BY <3>3, <3>4, <3>5, <3>7 DEF UploadInv
  <2>3. CASE up[u].receipt \notin {"none", proc[p].body}
    BY <1>1, <1>5, <2>1, <2>3 DEF FinishUpload, Move, UploadInv, TypeOK,
       ReceiptArchived, BoundedAttempts, WorkOK, StagedOK, Process, Known
  <2> QED
    BY <2>2, <2>3
<1>6. CASE Raise(p)
  BY <1>1, <1>6 DEF Raise, Move, UploadInv, TypeOK, ReceiptArchived,
     BoundedAttempts, WorkOK, StagedOK, Process, Known
<1>7. CASE RecordFailure(p)
  <2>1. /\ proc[p].pc = "fail"
        /\ u \in Known
        /\ up' = [up EXCEPT ![u] = Failed(@)]
        /\ proc' = [proc EXCEPT ![p].pc = "exited"]
        /\ UNCHANGED <<puts, staged, evidence, sup, clock, faults>>
    BY <1>1, <1>7 DEF RecordFailure, Move
  <2>2. proc' \in [Processes -> Process]
    BY <2>1 DEF UploadInv, TypeOK, Process
  <2>3. \A q \in Processes :
          /\ proc'[q].pc # "none" => proc'[q].upload \in Known
          /\ proc'[q].pc \in {"publish", "finish"} => proc'[q] = proc[q]
    BY <1>1, <2>1 DEF UploadInv, TypeOK, WorkOK, Process
  <2>4. /\ clock' \in Nat /\ faults' \in Nat /\ sup' \in Supervisor
        /\ sup'.pc \in {"chosen", "running", "failing"} => sup'.upload \in Known
    BY <2>1 DEF UploadInv, TypeOK, WorkOK
  <2> HIDE DEF u
  <2> QED
    BY <2>1, <2>2, <2>3, <2>4, FailedStep
<1> QED
  BY <1>2, <1>3, <1>4, <1>5, <1>6, <1>7 DEF Verifier

\* The verifier thread, the operator's verify command, kills and restarts.
LEMMA SupervisorStep ==
  ASSUME UploadInv,
         \/ Supervise \/ ThreadDies \/ Start \/ Stop
         \/ \E p \in Processes : Killed(p)
         \/ \E u \in Uploads : VerifyCommand(u)
  PROVE  UploadInv'
<1>1. /\ \A p \in Processes : /\ proc[p] \in Process
                             /\ proc[p].pc # "none" => proc[p].upload \in Known
      /\ sup \in Supervisor
      /\ sup.pc \in {"chosen", "running", "failing"} => sup.upload \in Known
      /\ puts \subseteq Uploads \X Bodies
      /\ clock \in Nat /\ faults \in Nat
      /\ Known \subseteq Uploads
  BY DEF UploadInv, TypeOK, WorkOK, Known
<1>2. /\ NoProc \in Process /\ NoProc.pc = "none"
      /\ "child" \in Processes /\ "other" \in Processes
  BY DEF NoProc, Process, Processes
<1>3. \A u \in Known : /\ NewProc(u) \in Process
                      /\ NewProc(u).pc = "read"
                      /\ NewProc(u).upload = u
  BY <1>1 DEF NewProc, Process
<1>4. CASE PendingUpload \/ Defer \/ ThreadDies \/ Start
  BY <1>1, <1>4, QuietStep
     DEF PendingUpload, Defer, ThreadDies, Start, SupAt, Supervisor, Due, Known, Statuses
<1>5. CASE Spawn
  <2>1. sup' = [sup EXCEPT !.pc = "running"] /\ sup.upload \in Known
    BY <1>1, <1>5 DEF Spawn
  <2>2. sup' \in Supervisor /\ sup'.upload = sup.upload
    BY <1>1, <2>1 DEF Supervisor
  <2>3. /\ proc' = [proc EXCEPT !["child"] = NewProc(sup.upload)]
        /\ UNCHANGED <<up, puts, staged, evidence, clock, faults>>
    BY <1>5 DEF Spawn
  <2> QED
    BY <1>1, <1>2, <1>3, <2>1, <2>2, <2>3, ProcessStep
<1>6. CASE ChildExits \/ Timeout
  <2>1. /\ proc' = [proc EXCEPT !["child"] = NoProc]
        /\ UNCHANGED <<up, puts, staged, evidence, clock, faults>>
        /\ sup.pc = "running"
        /\ sup' = SupAt("idle", NoUpload) \/ sup' = [sup EXCEPT !.pc = "failing"]
    BY <1>6 DEF ChildExits, Timeout
  <2>2. sup' \in Supervisor /\ (sup'.pc = "idle" \/ sup'.upload = sup.upload)
    BY <1>1, <2>1 DEF Supervisor, SupAt
  <2> QED
    BY <1>1, <1>2, <2>1, <2>2, ProcessStep
<1>7. CASE ParentFailure
  <2>1. /\ sup.upload \in Known
        /\ up' = [up EXCEPT ![sup.upload] = Failed(@)]
        /\ sup' = SupAt("idle", NoUpload)
        /\ UNCHANGED <<puts, staged, evidence, proc, clock, faults>>
    BY <1>1, <1>7 DEF ParentFailure
  <2>2. sup' \in Supervisor /\ sup'.pc = "idle"
    BY <2>1 DEF Supervisor, SupAt
  <2>3. proc' \in [Processes -> Process]
    BY <2>1 DEF UploadInv, TypeOK
  <2> QED
    BY <1>1, <2>1, <2>2, <2>3, FailedStep
<1>8. CASE Stop
  <2>1. /\ sup' = SupAt("down", NoUpload)
        /\ faults' = faults + 1
        /\ puts' \subseteq Uploads \X Bodies
        /\ UNCHANGED <<up, staged, evidence, clock>>
        /\ \/ proc' = [proc EXCEPT !["child"] = NoProc]
           \/ proc' = [proc EXCEPT !["child"] = NoProc, !["other"] = proc["child"]]
    BY <1>1, <1>8 DEF Stop
  <2>2. sup' \in Supervisor /\ sup'.pc = "down" /\ faults' \in Nat
    BY <1>1, <2>1 DEF Supervisor, SupAt
  <2>3. \A p \in Processes : proc'[p] \in {NoProc, proc[p], proc["child"]}
    BY <2>1 DEF UploadInv, TypeOK, Processes
  <2>4. TypeOK'
    BY <1>1, <1>2, <2>1, <2>2 DEF UploadInv, TypeOK
  <2>5. ReceiptArchived' /\ BoundedAttempts'
    BY <2>1 DEF UploadInv, ReceiptArchived, BoundedAttempts
  <2>6. Known' = Known
    BY <2>1 DEF Known
  <2>7. WorkOK'
    BY <1>2, <2>1, <2>2, <2>3, <2>6 DEF UploadInv, WorkOK
  <2>8. StagedOK'
    BY <1>2, <2>1, <2>3 DEF UploadInv, StagedOK
  <2> QED
    BY <2>4, <2>5, <2>7, <2>8 DEF UploadInv
<1>9. ASSUME NEW p \in Processes, Killed(p) PROVE UploadInv'
  <2>0. proc[p].pc # "none"
    BY <1>9 DEF Killed, Alive
  <2>2. proc[p] \in Process /\ proc[p].upload \in Known
    BY <2>0 DEF UploadInv, TypeOK, WorkOK
  <2> DEFINE q == [proc[p] EXCEPT !.pc = "killed"]
  <2>1. /\ proc' = [proc EXCEPT ![p] = q]
        /\ UNCHANGED <<up, puts, staged, evidence, sup, clock, faults>>
    BY <1>9 DEF Killed, Move
  <2>3. q \in Process /\ q.pc = "killed" /\ q.upload = proc[p].upload
    BY <2>2 DEF Process
  <2> HIDE DEF q
  <2>4. /\ clock' \in Nat /\ faults' \in Nat /\ sup' \in Supervisor
        /\ sup'.pc \in {"chosen", "running", "failing"} => sup'.upload \in Known
    BY <1>1, <2>1
  <2> QED
    BY <2>1, <2>2, <2>3, <2>4, ProcessStep
<1>10. ASSUME NEW u \in Uploads, VerifyCommand(u) PROVE UploadInv'
  <2>1. /\ proc' = [proc EXCEPT !["other"] = NewProc(u)]
        /\ UNCHANGED <<up, puts, staged, evidence, sup, clock>>
        /\ faults' = faults + 1
        /\ u \in Known
    BY <1>10 DEF VerifyCommand
  <2>2. faults' \in Nat
    BY <1>1, <2>1
  <2> QED
    BY <1>1, <1>2, <1>3, <2>1, <2>2, ProcessStep
<1> QED
  BY <1>4, <1>5, <1>6, <1>7, <1>8, <1>9, <1>10 DEF Supervise

\* Every step preserves the invariant.
LEMMA NextUploadInv == UploadInv /\ [Next]_vars => UploadInv'
<1> SUFFICES ASSUME UploadInv, [Next]_vars PROVE UploadInv'
  OBVIOUS
<1>1. CASE Request
  BY <1>1, RequestStep
<1>2. ASSUME NEW p \in Processes, Verifier(p) PROVE UploadInv'
  BY <1>2, VerifierStep
<1>3. CASE \/ Supervise \/ ThreadDies \/ Start \/ Stop
           \/ \E p \in Processes : Killed(p)
           \/ \E u \in Uploads : VerifyCommand(u)
  BY <1>3, SupervisorStep
<1>4. CASE TimePasses \/ UNCHANGED vars
  BY <1>4, QuietStep DEF TimePasses, vars, UploadInv, TypeOK, WorkOK
<1> QED
  BY <1>1, <1>2, <1>3, <1>4 DEF Next

\* The inductive invariant of upload reception, for every set of uploads,
\* every limit and either kind of staging.
THEOREM UploadInvariance == Spec => []UploadInv
<1>1. Init => UploadInv
  BY InitUploadInv
<1>2. UploadInv /\ [Next]_vars => UploadInv'
  BY NextUploadInv
<1> QED
  BY <1>1, <1>2, PTL DEF Spec

\* Every row, process and the supervisor stay in their domains.
THEOREM UploadTypes == Spec => []TypeOK
<1>1. UploadInv => TypeOK
  BY DEF UploadInv
<1> QED
  BY <1>1, UploadInvariance, PTL

\* finish_upload: a terminal status comes with a receipt whose archive is in
\* the store, however many verifiers ran and wherever they died.
THEOREM ReceiptsArchived == Spec => []ReceiptArchived
<1>1. UploadInv => ReceiptArchived
  BY DEF UploadInv
<1> QED
  BY <1>1, UploadInvariance, PTL

\* verification_failure and retry_upload: an upload fails after exactly the
\* allowed number of failures of its retry cycle.
THEOREM AttemptsBounded == Spec => []BoundedAttempts
<1>1. UploadInv => BoundedAttempts
  BY DEF UploadInv
<1> QED
  BY <1>1, UploadInvariance, PTL

\* LocalStaging.write: with local staging an upload has one disposition.
THEOREM DispositionUnique == Spec => []OneDisposition
<1>1. UploadInv => OneDisposition
  BY DEF UploadInv, StagedOK, OneDisposition, Bodies
<1> QED
  BY <1>1, UploadInvariance, PTL

\* A step keeps the receipt of a row that has one, and its status.
LEMMA ReceiptStep ==
  ASSUME UploadInv, [Next]_vars, NEW u \in Uploads, up[u].receipt # "none"
  PROVE  up'[u].receipt = up[u].receipt /\ up'[u].status = up[u].status
<1>1. /\ up[u] \in Row
      /\ up[u].status \in Terminal
      /\ up[u].status = Outcome(up[u].receipt)
  BY DEF UploadInv, TypeOK, ReceiptArchived
<1>2. \A v \in Uploads : v # u => [up EXCEPT ![v] = Failed(@)][u] = up[u]
  BY DEF UploadInv, TypeOK
<1>3. [up EXCEPT ![u] = Failed(@)][u] = up[u]
  BY <1>1 DEF UploadInv, TypeOK, Failed, Terminal
<1>4. CASE Request
  BY <1>1, <1>4 DEF Request, CreateUpload, RequestVerification, RetryUpload,
     BeginPut, EndPut, UploadInv, TypeOK, Terminal
<1>5. ASSUME NEW p \in Processes, Verifier(p)
      PROVE  up'[u].receipt = up[u].receipt /\ up'[u].status = up[u].status
  <2>1. CASE RecordFailure(p)
    BY <1>2, <1>3, <2>1 DEF RecordFailure, UploadInv, WorkOK, Known
  <2>2. CASE FinishUpload(p)
    <3>1. CASE proc[p].upload = u
      <4>1. CASE up[u].receipt = proc[p].body
        BY <1>1, <2>2, <3>1, <4>1 DEF FinishUpload, UploadInv, TypeOK, Row
      <4>2. CASE up[u].receipt # proc[p].body
        BY <2>2, <3>1, <4>2 DEF FinishUpload
      <4> QED
        BY <4>1, <4>2
    <3>2. CASE proc[p].upload # u
      BY <2>2, <3>2 DEF FinishUpload, UploadInv, TypeOK
    <3> QED
      BY <3>1, <3>2
  <2>3. CASE ReadRow(p) \/ Download(p) \/ Publish(p) \/ Raise(p)
    BY <2>3 DEF ReadRow, Download, Publish, Raise
  <2> QED
    BY <1>5, <2>1, <2>2, <2>3 DEF Verifier
<1>6. CASE ParentFailure
  BY <1>2, <1>3, <1>6 DEF ParentFailure, UploadInv, WorkOK, Known
<1>7. CASE \/ PendingUpload \/ Defer \/ Spawn \/ ChildExits \/ Timeout
           \/ ThreadDies \/ Start \/ Stop \/ TimePasses \/ UNCHANGED vars
           \/ \E p \in Processes : Killed(p)
           \/ \E v \in Uploads : VerifyCommand(v)
  BY <1>7 DEF PendingUpload, Defer, Spawn, ChildExits, Timeout, ThreadDies,
     Start, Stop, TimePasses, vars, Killed, VerifyCommand
<1> QED
  BY <1>4, <1>5, <1>6, <1>7 DEF Next, Supervise

\* finish_upload, verification_failure and retry_upload: the first receipt of
\* an upload is its last.
THEOREM ReceiptsFinal == Spec => ReceiptFinal
<1>1. UploadInv /\ [Next]_vars =>
        [\A u \in Uploads : up[u].receipt # "none" =>
           up'[u].receipt = up[u].receipt /\ up'[u].status = up[u].status]_vars
  BY ReceiptStep
<1> QED
  BY <1>1, UploadInvariance, PTL DEF Spec, ReceiptFinal

-----------------------------------------------------------------------------
(* With staging on the Hub's disk, HubUploads implements UploadReception:   *)
(* every step is one of what the device was promised, or changes nothing    *)
(* that it sees.                                                            *)

Status == [u \in Uploads |-> up[u].status]
WasAsked(r) == r.status \notin {"absent", "awaiting_upload"} \/ r.cycle > 0

\* What one row's change is to the device.
LEMMA RowSeen ==
  ASSUME UploadInv, NEW u \in Uploads, NEW r \in Row, up' = [up EXCEPT ![u] = r]
  PROVE  /\ Status' = [Status EXCEPT ![u] = r.status]
         /\ (WasAsked(r) <=> u \in Asked) => Asked' = Asked
         /\ WasAsked(r) => Asked' = Asked \cup {u}
         /\ u \in Asked <=> WasAsked(up[u])
         /\ Status[u] = up[u].status
<1>1. \A v \in Uploads : up'[v] = IF v = u THEN r ELSE up[v]
  BY DEF UploadInv, TypeOK
<1>2. Status' = [Status EXCEPT ![u] = r.status]
  <2>1. Status' = [v \in Uploads |-> up'[v].status]
    BY DEF Status
  <2>2. \A v \in Uploads : up'[v].status = IF v = u THEN r.status ELSE up[v].status
    BY <1>1
  <2>3. [Status EXCEPT ![u] = r.status]
          = [v \in Uploads |-> IF v = u THEN r.status ELSE up[v].status]
    BY DEF Status
  <2> QED
    BY <2>1, <2>2, <2>3
<1>3. \A v \in Uploads : v \in Asked' <=> (v # u /\ v \in Asked) \/ (v = u /\ WasAsked(r))
  BY <1>1 DEF Asked, WasAsked
<1>4. Asked' \subseteq Uploads /\ Asked \subseteq Uploads
  BY DEF Asked
<1>5. /\ (WasAsked(r) <=> u \in Asked) => Asked' = Asked
      /\ WasAsked(r) => Asked' = Asked \cup {u}
  BY <1>3, <1>4
<1> QED
  BY <1>2, <1>5 DEF Status, Asked, WasAsked

\* A counted failure is a failed transfer, or is not seen.
LEMMA FailureSeen ==
  ASSUME UploadInv, NEW u \in Known, up' = [up EXCEPT ![u] = Failed(@)],
         UNCHANGED staged
  PROVE  \/ Reception!FailTransfer(u)
         \/ UNCHANGED <<Status, staged, Asked>>
<1>1. u \in Uploads /\ up[u] \in Row /\ up[u].status # "absent" /\ clock \in Nat
  BY DEF UploadInv, TypeOK, Known
<1> DEFINE r == Failed(up[u])
<1>2. /\ r \in Row
      /\ up[u].status # "verification_pending" => r = up[u]
      /\ up[u].status = "verification_pending" =>
           r.status \in {"verification_pending", "transfer_failed"}
  BY <1>1, FailedRow DEF UploadInv, BoundedAttempts
<1>3. up' = [up EXCEPT ![u] = r]
  OBVIOUS
<1> HIDE DEF r
<1>4. /\ Status' = [Status EXCEPT ![u] = r.status]
      /\ (WasAsked(r) <=> u \in Asked) => Asked' = Asked
      /\ u \in Asked <=> WasAsked(up[u])
      /\ Status[u] = up[u].status
  BY <1>1, <1>2, <1>3, RowSeen
<1>5. CASE up[u].status = "verification_pending" /\ r.status = "transfer_failed"
  <2>0. WasAsked(r) /\ WasAsked(up[u])
    BY <1>5 DEF WasAsked
  <2>1. /\ Status' = [Status EXCEPT ![u] = "transfer_failed"]
        /\ Asked' = Asked /\ Status[u] = "verification_pending"
    BY <1>4, <1>5, <2>0
  <2> QED
    BY <2>1 DEF Reception!FailTransfer, Reception!Becomes, Status
<1>6. CASE r.status = up[u].status
  <2>1. WasAsked(r) <=> WasAsked(up[u])
    BY <1>1, <1>2, <1>6 DEF WasAsked
  <2>2. Asked' = Asked /\ Status' = [Status EXCEPT ![u] = up[u].status]
    BY <1>4, <1>6, <2>1
  <2>3. Status' = Status
    BY <2>2 DEF Status
  <2> QED
    BY <2>2, <2>3
<1> QED
  BY <1>1, <1>2, <1>5, <1>6

\* A verifier that stores a receipt decides the upload by its first body.
LEMMA ReceiptSeen ==
  ASSUME UploadInv, AskedOK, ~Replaceable, NEW p \in Processes, FinishUpload(p),
         NEW u \in Uploads, u = proc[p].upload
  PROVE  Reception!Decide(u) \/ UNCHANGED <<Status, staged, Asked>>
<1>1. /\ u \in Uploads /\ up[u] \in Row /\ u \in Asked
      /\ proc[p].body \in Bodies /\ staged[u] = proc[p].body
      /\ UNCHANGED staged
  BY DEF FinishUpload, UploadInv, TypeOK, WorkOK, StagedOK, AskedOK, Asked
<1> DEFINE o == Outcome(proc[p].body)
           r == [up[u] EXCEPT !.status = o, !.receipt = proc[p].body]
<1>2. o \in Terminal
  BY DEF Outcome, Terminal
<1> HIDE DEF o
<1>3. r \in Row /\ r.status = o /\ r.receipt = proc[p].body /\ WasAsked(r)
  <2> DEFINE s == [up[u] EXCEPT !.status = o]
  <2>1. s \in Row /\ s.status = o
    BY <1>1, <1>2 DEF Row, Statuses
  <2>2. r = [s EXCEPT !.receipt = proc[p].body]
    BY <1>1 DEF Row
  <2> HIDE DEF r, s
  <2>3. r \in Row /\ r.status = o /\ r.receipt = proc[p].body
    BY <1>1, <2>1, <2>2 DEF Row
  <2> QED
    BY <1>2, <2>3 DEF WasAsked, Terminal
<1>4. CASE up[u].receipt \notin {"none", proc[p].body}
  BY <1>4 DEF FinishUpload, Status, Asked
<1>5. CASE up[u].receipt \in {"none", proc[p].body}
  <2>1. up' = [up EXCEPT ![u] = r]
    BY <1>5 DEF FinishUpload, o
  <2> HIDE DEF r
  <2>2. /\ Status' = [Status EXCEPT ![u] = o] /\ Asked' = Asked
        /\ Status[u] = up[u].status
    BY <1>1, <1>3, <2>1, RowSeen
  <2>3. CASE up[u].receipt = "none"
    <3>1. up[u].status \notin Terminal
      BY <1>1, <2>3 DEF UploadInv, ReceiptArchived
    <3>2. o = Reception!OutcomeOf(staged[u]) /\ staged[u] # "none"
      BY <1>1 DEF o, Outcome, Reception!OutcomeOf, Bodies
    <3> QED
      BY <1>1, <2>2, <3>1, <3>2
         DEF Reception!Decide, Reception!Becomes, Reception!Terminal, Terminal, Status
  <2>4. CASE up[u].receipt = proc[p].body
    <3>1. up[u].status = o
      BY <1>1, <2>4 DEF UploadInv, ReceiptArchived, Bodies, o
    <3>2. Status' = Status
      BY <2>2, <3>1 DEF Status
    <3> QED
      BY <1>1, <2>2, <3>2
  <2> QED
    BY <1>5, <2>3, <2>4
<1> QED
  BY <1>4, <1>5

\* The requests of the device and of the operator are those of the promise.
LEMMA RequestSeen ==
  ASSUME UploadInv, AskedOK, ~Replaceable, Request
  PROVE  [Reception!ReceptionNext]_(Reception!receptionVars)
<1> DEFINE same == UNCHANGED <<Status, staged, Asked>>
<1>0. same => UNCHANGED Reception!receptionVars
  BY DEF Reception!receptionVars, Status
<1>1. PICK u \in Uploads :
        \/ CreateUpload(u) \/ RequestVerification(u) \/ RetryUpload(u)
        \/ \E b \in Bodies : BeginPut(u, b) \/ EndPut(u, b)
  BY DEF Request
<1>2. up[u] \in Row
  BY DEF UploadInv, TypeOK
<1>3. CASE CreateUpload(u)
  <2> DEFINE r == [up[u] EXCEPT !.status = "awaiting_upload",
                                !.rowid = Cardinality(Known) + 1]
  <2>1. /\ up' = [up EXCEPT ![u] = r] /\ UNCHANGED staged
        /\ up[u].status = "absent"
        /\ Cardinality(Open(Device[u])) < QueueLimit
    BY <1>3 DEF CreateUpload
  <2>2. Cardinality(Known) + 1 \in Nat
    BY FS_Subset, FS_CardinalityType DEF Known
  <2>3. r \in Row /\ r.status = "awaiting_upload" /\ r.cycle = up[u].cycle
    BY <1>2, <2>2 DEF Row, Statuses
  <2> HIDE DEF r
  <2>4. /\ Status' = [Status EXCEPT ![u] = r.status]
        /\ (WasAsked(r) <=> u \in Asked) => Asked' = Asked
        /\ u \in Asked <=> WasAsked(up[u])
        /\ Status[u] = up[u].status
    BY <2>1, <2>3, RowSeen
  <2>5. WasAsked(r) <=> WasAsked(up[u])
    BY <2>1, <2>3 DEF WasAsked
  <2>6. Open(Device[u]) = Reception!Undecided(Device[u])
    BY DEF Open, Reception!Undecided
  <2>7. Reception!HasRoom(u)
    <3>1. Reception!Cardinality(Open(Device[u])) = Cardinality(Open(Device[u]))
      BY DEF Reception!Cardinality, Cardinality
    <3> QED
      BY <2>1, <2>6, <3>1 DEF Reception!HasRoom
  <2>8. Reception!Create(u)
    BY <2>1, <2>3, <2>4, <2>5, <2>7
       DEF Reception!Create, Reception!Becomes, Status
  <2> QED
    BY <2>8 DEF Reception!ReceptionNext
<1>4. CASE RequestVerification(u)
  <2> DEFINE r == [up[u] EXCEPT !.status = "verification_pending"]
  <2>1. /\ up' = [up EXCEPT ![u] = r] /\ UNCHANGED staged
        /\ up[u].status = "awaiting_upload"
    BY <1>4 DEF RequestVerification
  <2>2. r \in Row /\ r.status = "verification_pending" /\ WasAsked(r)
    BY <1>2 DEF Row, Statuses, WasAsked
  <2> HIDE DEF r
  <2>3. /\ Status' = [Status EXCEPT ![u] = "verification_pending"]
        /\ Asked' = Asked \cup {u}
        /\ Status[u] = "awaiting_upload"
    BY <2>1, <2>2, RowSeen
  <2>4. Reception!Complete(u)
    BY <2>1, <2>3 DEF Reception!Complete, Reception!Becomes, Status
  <2> QED
    BY <2>4 DEF Reception!ReceptionNext
<1>5. CASE RetryUpload(u)
  <2>0. up[u].cycle \in Nat
    BY <1>2 DEF Row
  <2> DEFINE n == up[u].cycle + 1
             r == [up[u] EXCEPT !.status = "awaiting_upload", !.attempts = 0,
                                !.retryAt = 0, !.cycle = n]
  <2>1. /\ up' = [up EXCEPT ![u] = r] /\ UNCHANGED staged
        /\ up[u].status = "transfer_failed"
    BY <1>5 DEF RetryUpload
  <2>2. n \in Nat /\ n > 0
    BY <2>0
  <2> HIDE DEF n
  <2>3. r \in Row /\ r.status = "awaiting_upload" /\ r.cycle = n
    BY <1>2, <2>2 DEF Row, Statuses
  <2> HIDE DEF r
  <2>4. WasAsked(r) /\ WasAsked(up[u])
    BY <2>1, <2>2, <2>3 DEF WasAsked
  <2>5. /\ Status' = [Status EXCEPT ![u] = r.status]
        /\ (WasAsked(r) <=> u \in Asked) => Asked' = Asked
        /\ u \in Asked <=> WasAsked(up[u])
        /\ Status[u] = up[u].status
    BY <2>1, <2>3, RowSeen
  <2>6. Reception!Reopen(u)
    BY <2>1, <2>3, <2>4, <2>5 DEF Reception!Reopen, Reception!Becomes, Status
  <2> QED
    BY <2>6 DEF Reception!ReceptionNext
<1>6. ASSUME NEW b \in Bodies, BeginPut(u, b)
      PROVE  [Reception!ReceptionNext]_(Reception!receptionVars)
  <2>1. same
    BY <1>6 DEF BeginPut, service, Status, Asked
  <2> QED
    BY <1>0, <2>1
<1>7. ASSUME NEW b \in Bodies, EndPut(u, b)
      PROVE  [Reception!ReceptionNext]_(Reception!receptionVars)
  <2>1. /\ up' = up /\ u \in Known
        /\ UNCHANGED staged \/ staged' = [staged EXCEPT ![u] = Written(staged[u], b)]
    BY <1>7 DEF EndPut, AskedOK
  <2>2. Status' = Status /\ Asked' = Asked
    BY <2>1 DEF Status, Asked
  <2>3. CASE staged' = staged
    BY <1>0, <2>2, <2>3
  <2>4. CASE staged' # staged
    <3>1. staged[u] = "none" /\ staged' = [staged EXCEPT ![u] = b]
      <4>1. staged \in [Uploads -> {"none"} \cup Bodies]
        BY DEF UploadInv, TypeOK
      <4> QED
        BY <2>1, <2>4, <4>1 DEF Written
    <3>2. Reception!Store(u, b)
      BY <2>1, <2>2, <3>1 DEF Reception!Store, Status, Known
    <3> QED
      BY <1>7, <3>2 DEF Reception!ReceptionNext, Reception!Bodies, Bodies
  <2> QED
    BY <2>3, <2>4
<1> QED
  BY <1>1, <1>3, <1>4, <1>5, <1>6, <1>7

\* Every step is one of the promise, or changes nothing that a device sees.
LEMMA StepSeen ==
  ASSUME UploadInv, AskedOK, ~Replaceable, [Next]_vars
  PROVE  [Reception!ReceptionNext]_(Reception!receptionVars)
<1>0. UNCHANGED <<Status, staged, Asked>> => UNCHANGED Reception!receptionVars
  BY DEF Reception!receptionVars, Status
<1>1. Known \subseteq Uploads
  BY DEF Known
<1>2. ASSUME NEW u \in Known, up' = [up EXCEPT ![u] = Failed(@)], UNCHANGED staged
      PROVE  [Reception!ReceptionNext]_(Reception!receptionVars)
  BY <1>0, <1>1, <1>2, FailureSeen DEF Reception!ReceptionNext
<1>3. CASE UNCHANGED <<up, staged>>
  BY <1>0, <1>3 DEF Status, Asked
<1>4. ASSUME NEW p \in Processes, Verifier(p)
      PROVE  [Reception!ReceptionNext]_(Reception!receptionVars)
  <2>1. CASE FinishUpload(p)
    <3>1. PICK u \in Uploads : u = proc[p].upload
      BY <1>1, <2>1 DEF FinishUpload, UploadInv, WorkOK
    <3> QED
      BY <1>0, <2>1, <3>1, ReceiptSeen DEF Reception!ReceptionNext
  <2>2. CASE RecordFailure(p)
    BY <1>2, <2>2 DEF RecordFailure, UploadInv, WorkOK
  <2>3. CASE ReadRow(p) \/ Download(p) \/ Publish(p) \/ Raise(p)
    BY <1>3, <2>3 DEF ReadRow, Download, Publish, Raise
  <2> QED
    BY <1>4, <2>1, <2>2, <2>3 DEF Verifier
<1>5. CASE ParentFailure
  BY <1>2, <1>5 DEF ParentFailure, UploadInv, WorkOK
<1>6. CASE \/ PendingUpload \/ Defer \/ Spawn \/ ChildExits \/ Timeout
           \/ ThreadDies \/ Start \/ Stop \/ TimePasses \/ UNCHANGED vars
           \/ \E p \in Processes : Killed(p)
           \/ \E u \in Uploads : VerifyCommand(u)
  BY <1>3, <1>6 DEF PendingUpload, Defer, Spawn, ChildExits, Timeout, ThreadDies,
     Start, Stop, TimePasses, vars, Killed, VerifyCommand
<1> QED
  BY <1>4, <1>5, <1>6, RequestSeen DEF Next, Supervise

\* What was asked for stays asked for, and a row stays.
LEMMA AskedGrows ==
  ASSUME UploadInv, [Next]_vars
  PROVE  Known \subseteq Known' /\ Asked \subseteq Asked'
<1>1. ASSUME NEW u \in Uploads, NEW r \in Row, up' = [up EXCEPT ![u] = r],
             up[u].status \notin {"absent"} => r.status \notin {"absent"},
             WasAsked(up[u]) => WasAsked(r)
      PROVE  Known \subseteq Known' /\ Asked \subseteq Asked'
  <2>1. \A v \in Uploads : up'[v] = IF v = u THEN r ELSE up[v]
    BY <1>1 DEF UploadInv, TypeOK
  <2> QED
    BY <1>1, <2>1 DEF Known, Asked, WasAsked
<1>2. CASE UNCHANGED up
  BY <1>2 DEF Known, Asked
<1>3. ASSUME NEW u \in Known, up' = [up EXCEPT ![u] = Failed(@)]
      PROVE  Known \subseteq Known' /\ Asked \subseteq Asked'
  <2>1. u \in Uploads /\ up[u] \in Row /\ up[u].status # "absent" /\ clock \in Nat
    BY DEF UploadInv, TypeOK, Known
  <2> DEFINE r == Failed(up[u])
  <2>2. /\ r \in Row
        /\ up[u].status # "verification_pending" => r = up[u]
        /\ up[u].status = "verification_pending" =>
             r.status \in {"verification_pending", "transfer_failed"}
    BY <2>1, FailedRow DEF UploadInv, BoundedAttempts
  <2>3. up' = [up EXCEPT ![u] = r]
    BY <1>3
  <2> HIDE DEF r
  <2> QED
    BY <1>1, <2>1, <2>2, <2>3 DEF WasAsked
<1>4. CASE Request
  <2>1. PICK u \in Uploads :
          \/ CreateUpload(u) \/ RequestVerification(u) \/ RetryUpload(u)
          \/ \E b \in Bodies : BeginPut(u, b) \/ EndPut(u, b)
    BY <1>4 DEF Request
  <2>2. up[u] \in Row
    BY DEF UploadInv, TypeOK
  <2>3. \A v \in Uploads \ {u} : up'[v] = up[v]
    BY <2>1 DEF CreateUpload, RequestVerification, RetryUpload, BeginPut, EndPut,
       service, UploadInv, TypeOK
  <2>4. \/ up'[u] = up[u]
        \/ up'[u].status # "absent" /\ (u \in Asked => WasAsked(up'[u]))
    <3>1. CASE CreateUpload(u)
      BY <2>2, <3>1 DEF CreateUpload, UploadInv, TypeOK, Row, Asked, WasAsked
    <3>2. CASE RequestVerification(u)
      BY <2>2, <3>2 DEF RequestVerification, UploadInv, TypeOK, Row, WasAsked
    <3>3. CASE RetryUpload(u)
      <4>1. up'[u].status = "awaiting_upload" /\ up'[u].cycle = up[u].cycle + 1
        BY <2>2, <3>3 DEF RetryUpload, UploadInv, TypeOK, Row
      <4> QED
        BY <2>2, <4>1 DEF Row, WasAsked
    <3>4. CASE \E b \in Bodies : BeginPut(u, b) \/ EndPut(u, b)
      BY <3>4 DEF BeginPut, EndPut, service
    <3> QED
      BY <2>1, <3>1, <3>2, <3>3, <3>4
  <2> QED
    BY <2>3, <2>4 DEF Known, Asked, WasAsked
<1>5. ASSUME NEW p \in Processes, Verifier(p)
      PROVE  Known \subseteq Known' /\ Asked \subseteq Asked'
  <2>1. CASE FinishUpload(p)
    <3>1. /\ proc[p].upload \in Uploads /\ proc[p].body \in Bodies
          /\ Outcome(proc[p].body) \in Terminal
      BY <2>1 DEF FinishUpload, UploadInv, WorkOK, Known, Outcome, Terminal
    <3>2. \A v \in Uploads : up'[v] = up[v] \/ up'[v].status \in Terminal
      BY <2>1, <3>1 DEF FinishUpload, UploadInv, TypeOK, Row
    <3> QED
      BY <3>2 DEF Known, Asked, Terminal
  <2>2. CASE RecordFailure(p)
    BY <1>3, <2>2 DEF RecordFailure, UploadInv, WorkOK
  <2>3. CASE ReadRow(p) \/ Download(p) \/ Publish(p) \/ Raise(p)
    BY <1>2, <2>3 DEF ReadRow, Download, Publish, Raise
  <2> QED
    BY <1>5, <2>1, <2>2, <2>3 DEF Verifier
<1>6. CASE ParentFailure
  BY <1>3, <1>6 DEF ParentFailure, UploadInv, WorkOK
<1>7. CASE \/ PendingUpload \/ Defer \/ Spawn \/ ChildExits \/ Timeout
           \/ ThreadDies \/ Start \/ Stop \/ TimePasses \/ UNCHANGED vars
           \/ \E p \in Processes : Killed(p)
           \/ \E u \in Uploads : VerifyCommand(u)
  BY <1>2, <1>7 DEF PendingUpload, Defer, Spawn, ChildExits, Timeout, ThreadDies,
     Start, Stop, TimePasses, vars, Killed, VerifyCommand
<1> QED
  BY <1>4, <1>5, <1>6, <1>7 DEF Next, Supervise

\* A process verifies what a read of the row found pending.
LEMMA AskedStep ==
  ASSUME UploadInv, AskedOK, [Next]_vars
  PROVE  AskedOK'
<1> DEFINE Working == {"download", "publish", "finish"}
<1>1. Known \subseteq Known' /\ Asked \subseteq Asked'
  BY AskedGrows
<1>2. ASSUME NEW u \in Uploads,
             CreateUpload(u) \/ RequestVerification(u) \/ RetryUpload(u)
      PROVE  UNCHANGED <<puts, proc>>
  BY <1>2 DEF CreateUpload, RequestVerification, RetryUpload, service
<1>3. \A put \in puts' : put \in puts \/ put[1] \in Known
  <2>1. ASSUME NEW u \in Uploads, NEW b \in Bodies, BeginPut(u, b) \/ EndPut(u, b)
        PROVE  \A put \in puts' : put \in puts \/ put[1] \in Known
    BY <2>1 DEF BeginPut, EndPut
  <2>2. CASE Stop
    BY <2>2 DEF Stop
  <2>3. CASE Request
    BY <1>2, <2>1, <2>3 DEF Request
  <2>4. CASE ~Request /\ ~Stop
    <3>1. puts' = puts
      BY <2>4 DEF Next, Verifier, Supervise, ReadRow, Download, Publish, FinishUpload,
         Raise, RecordFailure, PendingUpload, Defer, Spawn, ChildExits, Timeout,
         ParentFailure, ThreadDies, Start, TimePasses, vars, Killed, VerifyCommand
    <3> QED
      BY <3>1
  <2> QED
    BY <2>2, <2>3, <2>4
<1>4. ASSUME NEW q \in Processes, proc'[q].pc \in Working
      PROVE  \/ proc'[q] = proc[q] \/ proc'[q] = proc["child"]
             \/ /\ proc'[q].upload = proc[q].upload
                /\ proc[q].pc \in Working \/ (proc[q].pc = "read" /\ Due(proc[q].upload))
  <2>1. proc \in [Processes -> Process] /\ "child" \in Processes
    BY DEF UploadInv, TypeOK, Processes
  <2>2. ASSUME NEW p \in Processes, Verifier(p) \/ Killed(p)
        PROVE  \/ proc'[q] = proc[q]
               \/ /\ proc'[q].upload = proc[q].upload
                  /\ proc[q].pc \in Working \/ (proc[q].pc = "read" /\ Due(proc[q].upload))
    <3>1. CASE ReadRow(p)
      <4>1. CASE ~Due(proc[p].upload)
        BY <1>4, <2>1, <3>1, <4>1 DEF ReadRow, Move, Process
      <4>2. CASE Due(proc[p].upload)
        <5>1. proc' = [proc EXCEPT ![p].pc = "download"] /\ proc[p].pc = "read"
          BY <3>1, <4>2 DEF ReadRow, Move
        <5>2. proc'[p].upload = proc[p].upload
          BY <2>1, <5>1 DEF Process
        <5>3. p # q => proc'[q] = proc[q]
          BY <2>1, <5>1
        <5> QED
          BY <4>2, <5>1, <5>2, <5>3
      <4> QED
        BY <4>1, <4>2
    <3>2. CASE Download(p)
      <4> DEFINE row == [proc[p] EXCEPT !.pc = "publish", !.body = staged[proc[p].upload]]
      <4>1. proc[p].pc = "download" /\ proc' = [proc EXCEPT ![p] = row]
        BY <3>2 DEF Download
      <4>2. row.upload = proc[p].upload
        BY <2>1 DEF Process
      <4> HIDE DEF row
      <4>3. proc'[p].upload = proc[p].upload /\ (p # q => proc'[q] = proc[q])
        BY <2>1, <4>1, <4>2
      <4> QED
        BY <4>1, <4>3
    <3>3. CASE Publish(p)
      <4> DEFINE row == [proc[p] EXCEPT !.pc = "finish"]
      <4>1. proc[p].pc = "publish" /\ proc' = [proc EXCEPT ![p] = row]
        BY <3>3 DEF Publish, Move
      <4>2. row.upload = proc[p].upload
        BY <2>1 DEF Process
      <4> HIDE DEF row
      <4>3. proc'[p].upload = proc[p].upload /\ (p # q => proc'[q] = proc[q])
        BY <2>1, <4>1, <4>2
      <4> QED
        BY <4>1, <4>3
    <3>4. CASE FinishUpload(p)
      <4>1. /\ proc[p].pc = "finish"
            /\ \/ proc' = [proc EXCEPT ![p].pc = "exited"]
               \/ proc' = [proc EXCEPT ![p].pc = "fail"]
        BY <3>4 DEF FinishUpload, Move
      <4> QED
        BY <1>4, <2>1, <4>1 DEF Process
    <3>5. CASE Raise(p) \/ RecordFailure(p) \/ Killed(p)
      <4>1. \/ proc' = [proc EXCEPT ![p].pc = "exited"]
            \/ proc' = [proc EXCEPT ![p].pc = "fail"]
            \/ proc' = [proc EXCEPT ![p].pc = "killed"]
        BY <3>5 DEF Raise, RecordFailure, Killed, Move
      <4> QED
        BY <1>4, <2>1, <4>1 DEF Process
    <3> QED
      BY <2>2, <3>1, <3>2, <3>3, <3>4, <3>5 DEF Verifier
  <2>3. ASSUME NEW u \in Uploads, VerifyCommand(u)
        PROVE  proc'[q] = proc[q]
    <3>1. proc' = [proc EXCEPT !["other"] = NewProc(u)] /\ NewProc(u).pc = "read"
      BY <2>3 DEF VerifyCommand, NewProc
    <3> QED
      BY <1>4, <2>1, <3>1
  <2>4. CASE Spawn
    <3>1. /\ proc' = [proc EXCEPT !["child"] = NewProc(sup.upload)]
          /\ NewProc(sup.upload).pc = "read"
      BY <2>4 DEF Spawn, NewProc
    <3> QED
      BY <1>4, <2>1, <3>1
  <2>5. CASE ChildExits \/ Timeout \/ Stop
    <3>1. NoProc.pc \notin Working
      BY DEF NoProc
    <3>2. \/ proc' = [proc EXCEPT !["child"] = NoProc]
          \/ proc' = [proc EXCEPT !["child"] = NoProc, !["other"] = proc["child"]]
      BY <2>5 DEF ChildExits, Timeout, Stop
    <3> QED
      BY <1>4, <2>1, <3>1, <3>2
  <2>6. CASE \/ Request \/ PendingUpload \/ Defer \/ ParentFailure \/ ThreadDies
             \/ Start \/ TimePasses \/ UNCHANGED vars
    BY <1>2, <2>6 DEF Request, BeginPut, EndPut, service, PendingUpload, Defer,
       ParentFailure, ThreadDies, Start, TimePasses, vars
  <2> QED
    BY <2>2, <2>3, <2>4, <2>5, <2>6 DEF Next, Supervise
<1>5. ASSUME NEW p \in Processes,
             proc[p].pc \in Working \/ (proc[p].pc = "read" /\ Due(proc[p].upload))
      PROVE  proc[p].upload \in Asked
  BY <1>5 DEF AskedOK, Due, Asked, UploadInv, WorkOK, Known
<1>6. "child" \in Processes
  BY DEF Processes
<1>7. ASSUME NEW q \in Processes, proc'[q].pc \in Working
      PROVE  proc'[q].upload \in Asked
  BY <1>4, <1>5, <1>6, <1>7
<1>8. \A q \in Processes : proc'[q].pc \in Working => proc'[q].upload \in Asked'
  BY <1>1, <1>7
<1>9. \A put \in puts' : put[1] \in Known'
  BY <1>1, <1>3 DEF AskedOK
<1> QED
  BY <1>8, <1>9 DEF AskedOK

LEMMA InitSeen ==
  ASSUME Init
  PROVE  AskedOK /\ Reception!ReceptionInit
BY DEF Init, AskedOK, Asked, NoRow, NoProc, Reception!ReceptionInit

\* With staging on the Hub's disk, what a device observes of the queue, the
\* verifier processes, kills, retries and restarts is one decision of its
\* upload, by the first complete body.
THEOREM ReceptionImplemented ==
  ASSUME ~Replaceable
  PROVE  Spec => ImplementsReception
<1>1. Init => AskedOK /\ Reception!ReceptionInit
  BY InitSeen
<1>2. UploadInv /\ AskedOK /\ [Next]_vars => AskedOK'
  BY AskedStep
<1>3. UploadInv /\ AskedOK /\ [Next]_vars
        => [Reception!ReceptionNext]_(Reception!receptionVars)
  BY StepSeen
<1> QED
  BY <1>1, <1>2, <1>3, UploadInvariance, PTL
     DEF Spec, ImplementsReception, Reception!ReceptionSpec
=============================================================================
