------------------------- MODULE DecisionJobsProofs -------------------------
(***************************************************************************)
(* Proofs about decision dataset jobs: the attempt fence, for every set of *)
(* jobs and every number of retries, faults and checkpoints.               *)
(***************************************************************************)
EXTENDS DecisionJobs, FiniteSetTheorems, TLAPS

USE JobConstantsOK

\* How a row may change without a claim: no new holder, no lost attempt.
Advances(r, s) ==
  /\ s \in Row
  /\ s.attempt >= r.attempt
  /\ s.state = "absent" => r.state = "absent" /\ s.attempt = r.attempt
  /\ s.state = "running" =>
       r.state = "running" /\ s.attempt = r.attempt /\ s.cycle = r.cycle
  /\ r.state = "completed" => s.state = "completed"

\* A completed row names its last attempt.
ByLast(r) == r.state = "completed" => r.by = r.attempt /\ r.by > 0

\* How a worker may change without a claim.
Follows(p, q) ==
  /\ q \in Process
  /\ q.pc # "none" => q.job \in Jobs
  /\ q.pc \in Fenced => /\ p.pc \in Fenced
                        /\ q.job = p.job /\ q.attempt = p.attempt
                        /\ q.cycle = p.cycle

SupOK(s) ==
  /\ s \in Supervisor
  /\ s.pc \in {"chosen", "counted", "running", "failing"} => s.job \in Jobs

\* The initial state satisfies the invariant.
LEMMA InitJobInv == Init => JobInv
BY DEF Init, JobInv, TypeOK, AttemptsDistinct, CompletedByLast, WorkOK, NoRow,
       NoProc, SupAt, Row, Process, Processes, Supervisor, Fenced, Active, Settled

\* Every step but a claim and the orphaning of a child is of this kind.
LEMMA AdvanceStep ==
  ASSUME JobInv,
         job' \in [Jobs -> Row], work' \in [Processes -> Process],
         \A j \in Jobs : Advances(job[j], job'[j]),
         \A j \in Jobs : ByLast(job'[j]),
         \A w \in Processes : Follows(work[w], work'[w]),
         \A j \in Publications : job'[j].state = "completed" => j \in published',
         \A w \in Processes :
           work'[w].pc = "complete" /\ work'[w].job \in Publications
             => work'[w].job \in published',
         cold' \in [Jobs -> Nat], member' \in BOOLEAN, published' \subseteq Jobs,
         SupOK(sup'), faults' \in Nat
  PROVE  JobInv'
<1>1. TypeOK'
  BY DEF TypeOK, SupOK
<1>2. AttemptsDistinct'
  <2> SUFFICES ASSUME NEW w \in Processes, work'[w].pc \in Fenced
               PROVE  /\ work'[w].attempt \in 1..job'[work'[w].job].attempt
                      /\ \A v \in Processes \ {w} :
                           work'[v].pc \in Fenced /\ work'[v].job = work'[w].job
                             => work'[v].attempt # work'[w].attempt
    BY DEF AttemptsDistinct
  <2>1. /\ work[w].pc \in Fenced /\ work[w].job \in Jobs
        /\ work'[w].job = work[w].job /\ work'[w].attempt = work[w].attempt
    BY DEF Follows, JobInv, WorkOK, Fenced
  <2>2. work[w].attempt \in 1..job[work[w].job].attempt
    BY <2>1 DEF JobInv, AttemptsDistinct
  <2>3. /\ job[work[w].job].attempt \in Nat /\ job'[work[w].job].attempt \in Nat
        /\ job'[work[w].job].attempt >= job[work[w].job].attempt
    BY <2>1 DEF Advances, JobInv, TypeOK, Row
  <2>4. \A v \in Processes \ {w} :
          work'[v].pc \in Fenced /\ work'[v].job = work'[w].job
            => work'[v].attempt # work'[w].attempt
    BY <2>1 DEF Follows, JobInv, AttemptsDistinct
  <2> QED
    BY <2>1, <2>2, <2>3, <2>4
<1>3. CompletedByLast'
  BY DEF ByLast, CompletedByLast
<1>4. WorkOK'
  <2>1. ASSUME NEW w \in Processes, work'[w].pc \in Fenced, HoldsFence(w)'
        PROVE  work'[w].cycle = job'[work'[w].job].cycle
    <3>1. /\ work[w].pc \in Fenced /\ work[w].job \in Jobs
          /\ work'[w].job = work[w].job /\ work'[w].attempt = work[w].attempt
          /\ work'[w].cycle = work[w].cycle
      BY <2>1 DEF Follows, JobInv, WorkOK, Fenced
    <3>2. /\ job'[work[w].job].state = "running"
          /\ job'[work[w].job].attempt = work[w].attempt
      BY <2>1, <3>1 DEF HoldsFence, Holds
    <3>3. /\ job[work[w].job].state = "running"
          /\ job[work[w].job].attempt = work[w].attempt
          /\ job[work[w].job].cycle = job'[work[w].job].cycle
      BY <3>1, <3>2 DEF Advances
    <3> QED
      BY <3>1, <3>3 DEF JobInv, WorkOK, HoldsFence, Holds
  <2>2. \A j \in Jobs : job'[j].state = "absent" => job'[j].attempt = 0
    BY DEF Advances, JobInv, WorkOK
  <2> QED
    BY <2>1, <2>2 DEF WorkOK, Follows, SupOK
<1> QED
  BY <1>1, <1>2, <1>3, <1>4 DEF JobInv

\* What the invariant says of one row, one worker and the supervisor.
LEMMA InvParts ==
  ASSUME JobInv
  PROVE  /\ job \in [Jobs -> Row] /\ work \in [Processes -> Process]
         /\ cold \in [Jobs -> Nat] /\ member \in BOOLEAN /\ published \subseteq Jobs
         /\ faults \in Nat /\ SupOK(sup)
         /\ \A j \in Jobs : /\ Advances(job[j], job[j]) /\ ByLast(job[j])
                            /\ job[j].state = "completed" /\ j \in Publications
                                 => j \in published
         /\ \A w \in Processes :
              /\ Follows(work[w], work[w])
              /\ work[w].pc = "complete" /\ work[w].job \in Publications
                   => work[w].job \in published
<1>1. \A j \in Jobs : job[j] \in Row /\ job[j].attempt \in Nat
  BY DEF JobInv, TypeOK, Row
<1>2. \A w \in Processes : work[w] \in Process
  BY DEF JobInv, TypeOK
<1> QED
  BY <1>1, <1>2 DEF JobInv, TypeOK, CompletedByLast, WorkOK, Advances, ByLast,
                    Follows, SupOK

\* A step that changes rows only, and completes none.
LEMMA RowsStep ==
  ASSUME JobInv, job' \in [Jobs -> Row],
         \A j \in Jobs : /\ Advances(job[j], job'[j]) /\ ByLast(job'[j])
                         /\ job'[j].state = "completed" => job[j].state = "completed",
         member' \in BOOLEAN, SupOK(sup'),
         UNCHANGED <<cold, published, work, faults>>
  PROVE  JobInv'
BY InvParts, AdvanceStep DEF JobConstantsOK

\* A step that changes one row only, and does not complete it.
LEMMA RowStep ==
  ASSUME JobInv, NEW j \in Jobs, NEW r \in Row,
         Advances(job[j], r), ByLast(r),
         r.state = "completed" => job[j].state = "completed",
         job' = [job EXCEPT ![j] = r],
         member' \in BOOLEAN, SupOK(sup'),
         UNCHANGED <<cold, published, work, faults>>
  PROVE  JobInv'
<1>1. /\ job' \in [Jobs -> Row] /\ job'[j] = r
      /\ \A k \in Jobs \ {j} : job'[k] = job[k]
  BY InvParts
<1> QED
  BY <1>1, InvParts, RowsStep

\* A step that changes processes, the supervisor and the counted faults only.
LEMMA ProcessesStep ==
  ASSUME JobInv, work' \in [Processes -> Process],
         \A w \in Processes :
           /\ Follows(work[w], work'[w])
           /\ work'[w].pc = "complete"
                => work[w].pc = "complete" /\ work'[w].job = work[w].job,
         SupOK(sup'), faults' \in Nat,
         UNCHANGED <<job, cold, member, published>>
  PROVE  JobInv'
BY InvParts, AdvanceStep DEF JobConstantsOK

\* A step of one worker, with its update of the row it works on.
LEMMA WorkerStep ==
  ASSUME JobInv, NEW w \in Processes, work[w].pc \in Fenced,
         NEW next \in Fenced \cup {"exited", "killed"}, Go(w, next),
         NEW r \in Row, Advances(job[work[w].job], r), ByLast(r),
         r.state = "completed" /\ work[w].job \in Publications
           => work[w].job \in published,
         job' = [job EXCEPT ![work[w].job] = r],
         next = "complete" /\ work[w].job \in Publications
           => work[w].job \in published',
         published \subseteq published', published' \subseteq Jobs,
         cold' \in [Jobs -> Nat],
         UNCHANGED <<member, sup, faults>>
  PROVE  JobInv'
<1>1. work[w].job \in Jobs
  BY DEF JobInv, WorkOK, Fenced
<1>2. /\ work' \in [Processes -> Process]
      /\ work'[w] = [work[w] EXCEPT !.pc = next]
      /\ \A v \in Processes \ {w} : work'[v] = work[v]
  BY InvParts DEF Go, Process
<1>3. /\ work'[w].pc = next /\ work'[w].job = work[w].job
      /\ work'[w].attempt = work[w].attempt /\ work'[w].cycle = work[w].cycle
  BY <1>2, InvParts DEF Process
<1>4. \A v \in Processes : Follows(work[v], work'[v])
  BY <1>1, <1>2, <1>3, InvParts DEF Follows
<1>5. /\ job' \in [Jobs -> Row] /\ job'[work[w].job] = r
      /\ \A j \in Jobs \ {work[w].job} : job'[j] = job[j]
  BY <1>1, InvParts
<1>6. \A j \in Jobs : Advances(job[j], job'[j]) /\ ByLast(job'[j])
  BY <1>5, InvParts
<1>7. \A j \in Publications : job'[j].state = "completed" => j \in published'
  BY <1>5, InvParts DEF JobConstantsOK
<1>8. \A v \in Processes :
        work'[v].pc = "complete" /\ work'[v].job \in Publications
          => work'[v].job \in published'
  BY <1>2, <1>3, InvParts
<1>9. member' \in BOOLEAN /\ SupOK(sup') /\ faults' \in Nat
  BY InvParts
<1> QED
  BY <1>2, <1>4, <1>5, <1>6, <1>7, <1>8, <1>9, AdvanceStep

\* A worker's step that writes no row.
LEMMA QuietStep ==
  ASSUME JobInv, NEW w \in Processes, work[w].pc \in Fenced,
         NEW next \in Fenced \cup {"exited", "killed"}, Go(w, next),
         next = "complete" /\ work[w].job \in Publications
           => work[w].job \in published',
         published \subseteq published', published' \subseteq Jobs,
         cold' \in [Jobs -> Nat],
         UNCHANGED <<job, member, sup, faults>>
  PROVE  JobInv'
<1>1. work[w].job \in Jobs
  BY DEF JobInv, WorkOK, Fenced
<1>2. job' = [job EXCEPT ![work[w].job] = job[work[w].job]]
  BY <1>1, InvParts
<1> QED
  BY <1>1, <1>2, InvParts, WorkerStep

-----------------------------------------------------------------------------
(* Requests.                                                               *)

\* A state change that completes and starts nothing is an advance.
LEMMA SettleRow ==
  ASSUME NEW r \in Row, NEW st \in {"pending", "failed", "cancelled"},
         r.state # "completed", NEW a \in Nat, a >= r.attempt
  PROVE  LET s == [r EXCEPT !.state = st, !.stale = FALSE, !.attempt = a]
         IN  s \in Row /\ Advances(r, s) /\ ByLast(s) /\ s.state # "completed"
<1> DEFINE s1 == [r EXCEPT !.state = st]
           s2 == [s1 EXCEPT !.stale = FALSE]
           s3 == [s2 EXCEPT !.attempt = a]
<1>1. s1 \in Row /\ s1.state = st
  BY DEF Row, Active, Settled
<1>2. s2 \in Row /\ s2.state = st
  BY <1>1 DEF Row
<1>3. s3 \in Row /\ s3.state = st /\ s3.attempt = a
  BY <1>2 DEF Row
<1>4. s3 = [r EXCEPT !.state = st, !.stale = FALSE, !.attempt = a]
  BY DEF Row
<1> QED
  BY <1>3, <1>4 DEF Advances, ByLast

\* Requests of members preserve the invariant.
LEMMA RequestSteps == JobInv /\ Request => JobInv'
<1> SUFFICES ASSUME JobInv, Request PROVE JobInv'
  OBVIOUS
<1>0. \A j \in Jobs : job[j] \in Row /\ job[j].attempt \in Nat
  BY InvParts DEF Row
<1>1. ASSUME NEW j \in Jobs, Create(j) PROVE JobInv'
  <2>1. PICK n \in Nat :
          job' = [job EXCEPT ![j] = [NoRow EXCEPT !.state = "pending", !.rowid = n]]
    <3> DEFINE n == Cardinality({k \in Jobs : job[k].state # "absent"}) + 1
    <3>1. n \in Nat
      <4>1. IsFiniteSet({k \in Jobs : job[k].state # "absent"})
        BY FS_Subset DEF JobConstantsOK
      <4> QED
        BY <4>1, FS_CardinalityType
    <3> QED
      BY <1>1, <3>1 DEF Create, Inserted
  <2> DEFINE r == [NoRow EXCEPT !.state = "pending", !.rowid = n]
  <2>2. r \in Row /\ r.state = "pending" /\ r.attempt = 0
    BY DEF NoRow, Row, Active, Settled
  <2>3. job[j].state = "absent" /\ job[j].attempt = 0
    BY <1>1 DEF Create, JobInv, WorkOK
  <2> HIDE DEF r
  <2>4. Advances(job[j], r) /\ ByLast(r)
    BY <2>2, <2>3 DEF Advances, ByLast
  <2>5. /\ member' \in BOOLEAN /\ SupOK(sup')
        /\ UNCHANGED <<cold, published, work, faults>>
    BY <1>1, InvParts DEF Create, backend
  <2> QED
    BY <2>1, <2>2, <2>4, <2>5, RowStep DEF r
<1>2. ASSUME NEW j \in Jobs, Cancel(j) PROVE JobInv'
  <2> DEFINE a == IF job[j].attempt = 0 THEN 0 ELSE job[j].attempt + 1
             r == [job[j] EXCEPT !.state = "cancelled", !.stale = FALSE,
                                 !.attempt = a]
  <2>0. a \in Nat /\ a >= job[j].attempt
    BY <1>0
  <2>00. job[j].state # "completed"
    BY <1>2 DEF Cancel, Active
  <2> HIDE DEF a
  <2>1. /\ r \in Row /\ Advances(job[j], r) /\ ByLast(r) /\ r.state # "completed"
    BY <1>0, <2>0, <2>00, SettleRow
  <2>2. job' = [job EXCEPT ![j] = r]
    BY <1>2, <1>0 DEF Cancel, Cancelled, Row, a
  <2> HIDE DEF r
  <2> QED
    BY <1>2, <2>1, <2>2, InvParts, RowStep DEF Cancel, backend
<1>3. ASSUME NEW j \in Jobs, Retry(j) PROVE JobInv'
  <2> DEFINE r1 == [job[j] EXCEPT !.state = "pending", !.stale = FALSE]
             r == [r1 EXCEPT !.cycle = @ + 1]
  <2>1. /\ r1 \in Row /\ r1.state = "pending" /\ r1.attempt = job[j].attempt
        /\ r1.cycle \in Nat
    BY <1>0 DEF Row, Active, Settled
  <2>2. r \in Row /\ r.state = "pending" /\ r.attempt = job[j].attempt
    <3> HIDE DEF r1
    <3> QED
      BY <2>1 DEF Row
  <2>3. job' = [job EXCEPT ![j] = r]
    BY <1>3, <1>0 DEF Retry, Row
  <2>4. job[j].state # "completed"
    BY <1>3 DEF Retry
  <2> HIDE DEF r, r1
  <2>5. Advances(job[j], r) /\ ByLast(r)
    BY <2>2, <2>4, <1>0 DEF Advances, ByLast
  <2> QED
    BY <1>3, <2>2, <2>3, <2>5, InvParts, RowStep DEF Retry, backend
<1>4. ASSUME NEW j \in Jobs, SetArchived(j) PROVE JobInv'
  <2> DEFINE r == [job[j] EXCEPT !.archived = ~@]
  <2>1. /\ r \in Row /\ r.state = job[j].state /\ r.attempt = job[j].attempt
        /\ r.by = job[j].by /\ r.cycle = job[j].cycle
    BY <1>0 DEF Row
  <2>2. job' = [job EXCEPT ![j] = r]
    BY <1>4 DEF SetArchived
  <2> HIDE DEF r
  <2>3. Advances(job[j], r) /\ ByLast(r)
    BY <2>1, <1>0, InvParts DEF Advances, ByLast
  <2> QED
    BY <1>4, <2>1, <2>2, <2>3, InvParts, RowStep DEF SetArchived, backend
<1>5. CASE MembershipChanges
  BY <1>5, InvParts, RowsStep DEF MembershipChanges, backend
<1> QED
  BY <1>1, <1>2, <1>3, <1>4, <1>5 DEF Request

-----------------------------------------------------------------------------
(* Workers.                                                                *)

\* A claim takes an attempt beyond every held one.
LEMMA ClaimStep ==
  ASSUME JobInv, NEW w \in Processes, Claim(w)
  PROVE  JobInv'
<1> DEFINE j == work[w].job
<1>0. /\ j \in Jobs /\ work[w] \in Process /\ job[j] \in Row
      /\ job[j].attempt \in Nat /\ job[j].cycle \in Nat
  BY InvParts DEF JobInv, WorkOK, Claim, Row
<1>1. CASE job[j].state # "pending"
  <2>1. Go(w, "exited") /\ UNCHANGED <<job, cold, member, published, sup, faults>>
    BY <1>1 DEF Claim
  <2>2. /\ work' \in [Processes -> Process]
        /\ work'[w] = [work[w] EXCEPT !.pc = "exited"]
        /\ \A v \in Processes \ {w} : work'[v] = work[v]
    BY <2>1, InvParts DEF Go, Process
  <2>3. work'[w].pc = "exited" /\ work'[w].job = j
    BY <2>2, <1>0 DEF Process
  <2>4. \A v \in Processes :
          /\ Follows(work[v], work'[v])
          /\ work'[v].pc = "complete"
               => work[v].pc = "complete" /\ work'[v].job = work[v].job
    BY <1>0, <2>2, <2>3, InvParts DEF Follows, Fenced
  <2> QED
    BY <2>1, <2>2, <2>4, InvParts, ProcessesStep
<1>2. CASE job[j].state = "pending"
  <2> DEFINE r1 == [job[j] EXCEPT !.state = "running", !.stale = FALSE]
             r == [r1 EXCEPT !.attempt = @ + 1]
             p == [work[w] EXCEPT !.pc = "begin", !.attempt = job[j].attempt + 1,
                                  !.cycle = job[j].cycle]
  <2>1. /\ job' = [job EXCEPT ![j] = r] /\ work' = [work EXCEPT ![w] = p]
        /\ UNCHANGED <<cold, member, published, sup, faults>>
    BY <1>0, <1>2 DEF Claim, Row, Process
  <2>2. r1 \in Row /\ r1.state = "running" /\ r1.attempt = job[j].attempt
        /\ r1.cycle = job[j].cycle /\ r1.attempt \in Nat
    BY <1>0 DEF Row, Active
  <2>3. /\ r \in Row /\ r.state = "running" /\ r.attempt = job[j].attempt + 1
        /\ r.cycle = job[j].cycle
    <3> HIDE DEF r1
    <3> QED
      BY <1>0, <2>2 DEF Row
  <2>4. /\ p \in Process /\ p.pc = "begin" /\ p.job = j
        /\ p.attempt = job[j].attempt + 1 /\ p.cycle = job[j].cycle
    <3> DEFINE a == job[j].attempt + 1
               c == job[j].cycle
    <3>1. a \in Nat /\ c \in Nat
      BY <1>0
    <3> HIDE DEF a, c
    <3> DEFINE p1 == [work[w] EXCEPT !.pc = "begin"]
               p2 == [p1 EXCEPT !.attempt = a]
               p3 == [p2 EXCEPT !.cycle = c]
    <3>2. p1 \in Process /\ p1.pc = "begin" /\ p1.job = j
      BY <1>0 DEF Process, Fenced
    <3>3. p2 \in Process /\ p2.pc = "begin" /\ p2.job = j /\ p2.attempt = a
      BY <3>1, <3>2 DEF Process
    <3>4. /\ p3 \in Process /\ p3.pc = "begin" /\ p3.job = j
          /\ p3.attempt = a /\ p3.cycle = c
      BY <3>1, <3>3 DEF Process
    <3>5. p3 = p
      BY <1>0 DEF Process, a, c
    <3> QED
      BY <3>4, <3>5 DEF a, c
  <2> HIDE DEF r, r1, p
  <2>5. /\ job' \in [Jobs -> Row] /\ job'[j] = r
        /\ \A k \in Jobs \ {j} : job'[k] = job[k]
        /\ work' \in [Processes -> Process] /\ work'[w] = p
        /\ \A v \in Processes \ {w} : work'[v] = work[v]
    BY <1>0, <2>1, <2>3, <2>4, InvParts
  <2>6. TypeOK'
    BY <2>1, <2>5 DEF JobInv, TypeOK
  <2>7. \A v \in Processes \ {w} : work[v].pc \in Fenced =>
          /\ work[v].job \in Jobs /\ work[v].attempt \in Nat
          /\ work[v].attempt \in 1..job[work[v].job].attempt
          /\ job[work[v].job].attempt \in Nat
    BY InvParts DEF JobInv, AttemptsDistinct, WorkOK, Fenced, Process, Row
  <2>8. AttemptsDistinct'
    <3> SUFFICES ASSUME NEW v \in Processes, work'[v].pc \in Fenced
                 PROVE  /\ work'[v].attempt \in 1..job'[work'[v].job].attempt
                        /\ \A u \in Processes \ {v} :
                             work'[u].pc \in Fenced /\ work'[u].job = work'[v].job
                               => work'[u].attempt # work'[v].attempt
      BY DEF AttemptsDistinct
    <3>1. CASE v = w
      BY <1>0, <2>3, <2>4, <2>5, <2>7, <3>1
    <3>2. CASE v # w
      <4>1. work'[v] = work[v] /\ work[v].pc \in Fenced
        BY <2>5, <3>2
      <4>2. work[v].attempt \in 1..job'[work[v].job].attempt
        BY <1>0, <2>3, <2>5, <2>7, <3>2, <4>1
      <4>3. ASSUME NEW u \in Processes \ {v},
                   work'[u].pc \in Fenced, work'[u].job = work[v].job
            PROVE  work'[u].attempt # work[v].attempt
        <5>1. CASE u = w
          BY <1>0, <2>4, <2>5, <2>7, <3>2, <4>1, <4>3, <5>1
        <5>2. CASE u # w
          BY <2>5, <4>1, <4>3, <5>2 DEF JobInv, AttemptsDistinct
        <5> QED
          BY <5>1, <5>2
      <4> QED
        BY <4>1, <4>2, <4>3
    <3> QED
      BY <3>1, <3>2
  <2>9. CompletedByLast'
    BY <2>1, <2>3, <2>5, InvParts DEF CompletedByLast, ByLast
  <2>10. WorkOK'
    <3>1. ASSUME NEW v \in Processes, work'[v].pc \in Fenced, HoldsFence(v)'
          PROVE  work'[v].cycle = job'[work'[v].job].cycle
      <4>1. CASE v = w
        BY <2>3, <2>4, <2>5, <4>1
      <4>2. CASE v # w
        <5>1. work'[v] = work[v] /\ work[v].pc \in Fenced
          BY <2>5, <3>1, <4>2
        <5>2. work[v].job # j
          BY <1>0, <2>3, <2>5, <2>7, <3>1, <4>2, <5>1 DEF HoldsFence, Holds
        <5>3. job'[work[v].job] = job[work[v].job]
          BY <2>5, <2>7, <4>2, <5>1, <5>2
        <5>4. HoldsFence(v)
          BY <3>1, <5>1, <5>3 DEF HoldsFence, Holds
        <5> QED
          BY <5>1, <5>3, <5>4 DEF JobInv, WorkOK
      <4> QED
        BY <4>1, <4>2
    <3>2. \A v \in Processes :
            /\ work'[v].pc # "none" => work'[v].job \in Jobs
            /\ work'[v].pc = "complete" /\ work'[v].job \in Publications
                 => work'[v].job \in published'
      BY <1>0, <2>1, <2>4, <2>5 DEF JobInv, WorkOK
    <3>3. \A k \in Jobs : job'[k].state = "absent" => job'[k].attempt = 0
      BY <2>3, <2>5 DEF JobInv, WorkOK
    <3> QED
      BY <2>1, <3>1, <3>2, <3>3 DEF JobInv, WorkOK
  <2> QED
    BY <2>6, <2>8, <2>9, <2>10 DEF JobInv
<1> QED
  BY <1>1, <1>2

\* What holds of a worker in DecisionJobs.run and of its row.
LEMMA AtWork ==
  ASSUME JobInv, NEW w \in Processes, work[w].pc \in Fenced
  PROVE  /\ work[w].job \in Jobs /\ job[work[w].job] \in Row
         /\ job[work[w].job].attempt \in Nat /\ work[w].attempt \in Nat
         /\ work[w].attempt > 0
<1>1. work[w].pc # "none" /\ work[w] \in Process
  BY InvParts DEF Fenced
<1>2. work[w].job \in Jobs
  BY <1>1 DEF JobInv, WorkOK
<1>3. job[work[w].job] \in Row /\ job[work[w].job].attempt \in Nat
  BY <1>2, InvParts DEF Row
<1>4. work[w].attempt \in 1..job[work[w].job].attempt
  BY DEF JobInv, AttemptsDistinct
<1> QED
  BY <1>2, <1>3, <1>4

\* A worker exits after a last update of its row.
LEMMA ExitStep ==
  ASSUME JobInv, NEW w \in Processes, work[w].pc \in Fenced, Go(w, "exited"),
         NEW r \in Row, Advances(job[work[w].job], r), ByLast(r),
         r.state = "completed" /\ work[w].job \in Publications
           => work[w].job \in published,
         job' = [job EXCEPT ![work[w].job] = r],
         UNCHANGED <<cold, member, published, sup, faults>>
  PROVE  JobInv'
<1>1. /\ published \subseteq published' /\ published' \subseteq Jobs
      /\ cold' \in [Jobs -> Nat] /\ UNCHANGED <<member, sup, faults>>
  BY InvParts
<1> DEFINE next == "exited"
<1>2. next \in Fenced \cup {"exited", "killed"} /\ Go(w, next)
      /\ (next = "complete" /\ work[w].job \in Publications
            => work[w].job \in published')
  OBVIOUS
<1> HIDE DEF next
<1> QED
  BY <1>1, <1>2, WorkerStep

\* A row that is failed or returned to the queue keeps its attempt.
LEMMA KeepAttempt ==
  ASSUME NEW r \in Row, NEW st \in {"pending", "failed"}, r.state # "completed"
  PROVE  LET s == [r EXCEPT !.state = st, !.stale = FALSE]
         IN  s \in Row /\ Advances(r, s) /\ ByLast(s) /\ s.state # "completed"
<1> DEFINE a == r.attempt
<1>1. a \in Nat /\ a >= r.attempt /\ r = [r EXCEPT !.attempt = a]
  BY DEF Row
<1>2. [r EXCEPT !.state = st, !.stale = FALSE]
        = [r EXCEPT !.state = st, !.stale = FALSE, !.attempt = a]
  BY DEF Row
<1> HIDE DEF a
<1> QED
  BY <1>1, <1>2, SettleRow

\* Progress preserves the invariant, with or without the fence.
LEMMA ProgressStep ==
  ASSUME JobInv, NEW w \in Processes, work[w].pc \in Fenced,
         NEW phase \in {"working", "publishing"}, NEW next \in Fenced,
         Progress(w, phase, next),
         next = "complete" => work[w].job \notin Publications,
         cold' \in [Jobs -> Nat], UNCHANGED <<member, published, sup, faults>>
  PROVE  JobInv'
<1> DEFINE j == work[w].job
<1>1. CASE HoldsFence(w)
  <2> DEFINE r1 == [job[j] EXCEPT !.phase = phase]
             r == [r1 EXCEPT !.stale = FALSE]
  <2>1. /\ r1 \in Row /\ r1.state = job[j].state /\ r1.attempt = job[j].attempt
        /\ r1.cycle = job[j].cycle
    BY AtWork DEF Row
  <2>2. /\ r \in Row /\ r.state = job[j].state /\ r.attempt = job[j].attempt
        /\ r.cycle = job[j].cycle
    BY <2>1 DEF Row
  <2>3. job' = [job EXCEPT ![j] = r] /\ Go(w, next)
    BY <1>1, AtWork DEF Progress, Row
  <2>4. job[j].state = "running"
    BY <1>1 DEF HoldsFence, Holds
  <2> HIDE DEF r, r1
  <2>5. Advances(job[j], r) /\ ByLast(r) /\ r.state # "completed"
    BY <2>2, <2>4, AtWork DEF Advances, ByLast
  <2>6. published \subseteq published' /\ published' \subseteq Jobs
    BY InvParts
  <2> QED
    BY <2>2, <2>3, <2>5, <2>6, WorkerStep
<1>2. CASE ~HoldsFence(w)
  <2>1. Go(w, "fail") /\ UNCHANGED job
    BY <1>2 DEF Progress
  <2>2. "fail" \in Fenced /\ published \subseteq published' /\ published' \subseteq Jobs
    BY InvParts DEF Fenced
  <2> QED
    BY <2>1, <2>2, QuietStep
<1> QED
  BY <1>1, <1>2

\* fail() changes an active row of the attempt, or one not yet claimed.
LEMMA FailRow ==
  ASSUME JobInv, NEW j \in Jobs, NEW a, Fail(j, a)
  PROVE  \E r \in Row : /\ Advances(job[j], r) /\ ByLast(r)
                        /\ r.state = "completed" => job[j].state = "completed"
                        /\ job' = [job EXCEPT ![j] = r]
<1>1. job[j] \in Row /\ job[j].attempt \in Nat /\ job \in [Jobs -> Row]
  BY InvParts DEF Row
<1>2. CASE MayFail(j, a)
  <2> DEFINE r == [job[j] EXCEPT !.state = "failed", !.stale = FALSE]
  <2>1. job[j].state # "completed"
    BY <1>2 DEF MayFail, Active
  <2>2. r \in Row /\ Advances(job[j], r) /\ ByLast(r) /\ r.state # "completed"
    BY <1>1, <2>1, KeepAttempt
  <2>3. job' = [job EXCEPT ![j] = r]
    BY <1>1, <1>2 DEF Fail, Row
  <2> HIDE DEF r
  <2> QED
    BY <2>2, <2>3
<1>3. CASE ~MayFail(j, a)
  <2>1. job' = [job EXCEPT ![j] = job[j]]
    BY <1>1, <1>3 DEF Fail
  <2> QED
    BY <1>1, <2>1, InvParts
<1> QED
  BY <1>2, <1>3

\* The steps of DecisionJobs.run preserve the invariant.
LEMMA WorkerSteps ==
  ASSUME JobInv, NEW w \in Processes, Worker(w)
  PROVE  JobInv'
<1> DEFINE j == work[w].job
<1>0. /\ published \subseteq Jobs /\ cold \in [Jobs -> Nat]
      /\ \A k \in Jobs : cold[k] \in Nat
  BY InvParts
<1>1. CASE Claim(w)
  BY <1>1, ClaimStep
<1>2. CASE Begin(w)
  BY <1>0, <1>2, ProgressStep DEF Begin, Fenced
<1>3. CASE Admit(w)
  <2> DEFINE next == IF Authorized(j) THEN "prepare" ELSE "fail"
  <2>1. work[w].pc \in Fenced /\ next \in Fenced /\ next # "complete"
    BY <1>3 DEF Admit, Fenced
  <2>2. Go(w, next) /\ UNCHANGED <<job, cold, member, published, sup, faults>>
    BY <1>3 DEF Admit
  <2> HIDE DEF next
  <2> QED
    BY <1>0, <2>1, <2>2, QuietStep
<1>4. CASE Prepare(w)
  <2>1. work[w].pc \in Fenced
    BY <1>4 DEF Prepare, Fenced
  <2>2. CASE cold[j] > 0
    BY <1>0, <1>4, <2>1, <2>2, ProgressStep DEF Prepare, Fenced
  <2>3. CASE ~(cold[j] > 0)
    BY <1>0, <1>4, <2>1, <2>3, QuietStep DEF Prepare, Fenced
  <2> QED
    BY <2>2, <2>3
<1>5. CASE Index(w)
  <2>1. work[w].pc \in Fenced /\ "requeue" \in Fenced
    BY <1>5 DEF Index, Fenced
  <2>2. j \in Jobs
    BY <2>1, AtWork
  <2>3. cold' \in [Jobs -> Nat]
    BY <1>0, <1>5, <2>2 DEF Index
  <2>4. /\ Progress(w, "working", "requeue")
        /\ UNCHANGED <<member, published, sup, faults>>
    BY <1>5 DEF Index
  <2> QED
    BY <2>1, <2>3, <2>4, ProgressStep
<1>6. CASE Requeue(w)
  <2>1. work[w].pc \in Fenced /\ Go(w, "exited")
        /\ UNCHANGED <<cold, member, published, sup, faults>>
    BY <1>6 DEF Requeue, Fenced
  <2>2. CASE HoldsFence(w)
    <3> DEFINE r == [job[j] EXCEPT !.state = "pending", !.stale = FALSE]
    <3>1. job[j].state # "completed"
      BY <2>2 DEF HoldsFence, Holds
    <3>2. r \in Row /\ Advances(job[j], r) /\ ByLast(r) /\ r.state # "completed"
      BY <2>1, <3>1, AtWork, KeepAttempt
    <3>3. job' = [job EXCEPT ![j] = r]
      BY <1>6, <2>1, <2>2, AtWork DEF Requeue, Row
    <3> HIDE DEF r
    <3> QED
      BY <1>0, <2>1, <3>2, <3>3, ExitStep
  <2>3. CASE ~HoldsFence(w)
    BY <1>0, <1>6, <2>1, <2>3, QuietStep DEF Requeue
  <2> QED
    BY <2>2, <2>3
<1>7. CASE Select(w)
  <2> DEFINE next == IF j \in Publications THEN "announce" ELSE "complete"
  <2>1. /\ work[w].pc \in Fenced /\ next \in Fenced
        /\ next = "complete" => j \notin Publications
    BY <1>7 DEF Select, Fenced
  <2>2. /\ Progress(w, "working", next)
        /\ UNCHANGED <<cold, member, published, sup, faults>>
    BY <1>7 DEF Select
  <2> HIDE DEF next
  <2> QED
    BY <1>0, <2>1, <2>2, ProgressStep
<1>8. CASE Announce(w)
  BY <1>0, <1>8, ProgressStep DEF Announce, Fenced
<1>9. CASE Publish(w)
  <2>1. work[w].pc \in Fenced /\ "complete" \in Fenced
    BY <1>9 DEF Publish, Fenced
  <2>2. j \in Jobs
    BY <2>1, AtWork
  <2> QED
    BY <1>0, <1>9, <2>1, <2>2, QuietStep DEF Publish
<1>10. CASE Complete(w)
  <2>1. /\ work[w].pc \in Fenced /\ "fail" \in Fenced
        /\ work[w].pc = "complete"
        /\ UNCHANGED <<cold, member, published, sup, faults>>
    BY <1>10 DEF Complete, Fenced
  <2>2. CASE Authorized(j) /\ HoldsFence(w)
    <3> DEFINE r1 == [job[j] EXCEPT !.state = "completed"]
               r2 == [r1 EXCEPT !.phase = "completed"]
               r3 == [r2 EXCEPT !.stale = FALSE]
               r == [r3 EXCEPT !.by = work[w].attempt]
    <3>1. r1 \in Row /\ r1.state = "completed" /\ r1.attempt = job[j].attempt
      BY <2>1, AtWork DEF Row, Settled
    <3>2. r2 \in Row /\ r2.state = "completed" /\ r2.attempt = job[j].attempt
      BY <3>1 DEF Row
    <3>3. r3 \in Row /\ r3.state = "completed" /\ r3.attempt = job[j].attempt
      BY <3>2 DEF Row
    <3>4. /\ r \in Row /\ r.state = "completed" /\ r.attempt = job[j].attempt
          /\ r.by = work[w].attempt
      <4> HIDE DEF r3
      <4> QED
        BY <2>1, <3>3, AtWork DEF Row
    <3>5. job' = [job EXCEPT ![j] = r] /\ Go(w, "exited")
      BY <1>10, <2>1, <2>2, AtWork DEF Complete, Row
    <3>6. job[j].attempt = work[w].attempt
      BY <2>2 DEF HoldsFence, Holds
    <3> HIDE DEF r, r1, r2, r3
    <3>7. Advances(job[j], r) /\ ByLast(r)
      BY <2>1, <3>4, <3>6, AtWork DEF Advances, ByLast
    <3>8. j \in Publications => j \in published
      BY <2>1, InvParts
    <3> QED
      BY <1>0, <2>1, <3>4, <3>5, <3>7, <3>8, ExitStep
  <2>3. CASE Authorized(j) /\ ~HoldsFence(w)
    BY <1>0, <1>10, <2>1, <2>3, QuietStep DEF Complete
  <2>4. CASE ~Authorized(j)
    BY <1>0, <1>10, <2>1, <2>4, QuietStep DEF Complete
  <2> QED
    BY <2>2, <2>3, <2>4
<1>11. CASE Raise(w)
  BY <1>0, <1>11, QuietStep DEF Raise, Fenced
<1>12. CASE RecordFailure(w)
  <2>1. /\ work[w].pc \in Fenced /\ Go(w, "exited") /\ Fail(j, work[w].attempt)
        /\ UNCHANGED <<cold, member, published, sup, faults>>
    BY <1>12 DEF RecordFailure, Fenced
  <2>2. PICK r \in Row : /\ Advances(job[j], r) /\ ByLast(r)
                         /\ r.state = "completed" => job[j].state = "completed"
                         /\ job' = [job EXCEPT ![j] = r]
    BY <2>1, AtWork, FailRow
  <2>3. r.state = "completed" /\ j \in Publications => j \in published
    BY <2>1, <2>2, AtWork, InvParts
  <2> QED
    BY <1>0, <2>1, <2>2, <2>3, ExitStep
<1> QED
  BY <1>1, <1>2, <1>3, <1>4, <1>5, <1>6, <1>7, <1>8, <1>9, <1>10, <1>11, <1>12
     DEF Worker

-----------------------------------------------------------------------------
(* Heartbeats, deaths, the verifier thread and time.                       *)

\* Marking a row stale or fresh is an advance.
LEMMA StaleRow ==
  ASSUME NEW r \in Row, ByLast(r), NEW b \in BOOLEAN
  PROVE  LET s == [r EXCEPT !.stale = b]
         IN  s \in Row /\ Advances(r, s) /\ ByLast(s) /\ s.state = r.state
<1> DEFINE s == [r EXCEPT !.stale = b]
<1>1. /\ s \in Row /\ s.state = r.state /\ s.attempt = r.attempt
      /\ s.cycle = r.cycle /\ s.by = r.by /\ r.attempt \in Nat
  BY DEF Row
<1> HIDE DEF s
<1>2. Advances(r, s) /\ ByLast(s)
  BY <1>1 DEF Advances, ByLast
<1> QED
  BY <1>1, <1>2 DEF s

\* Replacing a process by none, by a new one, or ending it.
LEMMA ReplaceProc ==
  ASSUME JobInv, NEW w \in Processes, NEW p \in Process,
         p.pc \notin Fenced, p.pc # "none" => p.job \in Jobs,
         work' = [work EXCEPT ![w] = p],
         SupOK(sup'), faults' \in Nat, UNCHANGED <<job, cold, member, published>>
  PROVE  JobInv'
<1>1. /\ work' \in [Processes -> Process] /\ work'[w] = p
      /\ \A v \in Processes \ {w} : work'[v] = work[v]
  BY InvParts
<1>2. p.pc # "complete"
  BY DEF Fenced
<1>3. \A v \in Processes :
        /\ Follows(work[v], work'[v])
        /\ work'[v].pc = "complete"
             => work[v].pc = "complete" /\ work'[v].job = work[v].job
  BY <1>1, <1>2, InvParts DEF Follows
<1> QED
  BY <1>1, <1>3, ProcessesStep

\* No process, and a new one, are processes.
LEMMA ProcTypes ==
  /\ NoProc \in Process /\ NoProc.pc = "none" /\ NoProc.pc \notin Fenced
  /\ \A j \in Jobs : /\ NewProc(j) \in Process /\ NewProc(j).pc \notin Fenced
                     /\ NewProc(j).job = j
BY DEF NoProc, NewProc, Process, Fenced

\* The supervisor without a job.
LEMMA SupTypes ==
  /\ \A s \in {"down", "dead", "idle"} : SupOK(SupAt(s, NoJob, 0))
  /\ \A s \in {"chosen", "counted", "running", "failing"}, j \in Jobs, a \in Nat :
       SupOK(SupAt(s, j, a))
BY DEF SupOK, SupAt, Supervisor

\* Heartbeats, kills, verify commands and time preserve the invariant.
LEMMA AsideSteps ==
  ASSUME JobInv,
         \/ \E w \in Processes : Heartbeat(w) \/ Killed(w)
         \/ \E j \in Jobs : VerifyCommand(j) \/ BecomesStale(j)
  PROVE  JobInv'
<1>1. ASSUME NEW w \in Processes, Heartbeat(w) PROVE JobInv'
  <2> DEFINE j == work[w].job
             r == [job[j] EXCEPT !.stale = FALSE]
  <2>1. j \in Jobs /\ job[j] \in Row /\ ByLast(job[j])
    BY <1>1, AtWork, InvParts DEF Heartbeat
  <2>2. r \in Row /\ Advances(job[j], r) /\ ByLast(r) /\ r.state = job[j].state
    BY <2>1, StaleRow
  <2>3. job' = [job EXCEPT ![j] = r]
    BY <1>1 DEF Heartbeat
  <2> HIDE DEF r, j
  <2> QED
    BY <1>1, <2>1, <2>2, <2>3, InvParts, RowStep DEF Heartbeat
<1>2. ASSUME NEW w \in Processes, Killed(w) PROVE JobInv'
  <2> DEFINE p == [work[w] EXCEPT !.pc = "killed"]
  <2>1. p \in Process /\ p.pc = "killed" /\ p.job = work[w].job
    BY InvParts DEF Process
  <2>2. work[w].job \in Jobs
    BY <1>2, InvParts DEF Killed, Alive, Fenced, Follows
  <2>3. work' = [work EXCEPT ![w] = p]
    BY <1>2 DEF Killed, Go
  <2> HIDE DEF p
  <2>4. p.pc \notin Fenced
    BY <2>1 DEF Fenced
  <2> QED
    BY <1>2, <2>1, <2>2, <2>3, <2>4, InvParts, ReplaceProc DEF Killed
<1>3. ASSUME NEW j \in Jobs, VerifyCommand(j) PROVE JobInv'
  <2>1. /\ work' = [work EXCEPT !["other"] = NewProc(j)] /\ "other" \in Processes
        /\ SupOK(sup') /\ faults' \in Nat
        /\ UNCHANGED <<job, cold, member, published>>
    BY <1>3, InvParts DEF VerifyCommand, Processes
  <2> QED
    BY <2>1, ProcTypes, ReplaceProc
<1>4. ASSUME NEW j \in Jobs, BecomesStale(j) PROVE JobInv'
  <2> DEFINE r == [job[j] EXCEPT !.stale = TRUE]
  <2>1. job[j] \in Row /\ ByLast(job[j])
    BY InvParts
  <2>2. r \in Row /\ Advances(job[j], r) /\ ByLast(r) /\ r.state = job[j].state
    BY <2>1, StaleRow
  <2>3. job' = [job EXCEPT ![j] = r]
    BY <1>4 DEF BecomesStale
  <2> HIDE DEF r
  <2> QED
    BY <1>4, <2>2, <2>3, InvParts, RowStep DEF BecomesStale
<1> QED
  BY <1>1, <1>2, <1>3, <1>4

\* The sweep advances every row and completes none.
LEMMA SweptRows ==
  ASSUME JobInv
  PROVE  /\ Swept(job) \in [Jobs -> Row]
         /\ \A j \in Jobs :
              /\ Advances(job[j], Swept(job)[j]) /\ ByLast(Swept(job)[j])
              /\ Swept(job)[j].state = "completed" => job[j].state = "completed"
              /\ Swept(job)[j].state = "absent" => job[j].state = "absent"
<1> SUFFICES ASSUME NEW j \in Jobs
             PROVE  /\ Swept(job)[j] \in Row
                    /\ Advances(job[j], Swept(job)[j]) /\ ByLast(Swept(job)[j])
                    /\ Swept(job)[j].state = "completed" => job[j].state = "completed"
                    /\ Swept(job)[j].state = "absent" => job[j].state = "absent"
  BY DEF Swept
<1>1. job[j] \in Row /\ job[j].attempt \in Nat
  BY InvParts DEF Row
<1>2. CASE job[j].state = "running" /\ job[j].stale
  <2> DEFINE r == [job[j] EXCEPT !.state = "failed"]
  <2>1. r \in Row /\ r.state = "failed" /\ r.attempt = job[j].attempt
    BY <1>1 DEF Row, Settled
  <2>2. Swept(job)[j] = r
    BY <1>2 DEF Swept
  <2> HIDE DEF r
  <2> QED
    BY <1>1, <1>2, <2>1, <2>2 DEF Advances, ByLast
<1>3. CASE ~(job[j].state = "running" /\ job[j].stale)
  BY <1>3, InvParts DEF Swept
<1> QED
  BY <1>2, <1>3

\* pending() preserves the invariant, whether or not it adds a profile.
LEMMA PendingJobStep == JobInv /\ PendingJob => JobInv'
<1> SUFFICES ASSUME JobInv, PendingJob PROVE JobInv'
  OBVIOUS
<1>1. SupOK(sup')
  BY InvParts, SupTypes DEF PendingJob, Head
<1>2. member' \in BOOLEAN /\ UNCHANGED <<cold, published, work, faults>>
  BY InvParts DEF PendingJob
<1>3. CASE job' = Swept(job)
  BY <1>1, <1>2, <1>3, SweptRows, RowsStep
<1>4. ASSUME NEW p \in Profiles, Swept(job)[p].state = "absent",
             job' = Inserted(Swept(job), p)
      PROVE  JobInv'
  <2> DEFINE t == Swept(job)
  <2>1. PICK n \in Nat :
          job' = [t EXCEPT ![p] = [NoRow EXCEPT !.state = "pending", !.rowid = n]]
    <3> DEFINE n == Cardinality({k \in Jobs : t[k].state # "absent"}) + 1
    <3> HIDE DEF t
    <3>1. n \in Nat
      <4>1. IsFiniteSet({k \in Jobs : t[k].state # "absent"})
        BY FS_Subset DEF JobConstantsOK
      <4> QED
        BY <4>1, FS_CardinalityType
    <3> QED
      BY <1>4, <3>1 DEF Inserted, t
  <2> DEFINE r == [NoRow EXCEPT !.state = "pending", !.rowid = n]
  <2>2. r \in Row /\ r.state = "pending" /\ r.attempt = 0
    BY DEF NoRow, Row, Active, Settled
  <2>3. p \in Jobs /\ job[p].state = "absent" /\ job[p].attempt = 0
    BY <1>4, SweptRows DEF JobConstantsOK, JobInv, WorkOK
  <2>4. /\ job' \in [Jobs -> Row] /\ job'[p] = r
        /\ \A k \in Jobs \ {p} : job'[k] = t[k]
    <3> HIDE DEF r
    <3> QED
      BY <2>1, <2>2, <2>3, SweptRows DEF r
  <2> HIDE DEF r, t
  <2>5. Advances(job[p], r) /\ ByLast(r)
    BY <2>2, <2>3 DEF Advances, ByLast
  <2>6. \A j \in Jobs : /\ Advances(job[j], job'[j]) /\ ByLast(job'[j])
                        /\ job'[j].state = "completed" => job[j].state = "completed"
    BY <2>2, <2>4, <2>5, SweptRows DEF t
  <2> QED
    BY <1>1, <1>2, <2>4, <2>6, RowsStep
<1> QED
  BY <1>3, <1>4 DEF PendingJob

\* The other steps of the verifier thread and its service.
LEMMA ThreadSteps ==
  ASSUME JobInv, \/ NextAttempt \/ Defer \/ Spawn \/ ChildExits \/ EndChild
                 \/ ParentFailure \/ ThreadDies \/ Start
  PROVE  JobInv'
<1>0. /\ sup \in Supervisor /\ faults \in Nat /\ "child" \in Processes
      /\ sup.pc \in {"chosen", "counted", "running", "failing"} => sup.job \in Jobs
  BY InvParts DEF SupOK, Processes
<1>1. \A w \in Processes :
        /\ Follows(work[w], work[w])
        /\ work[w].pc = "complete"
             => work[w].pc = "complete" /\ work[w].job = work[w].job
  BY InvParts
<1>2. ASSUME UNCHANGED <<job, cold, member, published, work>>, SupOK(sup'),
             faults' \in Nat
      PROVE  JobInv'
  BY <1>1, <1>2, InvParts, ProcessesStep
<1>3. ASSUME NEW s \in {"running", "failing"}, sup.pc \in {"counted", "running"}
      PROVE  SupOK([sup EXCEPT !.pc = s])
  BY <1>0, <1>3 DEF SupOK, Supervisor
<1>4. CASE NextAttempt
  <2>1. job[sup.job].attempt + 1 \in Nat /\ sup.job \in Jobs
    BY <1>0, <1>4, InvParts DEF NextAttempt, Row
  <2> QED
    BY <1>0, <1>2, <1>4, <2>1, SupTypes DEF NextAttempt
<1>5. CASE Defer
  BY <1>0, <1>2, <1>5, SupTypes DEF Defer
<1>6. CASE Spawn
  BY <1>0, <1>3, <1>6, ProcTypes, ReplaceProc DEF Spawn
<1>7. CASE ChildExits
  <2>1. SupOK(sup')
    BY <1>0, <1>3, <1>7, SupTypes DEF ChildExits
  <2> QED
    BY <1>0, <1>7, <2>1, ProcTypes, ReplaceProc DEF ChildExits
<1>8. CASE EndChild
  BY <1>0, <1>3, <1>8, ProcTypes, ReplaceProc DEF EndChild
<1>9. CASE ParentFailure
  <2>1. sup.job \in Jobs /\ Fail(sup.job, sup.attempt)
    BY <1>0, <1>9 DEF ParentFailure
  <2>2. PICK r \in Row : /\ Advances(job[sup.job], r) /\ ByLast(r)
                         /\ r.state = "completed" => job[sup.job].state = "completed"
                         /\ job' = [job EXCEPT ![sup.job] = r]
    BY <2>1, FailRow
  <2>3. /\ SupOK(sup') /\ member' \in BOOLEAN
        /\ UNCHANGED <<cold, published, work, faults>>
    BY <1>9, InvParts, SupTypes DEF ParentFailure
  <2> QED
    BY <2>1, <2>2, <2>3, RowStep
<1>10. CASE ThreadDies
  BY <1>0, <1>2, <1>10, SupTypes DEF ThreadDies
<1>11. CASE Start
  BY <1>0, <1>2, <1>11, SupTypes DEF Start
<1> QED
  BY <1>4, <1>5, <1>6, <1>7, <1>8, <1>9, <1>10, <1>11

\* A killed service leaves its child behind; no one else holds its attempt.
LEMMA StopStep == JobInv /\ Stop => JobInv'
<1> SUFFICES ASSUME JobInv, Stop PROVE JobInv'
  OBVIOUS
<1>0. /\ "child" \in Processes /\ "other" \in Processes
      /\ SupOK(sup') /\ faults' \in Nat /\ UNCHANGED <<job, cold, member, published>>
  BY InvParts, SupTypes DEF Stop, Processes
<1>1. CASE work' = [work EXCEPT !["child"] = NoProc]
  BY <1>0, <1>1, ProcTypes, ReplaceProc
<1>2. CASE work' = [work EXCEPT !["child"] = NoProc, !["other"] = work["child"]]
  <2>1. /\ work' \in [Processes -> Process]
        /\ work'["child"] = NoProc /\ work'["other"] = work["child"]
    BY <1>0, <1>2, InvParts, ProcTypes
  <2>2. \A w \in Processes : work'[w].pc \in Fenced => w = "other"
    BY <2>1, ProcTypes DEF Processes
  <2>3. TypeOK' /\ CompletedByLast'
    BY <1>0, <2>1 DEF JobInv, TypeOK, CompletedByLast, SupOK
  <2>4. AttemptsDistinct'
    BY <1>0, <2>1, <2>2 DEF JobInv, AttemptsDistinct
  <2>5. WorkOK'
    BY <1>0, <2>1, <2>2, ProcTypes
       DEF JobInv, WorkOK, SupOK, HoldsFence, Holds, Processes, Fenced
  <2> QED
    BY <2>3, <2>4, <2>5 DEF JobInv
<1> QED
  BY <1>1, <1>2 DEF Stop

-----------------------------------------------------------------------------
(* Theorems.                                                               *)

\* Every step preserves the invariant.
LEMMA JobStep == JobInv /\ [Next]_vars => JobInv'
<1> SUFFICES ASSUME JobInv, [Next]_vars PROVE JobInv'
  OBVIOUS
<1>1. CASE Request
  BY <1>1, RequestSteps
<1>2. CASE \E w \in Processes : Worker(w)
  BY <1>2, WorkerSteps
<1>3. CASE \/ \E w \in Processes : Heartbeat(w) \/ Killed(w)
           \/ \E j \in Jobs : VerifyCommand(j) \/ BecomesStale(j)
  BY <1>3, AsideSteps
<1>4. CASE Supervise \/ ThreadDies \/ Start
  BY <1>4, PendingJobStep, ThreadSteps DEF Supervise
<1>5. CASE Stop
  BY <1>5, StopStep
<1>6. CASE UNCHANGED vars
  BY <1>6 DEF vars, JobInv, TypeOK, AttemptsDistinct, CompletedByLast, WorkOK,
              HoldsFence, Holds
<1> QED
  BY <1>1, <1>2, <1>3, <1>4, <1>5, <1>6 DEF Next

\* The invariant of decision jobs holds in every reachable state.
THEOREM JobInvariance == Spec => []JobInv
BY InitJobInv, JobStep, PTL DEF Spec

\* Rows, processes and the supervisor stay in their domains.
THEOREM JobTypes == Spec => []TypeOK
<1>1. JobInv => TypeOK
  BY DEF JobInv
<1> QED
  BY <1>1, JobInvariance, PTL

\* No two workers hold one attempt of a job: next_attempt and the claim fence
\* orphans, stalled workers and verify commands from each other.
THEOREM AttemptsAreDistinct == Spec => []AttemptsDistinct
<1>1. JobInv => AttemptsDistinct
  BY DEF JobInv
<1> QED
  BY <1>1, JobInvariance, PTL

\* A completed job was completed by its last attempt, its manifest stored.
THEOREM CompletionsByLast == Spec => []CompletedByLast
<1>1. JobInv => CompletedByLast
  BY DEF JobInv
<1> QED
  BY <1>1, JobInvariance, PTL

-----------------------------------------------------------------------------
(* What a step may do.                                                     *)

\* What a step may do to a settled row.
Settles(r, s) ==
  r.state \in Settled =>
    \/ s.state = r.state /\ s.phase = r.phase
    \/ r.state # "completed" /\ s.state = "pending" /\ s.cycle = r.cycle + 1

\* A worker writes under its fence, and completes as its member's, or fails.
LEMMA WorkerWrites ==
  ASSUME JobInv, NEW w \in Processes, Worker(w), work[w].pc # "claim"
  PROVE  LET j == work[w].job
         IN  /\ work[w].pc \in Fenced
             /\ \A v \in Processes \ {w} : work'[v] = work[v]
             /\ \A k \in Jobs \ {j} : job'[k] = job[k]
             /\ work[w].pc # "fail" /\ job' # job => HoldsFence(w)
             /\ job' # job => job[j].state \in Active
             /\ job'[j].state = "completed" /\ job[j].state # "completed"
                  => Authorized(j)
<1> DEFINE j == work[w].job
<1>1. work[w].pc \in Fenced /\ j \in Jobs
  <2>1. work[w].pc \in Fenced
    BY DEF Worker, Claim, Begin, Admit, Prepare, Index, Requeue, Select, Announce,
           Publish, Complete, Raise, RecordFailure, Fenced
  <2> QED
    BY <2>1, AtWork
<1>2. job \in [Jobs -> Row] /\ work \in [Processes -> Process] /\ job[j] \in Row
  BY <1>1, InvParts
<1>3. \A v \in Processes \ {w} : work'[v] = work[v]
  BY <1>1, <1>2
     DEF Worker, Claim, Begin, Admit, Prepare, Index, Requeue, Select, Announce,
         Publish, Complete, Raise, RecordFailure, Progress, Go
<1>4. CASE RecordFailure(w)
  <2>1. CASE MayFail(j, work[w].attempt)
    <3>1. job' = [job EXCEPT ![j].state = "failed", ![j].stale = FALSE]
      BY <1>4, <2>1 DEF RecordFailure, Fail
    <3>2. job[j].state \in Active
      BY <2>1 DEF MayFail, Active
    <3>3. job'[j].state = "failed" /\ \A k \in Jobs \ {j} : job'[k] = job[k]
      BY <1>1, <1>2, <3>1 DEF Row
    <3> QED
      BY <1>1, <1>3, <1>4, <3>2, <3>3 DEF RecordFailure
  <2>2. CASE ~MayFail(j, work[w].attempt)
    BY <1>1, <1>3, <1>4, <2>2 DEF RecordFailure, Fail
  <2> QED
    BY <2>1, <2>2
<1>5. ASSUME NEW phase, NEW next, Progress(w, phase, next)
      PROVE  /\ \A k \in Jobs \ {j} : job'[k] = job[k]
             /\ job' # job => HoldsFence(w)
             /\ job'[j].state = job[j].state
  BY <1>1, <1>2, <1>5 DEF Progress, Row
<1>6. CASE Complete(w)
  <2>1. CASE Authorized(j) /\ HoldsFence(w)
    BY <1>1, <1>2, <1>3, <1>6, <2>1 DEF Complete, HoldsFence, Holds, Active
  <2>2. CASE ~(Authorized(j) /\ HoldsFence(w))
    BY <1>1, <1>3, <1>6, <2>2 DEF Complete
  <2> QED
    BY <2>1, <2>2
<1>7. CASE Requeue(w)
  <2>1. CASE HoldsFence(w)
    BY <1>1, <1>2, <1>3, <1>7, <2>1 DEF Requeue, HoldsFence, Holds, Active, Row
  <2>2. CASE ~HoldsFence(w)
    BY <1>1, <1>3, <1>7, <2>2 DEF Requeue
  <2> QED
    BY <2>1, <2>2
<1>8. CASE Begin(w) \/ Index(w) \/ Select(w) \/ Announce(w)
  BY <1>1, <1>3, <1>5, <1>8
     DEF Begin, Index, Select, Announce, HoldsFence, Holds, Active
<1>9. CASE Prepare(w)
  BY <1>1, <1>3, <1>5, <1>9 DEF Prepare, HoldsFence, Holds, Active
<1>10. CASE Admit(w) \/ Publish(w) \/ Raise(w)
  BY <1>1, <1>3, <1>10 DEF Admit, Publish, Raise
<1>11. ~Claim(w)
  BY DEF Claim
<1> QED
  BY <1>4, <1>6, <1>7, <1>8, <1>9, <1>10, <1>11 DEF Worker

\* What the steps of everyone else may do to a row.
LEMMA AsideWrites ==
  ASSUME JobInv, [Next]_vars, ~ \E w \in Processes : Worker(w)
  PROVE  /\ work' = work \/ job' = job
         /\ \A j \in Jobs :
              /\ Settles(job[j], job'[j])
              /\ job'[j].state = "completed" => job[j].state = "completed"
<1>0. job \in [Jobs -> Row] /\ \A j \in Jobs : job[j] \in Row
  BY InvParts
<1>1. CASE Request
  <2>0. work' = work
    BY <1>1 DEF Request, Create, Cancel, Retry, SetArchived, MembershipChanges, backend
  <2>1. ASSUME NEW j \in Jobs, Create(j)
        PROVE  \A k \in Jobs : /\ Settles(job[k], job'[k])
                               /\ job'[k].state = "completed" => job[k].state = "completed"
    <3>1. /\ job[j].state = "absent" /\ job'[j].state = "pending"
          /\ \A k \in Jobs \ {j} : job'[k] = job[k]
      BY <1>0, <2>1 DEF Create, Inserted, NoRow
    <3> QED
      BY <3>1 DEF Settles, Settled
  <2>2. ASSUME NEW j \in Jobs, Cancel(j)
        PROVE  \A k \in Jobs : /\ Settles(job[k], job'[k])
                               /\ job'[k].state = "completed" => job[k].state = "completed"
    <3>1. /\ job[j].state \in Active /\ job'[j].state = "cancelled"
          /\ \A k \in Jobs \ {j} : job'[k] = job[k]
      BY <1>0, <2>2 DEF Cancel, Cancelled, Row
    <3> QED
      BY <3>1 DEF Settles, Settled, Active
  <2>3. ASSUME NEW j \in Jobs, Retry(j)
        PROVE  \A k \in Jobs : /\ Settles(job[k], job'[k])
                               /\ job'[k].state = "completed" => job[k].state = "completed"
    <3>1. /\ job[j].state # "completed" /\ job'[j].state = "pending"
          /\ job'[j].cycle = job[j].cycle + 1
          /\ \A k \in Jobs \ {j} : job'[k] = job[k]
      BY <1>0, <2>3 DEF Retry, Row
    <3> QED
      BY <3>1 DEF Settles
  <2>4. ASSUME NEW j \in Jobs, SetArchived(j)
        PROVE  \A k \in Jobs : /\ Settles(job[k], job'[k])
                               /\ job'[k].state = "completed" => job[k].state = "completed"
    <3>1. /\ job'[j].state = job[j].state /\ job'[j].phase = job[j].phase
          /\ \A k \in Jobs \ {j} : job'[k] = job[k]
      BY <1>0, <2>4 DEF SetArchived, Row
    <3> QED
      BY <3>1 DEF Settles
  <2>5. CASE MembershipChanges
    BY <2>5 DEF MembershipChanges, Settles
  <2> QED
    BY <1>1, <2>0, <2>1, <2>2, <2>3, <2>4, <2>5 DEF Request
<1>2. ASSUME NEW j \in Jobs, NEW b, job[j].state = "running",
             job' = [job EXCEPT ![j].stale = b]
      PROVE  \A k \in Jobs : /\ Settles(job[k], job'[k])
                             /\ job'[k].state = "completed" => job[k].state = "completed"
  <2>1. job'[j].state = "running" /\ \A k \in Jobs \ {j} : job'[k] = job[k]
    BY <1>0, <1>2 DEF Row
  <2> QED
    BY <1>2, <2>1 DEF Settles, Settled
<1>3. ASSUME NEW w \in Processes, Heartbeat(w)
      PROVE  /\ work' = work
             /\ \A k \in Jobs : /\ Settles(job[k], job'[k])
                                /\ job'[k].state = "completed" => job[k].state = "completed"
  BY <1>2, <1>3, AtWork DEF Heartbeat, HoldsFence, Holds
<1>4. ASSUME NEW j \in Jobs, BecomesStale(j)
      PROVE  /\ work' = work
             /\ \A k \in Jobs : /\ Settles(job[k], job'[k])
                                /\ job'[k].state = "completed" => job[k].state = "completed"
  BY <1>2, <1>4 DEF BecomesStale
<1>5. CASE PendingJob
  <2>1. \A k \in Jobs : /\ Settles(job[k], Swept(job)[k])
                        /\ Swept(job)[k].state = "completed" => job[k].state = "completed"
    <3>1. \A k \in Jobs : job[k].state \in Settled => Swept(job)[k] = job[k]
      BY DEF Swept, Settled
    <3> QED
      BY <3>1, SweptRows DEF Settles
  <2>2. ASSUME NEW p \in Profiles, Swept(job)[p].state = "absent",
               job' = Inserted(Swept(job), p)
        PROVE  \A k \in Jobs : /\ Settles(job[k], job'[k])
                               /\ job'[k].state = "completed" => job[k].state = "completed"
    <3>1. /\ p \in Jobs /\ job[p].state = "absent" /\ job'[p].state = "pending"
          /\ \A k \in Jobs \ {p} : job'[k] = Swept(job)[k]
      BY <2>2, SweptRows DEF Inserted, NoRow, JobConstantsOK
    <3>2. Settles(job[p], job'[p])
      BY <3>1 DEF Settles, Settled
    <3> QED
      BY <2>1, <3>1, <3>2
  <2> QED
    BY <1>5, <2>1, <2>2 DEF PendingJob
<1>6. CASE ParentFailure
  <2>1. sup.job \in Jobs /\ Fail(sup.job, sup.attempt) /\ work' = work
    BY <1>6, InvParts DEF ParentFailure, SupOK
  <2>2. CASE MayFail(sup.job, sup.attempt)
    <3>1. /\ job[sup.job].state \in Active /\ job'[sup.job].state = "failed"
          /\ \A k \in Jobs \ {sup.job} : job'[k] = job[k]
      BY <1>0, <2>1, <2>2 DEF Fail, MayFail, Active, Row
    <3> QED
      BY <2>1, <3>1 DEF Settles, Settled, Active
  <2>3. CASE ~MayFail(sup.job, sup.attempt)
    BY <2>1, <2>3 DEF Fail, Settles
  <2> QED
    BY <2>2, <2>3
<1>7. ASSUME UNCHANGED job
      PROVE  \A k \in Jobs : /\ Settles(job[k], job'[k])
                             /\ job'[k].state = "completed" => job[k].state = "completed"
  BY <1>7 DEF Settles
<1>8. CASE \/ \E w \in Processes : Killed(w)
           \/ \E j \in Jobs : VerifyCommand(j)
  BY <1>7, <1>8 DEF Killed, VerifyCommand
<1>9. CASE \/ NextAttempt \/ Defer \/ Spawn \/ ChildExits \/ EndChild \/ ThreadDies
           \/ Start \/ Stop
  BY <1>7, <1>9 DEF NextAttempt, Defer, Spawn, ChildExits, EndChild, ThreadDies,
                    Start, Stop
<1>10. CASE UNCHANGED vars
  BY <1>7, <1>10 DEF vars
<1>11. PendingJob => work' = work
  BY DEF PendingJob
<1> QED
  BY <1>1, <1>3, <1>4, <1>5, <1>6, <1>8, <1>9, <1>10, <1>11 DEF Next, Supervise

\* A settled job changes only by an explicit retry, a completed one never.
THEOREM SettledJobsStay == Spec => SettledStays
<1> DEFINE A == \A j \in Jobs : job[j].state \in Settled =>
                  \/ job'[j].state = job[j].state /\ job'[j].phase = job[j].phase
                  \/ /\ job[j].state # "completed" /\ job'[j].state = "pending"
                     /\ job'[j].cycle = job[j].cycle + 1
<1>1. JobInv /\ [Next]_vars => A
  <2> SUFFICES ASSUME JobInv, [Next]_vars, NEW j \in Jobs, job[j].state \in Settled
               PROVE  Settles(job[j], job'[j])
    BY DEF Settles
  <2>1. CASE ~ \E w \in Processes : Worker(w)
    BY <2>1, AsideWrites
  <2>2. ASSUME NEW w \in Processes, Worker(w), work[w].pc # "claim"
        PROVE  Settles(job[j], job'[j])
    <3>1. job[work[w].job].state \in Active => work[w].job # j
      BY DEF Active, Settled
    <3> QED
      BY <2>2, <3>1, WorkerWrites DEF Settles
  <2>3. ASSUME NEW w \in Processes, Worker(w), work[w].pc = "claim"
        PROVE  Settles(job[j], job'[j])
    <3>1. Claim(w)
      BY <2>3 DEF Worker, Begin, Admit, Prepare, Index, Requeue, Select, Announce,
                  Publish, Complete, Raise, RecordFailure, Fenced
    <3>2. job'[j] = job[j]
      BY <3>1, InvParts DEF Claim, Settled
    <3> QED
      BY <3>2 DEF Settles
  <2> QED
    BY <2>1, <2>2, <2>3
<1>2. JobInv /\ [Next]_vars => [A]_vars
  BY <1>1
<1> QED
  BY <1>2, JobInvariance, PTL DEF Spec, SettledStays

\* A worker of an earlier retry cycle writes neither progress nor a result nor
\* a checkpoint.
THEOREM OldWorkersFenced == Spec => OldWorkerFenced
<1> DEFINE A == \A w \in Processes :
                  Moves(w) /\ work[w].pc # "fail" /\ job' # job
                    => work[w].cycle = job[work[w].job].cycle
<1>1. JobInv /\ [Next]_vars => A
  <2> SUFFICES ASSUME JobInv, [Next]_vars, NEW w \in Processes,
                      work[w].pc \in Fenced, work'[w] # work[w],
                      work[w].pc # "fail", job' # job
               PROVE  work[w].cycle = job[work[w].job].cycle
    BY DEF Moves
  <2>1. PICK v \in Processes : Worker(v)
    BY AsideWrites
  <2>2. v = w
    <3>1. CASE work[v].pc = "claim"
      <4>1. Claim(v)
        BY <2>1, <3>1 DEF Worker, Begin, Admit, Prepare, Index, Requeue, Select,
              Announce, Publish, Complete, Raise, RecordFailure, Fenced
      <4> QED
        BY <4>1, InvParts DEF Claim, Go
    <3>2. CASE work[v].pc # "claim"
      BY <2>1, <3>2, WorkerWrites
    <3> QED
      BY <3>1, <3>2
  <2>3. HoldsFence(w)
    <3>1. work[w].pc # "claim"
      BY DEF Fenced
    <3> QED
      BY <2>1, <2>2, <3>1, WorkerWrites
  <2> QED
    BY <2>3 DEF JobInv, WorkOK
<1>2. JobInv /\ [Next]_vars => [A]_vars
  BY <1>1
<1> QED
  BY <1>2, JobInvariance, PTL DEF Spec, OldWorkerFenced

\* No job of a suspended member completes.
THEOREM MembersComplete == Spec => MemberCompletes
<1> DEFINE A == \A j \in Jobs \ Profiles :
                  job[j].state # "completed" /\ job'[j].state = "completed" => member
<1>1. JobInv /\ [Next]_vars => A
  <2> SUFFICES ASSUME JobInv, [Next]_vars, NEW j \in Jobs \ Profiles,
                      job[j].state # "completed", job'[j].state = "completed"
               PROVE  member
    OBVIOUS
  <2>1. PICK w \in Processes : Worker(w)
    BY AsideWrites
  <2>2. CASE work[w].pc # "claim"
    <3>1. Authorized(j)
      BY <2>1, <2>2, WorkerWrites
    <3> QED
      BY <3>1 DEF Authorized
  <2>3. CASE work[w].pc = "claim"
    <3>1. Claim(w)
      BY <2>1, <2>3 DEF Worker, Begin, Admit, Prepare, Index, Requeue, Select,
            Announce, Publish, Complete, Raise, RecordFailure, Fenced
    <3> QED
      BY <3>1, InvParts DEF Claim, Row
  <2> QED
    BY <2>2, <2>3
<1>2. JobInv /\ [Next]_vars => [A]_vars
  BY <1>1
<1> QED
  BY <1>2, JobInvariance, PTL DEF Spec, MemberCompletes

-----------------------------------------------------------------------------
(* The limit of the queue.                                                 *)

\* A step activates no job, or one where it saw room.
Roomy ==
  \/ ActiveIn(job') \subseteq ActiveIn(job)
  \/ \E t \in [Jobs -> Row], j \in Jobs :
       HasRoom(t) /\ ActiveIn(job') \subseteq ActiveIn(t) \cup {j}

\* Every way into the queue looks for room in its own transaction.
LEMMA StepsAreRoomy == JobInv /\ [Next]_vars => Roomy
<1> SUFFICES ASSUME JobInv, [Next]_vars PROVE Roomy
  OBVIOUS
<1>0. job \in [Jobs -> Row]
  BY InvParts
<1>1. ASSUME NEW w \in Processes, Worker(w) PROVE Roomy
  <2>1. CASE work[w].pc = "claim"
    <3>1. Claim(w)
      BY <1>1, <2>1 DEF Worker, Begin, Admit, Prepare, Index, Requeue, Select,
            Announce, Publish, Complete, Raise, RecordFailure, Fenced
    <3> QED
      BY <1>0, <3>1 DEF Claim, Roomy, ActiveIn, Active
  <2>2. CASE work[w].pc # "claim"
    BY <1>1, <2>2, WorkerWrites DEF Roomy, ActiveIn
  <2> QED
    BY <2>1, <2>2
<1>2. ASSUME NEW j \in Jobs, NEW t \in [Jobs -> Row], HasRoom(t),
             \A k \in Jobs \ {j} : job'[k] = t[k]
      PROVE  Roomy
  BY <1>2 DEF Roomy, ActiveIn
<1>3. CASE Request
  <2>1. ASSUME NEW j \in Jobs, Create(j) PROVE Roomy
    BY <1>0, <1>2, <2>1 DEF Create, Inserted
  <2>2. ASSUME NEW j \in Jobs, Cancel(j) PROVE Roomy
    BY <1>0, <2>2 DEF Cancel, Roomy, ActiveIn
  <2>3. ASSUME NEW j \in Jobs, Retry(j) PROVE Roomy
    BY <1>0, <1>2, <2>3 DEF Retry
  <2>4. ASSUME NEW j \in Jobs, SetArchived(j) PROVE Roomy
    <3>1. \A k \in Jobs : job'[k].state = job[k].state
      BY <1>0, <2>4 DEF SetArchived, Row
    <3> QED
      BY <3>1 DEF Roomy, ActiveIn
  <2> QED
    BY <1>3, <2>1, <2>2, <2>3, <2>4 DEF Request, MembershipChanges, Roomy, ActiveIn
<1>4. CASE \/ \E w \in Processes : Heartbeat(w) \/ Killed(w)
           \/ \E j \in Jobs : VerifyCommand(j) \/ BecomesStale(j)
  <2>1. ASSUME NEW j, NEW b, job' = [job EXCEPT ![j].stale = b] PROVE Roomy
    <3>1. \A k \in Jobs : job'[k].state = job[k].state
      BY <1>0, <2>1 DEF Row
    <3> QED
      BY <3>1 DEF Roomy, ActiveIn
  <2> QED
    BY <1>4, <2>1 DEF Heartbeat, Killed, VerifyCommand, BecomesStale, Roomy, ActiveIn
<1>5. CASE PendingJob
  <2>1. ActiveIn(Swept(job)) \subseteq ActiveIn(job)
    BY DEF ActiveIn, Swept, Active
  <2>2. ASSUME NEW p \in Profiles, HasRoom(Swept(job)),
               job' = Inserted(Swept(job), p)
        PROVE  Roomy
    <3>1. p \in Jobs /\ Swept(job) \in [Jobs -> Row]
      BY SweptRows DEF JobConstantsOK
    <3> QED
      BY <1>2, <2>2, <3>1 DEF Inserted
  <2> QED
    BY <1>5, <2>1, <2>2 DEF PendingJob, Roomy
<1>6. CASE ParentFailure
  <2>1. \A k \in Jobs : job'[k].state = job[k].state \/ job'[k].state \notin Active
    BY <1>0, <1>6 DEF ParentFailure, Fail, Active, Row
  <2> QED
    BY <2>1 DEF Roomy, ActiveIn
<1>7. CASE \/ NextAttempt \/ Defer \/ Spawn \/ ChildExits \/ EndChild \/ ThreadDies
           \/ Start \/ Stop \/ UNCHANGED vars
  BY <1>7 DEF NextAttempt, Defer, Spawn, ChildExits, EndChild, ThreadDies, Start,
              Stop, vars, Roomy, ActiveIn
<1> QED
  BY <1>1, <1>3, <1>4, <1>5, <1>6, <1>7 DEF Next, Supervise

\* Members, retries and the automatic profiles share one queue limit.
THEOREM QueueIsBounded == Spec => []QueueBounded
<1>1. Init => QueueBounded
  <2> SUFFICES ASSUME Init PROVE QueueBounded
    OBVIOUS
  <2>1. ActiveIn(job) = {}
    BY DEF Init, ActiveIn, NoRow, Active
  <2> QED
    BY <2>1, FS_EmptySet DEF QueueBounded, JobConstantsOK
<1>2. JobInv /\ QueueBounded /\ [Next]_vars => QueueBounded'
  <2> SUFFICES ASSUME JobInv, QueueBounded, Roomy PROVE QueueBounded'
    BY StepsAreRoomy
  <2>1. /\ IsFiniteSet(ActiveIn(job)) /\ IsFiniteSet(ActiveIn(job'))
        /\ \A t : IsFiniteSet(ActiveIn(t))
    BY FS_Subset DEF ActiveIn, JobConstantsOK
  <2>2. CASE ActiveIn(job') \subseteq ActiveIn(job)
    <3>1. Cardinality(ActiveIn(job')) =< Cardinality(ActiveIn(job))
      BY <2>1, <2>2, FS_Subset
    <3>2. /\ Cardinality(ActiveIn(job')) \in Nat /\ Cardinality(ActiveIn(job)) \in Nat
      BY <2>1, FS_CardinalityType
    <3> QED
      BY <3>1, <3>2 DEF QueueBounded, JobConstantsOK
  <2>3. ASSUME NEW t \in [Jobs -> Row], NEW j \in Jobs, HasRoom(t),
               ActiveIn(job') \subseteq ActiveIn(t) \cup {j}
        PROVE  QueueBounded'
    <3>1. /\ IsFiniteSet(ActiveIn(t) \cup {j})
          /\ Cardinality(ActiveIn(t) \cup {j}) =< Cardinality(ActiveIn(t)) + 1
          /\ Cardinality(ActiveIn(t)) \in Nat
      <4> DEFINE S == ActiveIn(t)
      <4>1. IsFiniteSet(S)
        BY <2>1
      <4> HIDE DEF S
      <4>2. /\ IsFiniteSet(S \cup {j}) /\ Cardinality(S) \in Nat
            /\ \/ Cardinality(S \cup {j}) = Cardinality(S)
               \/ Cardinality(S \cup {j}) = Cardinality(S) + 1
        BY <4>1, FS_AddElement, FS_CardinalityType
      <4> QED
        BY <4>2 DEF S
    <3>2. Cardinality(ActiveIn(job')) =< Cardinality(ActiveIn(t) \cup {j})
      BY <2>3, <3>1, FS_Subset
    <3>3. /\ Cardinality(ActiveIn(job')) \in Nat
          /\ Cardinality(ActiveIn(t) \cup {j}) \in Nat
      BY <2>1, <3>1, FS_CardinalityType
    <3> QED
      BY <2>3, <3>1, <3>2, <3>3 DEF HasRoom, QueueBounded, JobConstantsOK
  <2> QED
    BY <2>2, <2>3 DEF Roomy
<1> QED
  <2>1. QueueBounded /\ UNCHANGED vars => QueueBounded'
    BY DEF QueueBounded, ActiveIn, vars
  <2> QED
    BY <1>1, <1>2, <2>1, JobInvariance, PTL DEF Spec
=============================================================================
