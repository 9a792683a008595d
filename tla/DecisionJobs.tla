---------------------------- MODULE DecisionJobs ----------------------------
(***************************************************************************)
(* Decision dataset jobs of the Hub: the queue, the worker process with    *)
(* its heartbeat, checkpoints and fences, cancellation and publication.    *)
(*                                                                         *)
(* `job' is a row of decision_jobs with its rows of decision_job_execution *)
(* (attempt) and decision_job_visibility (archived); every transaction of  *)
(* spireagent/hub/decision_jobs.py is one step.  `sup' is the part of the  *)
(* verifier thread (hub/__main__.py) that serves these jobs, `work' are    *)
(* the processes in DecisionJobs.run: the thread's child, and one other,   *)
(* which outlived a killed service or is an operator's verify command.     *)
(*                                                                         *)
(* Abstractions.  A row is stale when it is 180 seconds without an update. *)
(* Selection, deduplication and curation are one step; what they read can  *)
(* make it raise.  A published manifest is known by its job.               *)
(***************************************************************************)
EXTENDS Integers, FiniteSets

CONSTANTS
  Jobs,
  Profiles,      \* the automatic jobs of the receiver, one per upload
  Publications,  \* confirmed previews and materializations: they store a
                 \* manifest, the others are previews
  QueueLimit,    \* active jobs (10)
  Batches,       \* preparation batches of a cold selection
  MaxRetries,    \* bound: retries per job
  MaxFaults,     \* bound: deaths of the service or its thread, verify commands
  NoJob

ASSUME JobConstantsOK ==
  /\ IsFiniteSet(Jobs)
  /\ NoJob \notin Jobs
  /\ Profiles \subseteq Jobs
  /\ Publications \subseteq Jobs \ Profiles
  /\ QueueLimit \in Nat
  /\ Batches \in [Jobs -> Nat]
  /\ MaxRetries \in Nat
  /\ MaxFaults \in Nat

VARIABLES
  job,
  cold,        \* batches of the selection that are not in the index
  member,      \* the owner's membership is active
  published,   \* jobs whose dataset manifest is in the store
  sup,
  work,
  faults

vars == <<job, cold, member, published, sup, work, faults>>

-----------------------------------------------------------------------------
Active  == {"pending", "running"}
Settled == {"completed", "failed", "cancelled"}

Row == [state    : {"absent"} \cup Active \cup Settled,
        attempt  : Nat,              \* 0: no row in decision_job_execution
        phase    : {"none", "working", "publishing", "completed"},
        stale    : BOOLEAN,
        rowid    : Nat,
        archived : BOOLEAN,
        cycle    : Nat,              \* history: explicit retries
        by       : Nat]              \* history: attempt that completed it

Processes == {"child", "other"}
Fenced == {"begin", "admit", "prepare", "index", "requeue", "select",
           "announce", "publish", "complete", "fail"}
Process == [pc      : {"none", "claim", "exited", "killed"} \cup Fenced,
            job     : Jobs \cup {NoJob},
            attempt : Nat,
            cycle   : Nat]           \* history: cycle of the claim

Supervisor == [pc      : {"down", "dead", "idle", "chosen", "counted", "running",
                          "failing"},
               job     : Jobs \cup {NoJob},
               attempt : Nat]

NoRow   == [state |-> "absent", attempt |-> 0, phase |-> "none", stale |-> FALSE,
            rowid |-> 0, archived |-> FALSE, cycle |-> 0, by |-> 0]
NoProc  == [pc |-> "none", job |-> NoJob, attempt |-> 0, cycle |-> 0]
NewProc(j) == [pc |-> "claim", job |-> j, attempt |-> 0, cycle |-> 0]
SupAt(p, j, a) == [pc |-> p, job |-> j, attempt |-> a]

Init ==
  /\ job = [j \in Jobs |-> NoRow]
  /\ cold = Batches
  /\ member = TRUE
  /\ published = {}
  /\ sup = SupAt("down", NoJob, 0)
  /\ work = [w \in Processes |-> NoProc]
  /\ faults = 0

-----------------------------------------------------------------------------
(* Requests of members.                                                    *)

backend == <<cold, published, sup, work, faults>>

ActiveIn(t) == {j \in Jobs : t[j].state \in Active}
\* Bug_... operators are wrong variants of the definition that follows them.
\* No specification uses them; they show that a property notices the bug.
HasRoom(t) == Cardinality(ActiveIn(t)) < QueueLimit
Inserted(t, j) ==
  [t EXCEPT ![j] = [NoRow EXCEPT !.state = "pending",
      !.rowid = Cardinality({k \in Jobs : t[k].state # "absent"}) + 1]]

Create(j) ==
  /\ member
  /\ j \notin Profiles /\ job[j].state = "absent"
  /\ HasRoom(job)
  /\ job' = Inserted(job, j)
  /\ UNCHANGED <<member, backend>>

Bug_Cancelled(r) == [r EXCEPT !.state = "canceled", !.stale = FALSE]

Cancelled(r) == [r EXCEPT !.state = "cancelled", !.stale = FALSE,
                          !.attempt = IF @ = 0 THEN 0 ELSE @ + 1]

Publishing(r) == r.state = "running" /\ r.phase = "publishing"

\* An administrator may cancel and retry the jobs of others.
Cancel(j) ==
  /\ job[j].state \in Active
  /\ ~Publishing(job[j])
  /\ job' = [job EXCEPT ![j] = Cancelled(@)]
  /\ UNCHANGED <<member, backend>>

Retry(j) ==
  /\ job[j].state \in {"failed", "cancelled"}
  /\ HasRoom(job)
  /\ job[j].cycle < MaxRetries
  /\ job' = [job EXCEPT ![j].state = "pending", ![j].stale = FALSE,
                        ![j].cycle = @ + 1]
  /\ UNCHANGED <<member, backend>>

SetArchived(j) ==
  /\ member
  /\ j \notin Profiles
  /\ job[j].state \in Settled
  /\ job' = [job EXCEPT ![j].archived = ~@]
  /\ UNCHANGED <<member, backend>>

\* The owner's membership is suspended and restored elsewhere (hub/membership.py).
MembershipChanges ==
  /\ member' = ~member
  /\ UNCHANGED <<job, backend>>

Request == \/ \E j \in Jobs : Create(j) \/ Cancel(j) \/ Retry(j) \/ SetArchived(j)
           \/ MembershipChanges

-----------------------------------------------------------------------------
(* DecisionJobs.run.                                                       *)

Go(w, pc) == work' = [work EXCEPT ![w].pc = pc]

\* The condition of every update of a worker.
Bug_Holds(j, a) == job[j].state = "running"
Bug_HoldsAnyState(j, a) == job[j].attempt = a

Holds(j, a) == job[j].state = "running" /\ job[j].attempt = a
HoldsFence(w) == Holds(work[w].job, work[w].attempt)

Bug_Claim(w) ==
  LET j == work[w].job
  IN  /\ work[w].pc = "claim"
      /\ IF job[j].state = "pending"
         THEN /\ job' = [job EXCEPT ![j].state = "running", ![j].stale = FALSE,
                                    ![j].attempt = 1]
              /\ work' = [work EXCEPT ![w].pc = "begin", ![w].attempt = 1,
                                      ![w].cycle = job[j].cycle]
         ELSE Go(w, "exited") /\ UNCHANGED job
      /\ UNCHANGED <<cold, member, published, sup, faults>>

Claim(w) ==
  LET j == work[w].job
  IN  /\ work[w].pc = "claim"
      /\ IF job[j].state = "pending"
         THEN /\ job' = [job EXCEPT ![j].state = "running", ![j].stale = FALSE,
                                    ![j].attempt = @ + 1]
              /\ work' = [work EXCEPT ![w].pc = "begin",
                                      ![w].attempt = job[j].attempt + 1,
                                      ![w].cycle = job[j].cycle]
         ELSE Go(w, "exited") /\ UNCHANGED job
      /\ UNCHANGED <<cold, member, published, sup, faults>>

\* progress() raises when the attempt was cancelled or superseded.
Progress(w, phase, next) ==
  IF HoldsFence(w)
  THEN /\ job' = [job EXCEPT ![work[w].job].phase = phase,
                             ![work[w].job].stale = FALSE]
       /\ Go(w, next)
  ELSE Go(w, "fail") /\ UNCHANGED job

Begin(w) ==
  /\ work[w].pc = "begin"
  /\ Progress(w, "working", "admit")
  /\ UNCHANGED <<cold, member, published, sup, faults>>

Authorized(j) == j \in Profiles \/ member

Admit(w) ==
  /\ work[w].pc = "admit"
  /\ Go(w, IF Authorized(work[w].job) THEN "prepare" ELSE "fail")
  /\ UNCHANGED <<job, cold, member, published, sup, faults>>

Prepare(w) ==
  /\ work[w].pc = "prepare"
  /\ IF cold[work[w].job] > 0 THEN Progress(w, "working", "index")
     ELSE Go(w, "select") /\ UNCHANGED job
  /\ UNCHANGED <<cold, member, published, sup, faults>>

\* The index outlives the attempt that built it.
Index(w) ==
  /\ work[w].pc = "index"
  /\ cold' = [cold EXCEPT ![work[w].job] = IF @ > 0 THEN @ - 1 ELSE 0]
  /\ Progress(w, "working", "requeue")
  /\ UNCHANGED <<member, published, sup, faults>>

Requeue(w) ==
  LET j == work[w].job
  IN  /\ work[w].pc = "requeue"
      /\ job' = IF HoldsFence(w)
                THEN [job EXCEPT ![j].state = "pending", ![j].stale = FALSE]
                ELSE job
      /\ Go(w, "exited")
      /\ UNCHANGED <<cold, member, published, sup, faults>>

Select(w) ==
  /\ work[w].pc = "select"
  /\ Progress(w, "working", IF work[w].job \in Publications THEN "announce"
                                                            ELSE "complete")
  /\ UNCHANGED <<cold, member, published, sup, faults>>

Announce(w) ==
  /\ work[w].pc = "announce"
  /\ Progress(w, "publishing", "publish")
  /\ UNCHANGED <<cold, member, published, sup, faults>>

Publish(w) ==
  /\ work[w].pc = "publish"
  /\ published' = published \cup {work[w].job}
  /\ Go(w, "complete")
  /\ UNCHANGED <<job, cold, member, sup, faults>>

Bug_Complete(w) ==
  LET j == work[w].job
  IN  /\ work[w].pc = "complete"
      /\ job' = IF HoldsFence(w)
                THEN [job EXCEPT ![j].state = "completed",
                        ![j].phase = "completed", ![j].stale = FALSE,
                        ![j].by = work[w].attempt]
                ELSE job
      /\ Go(w, "exited")
      /\ UNCHANGED <<cold, member, published, sup, faults>>

\* Membership is read in the transaction; a lost fence changes nothing.
Complete(w) ==
  LET j == work[w].job
  IN  /\ work[w].pc = "complete"
      /\ IF Authorized(j)
         THEN /\ job' = IF HoldsFence(w)
                        THEN [job EXCEPT ![j].state = "completed",
                                ![j].phase = "completed", ![j].stale = FALSE,
                                ![j].by = work[w].attempt]
                        ELSE job
              /\ Go(w, "exited")
         ELSE Go(w, "fail") /\ UNCHANGED job
      /\ UNCHANGED <<cold, member, published, sup, faults>>

\* A source, an annotation, sharing or the store changed or failed.
Raise(w) ==
  /\ work[w].pc \in Fenced \ {"fail"}
  /\ Go(w, "fail")
  /\ UNCHANGED <<job, cold, member, published, sup, faults>>

Bug_Fail(j, a) == Holds(j, a)

\* The condition of fail(), called by the worker and by its supervisor.
MayFail(j, a) ==
  \/ job[j].state \in Active /\ job[j].attempt = a
  \/ job[j].state = "pending" /\ job[j].attempt = a - 1

Fail(j, a) ==
  job' = IF MayFail(j, a)
         THEN [job EXCEPT ![j].state = "failed", ![j].stale = FALSE] ELSE job

RecordFailure(w) ==
  /\ work[w].pc = "fail"
  /\ Fail(work[w].job, work[w].attempt)
  /\ Go(w, "exited")
  /\ UNCHANGED <<cold, member, published, sup, faults>>

\* The heartbeat thread of a worker that is not stalled.
Heartbeat(w) ==
  /\ work[w].pc \in Fenced
  /\ HoldsFence(w) /\ job[work[w].job].stale
  /\ job' = [job EXCEPT ![work[w].job].stale = FALSE]
  /\ UNCHANGED <<cold, member, published, sup, work, faults>>

Alive(w) == work[w].pc \in Fenced \cup {"claim"}

\* Out of memory, over a limit, or an exception that run does not catch.
Killed(w) ==
  /\ Alive(w)
  /\ Go(w, "killed")
  /\ UNCHANGED <<job, cold, member, published, sup, faults>>

Worker(w) == \/ Claim(w) \/ Begin(w) \/ Admit(w) \/ Prepare(w) \/ Index(w)
             \/ Requeue(w) \/ Select(w) \/ Announce(w) \/ Publish(w) \/ Complete(w)
             \/ Raise(w) \/ RecordFailure(w)

\* `verify --decision-job' typed by an operator.
VerifyCommand(j) ==
  /\ job[j].state # "absent"
  /\ ~Alive("other")
  /\ faults < MaxFaults
  /\ faults' = faults + 1
  /\ work' = [work EXCEPT !["other"] = NewProc(j)]
  /\ UNCHANGED <<job, cold, member, published, sup>>

-----------------------------------------------------------------------------
(* The verifier thread.                                                    *)

\* A worker that died is neither successful nor retried.
Swept(t) ==
  [j \in Jobs |-> IF t[j].state = "running" /\ t[j].stale
                  THEN [t[j] EXCEPT !.state = "failed"] ELSE t[j]]

\* Jobs of members come first.
Before(t, i, j) ==
  \/ i \notin Profiles /\ j \in Profiles
  \/ (i \in Profiles <=> j \in Profiles) /\ t[i].rowid =< t[j].rowid

Head(t) == {j \in Jobs : /\ t[j].state = "pending"
                         /\ \A k \in Jobs : t[k].state = "pending" => Before(t, j, k)}

\* pending(): sweep, at most one new profile, and the choice.
PendingJob ==
  LET swept == Swept(job)
      new == {p \in Profiles : swept[p].state = "absent" /\ HasRoom(swept)}
  IN  /\ sup.pc = "idle"
      /\ \/ job' = swept
         \/ \E p \in new : job' = Inserted(swept, p)
      /\ \/ \E j \in Head(job') : sup' = SupAt("chosen", j, 0)
         \/ Head(job') = {} /\ UNCHANGED sup
      /\ UNCHANGED <<cold, member, published, work, faults>>

NextAttempt ==
  /\ sup.pc = "chosen"
  /\ sup' = SupAt("counted", sup.job, job[sup.job].attempt + 1)
  /\ UNCHANGED <<job, cold, member, published, work, faults>>

\* external: no room on the scratch filesystem.
Defer ==
  /\ sup.pc = "counted"
  /\ sup' = SupAt("idle", NoJob, 0)
  /\ UNCHANGED <<job, cold, member, published, work, faults>>

\* A worker that cannot be started is a child that timed out before it ran.
Spawn ==
  /\ sup.pc = "counted"
  /\ work' = [work EXCEPT !["child"] = NewProc(sup.job)]
  /\ sup' = [sup EXCEPT !.pc = "running"]
  /\ UNCHANGED <<job, cold, member, published, faults>>

ChildExits ==
  /\ sup.pc = "running"
  /\ work["child"].pc \in {"exited", "killed"}
  /\ sup' = IF work["child"].pc = "exited" THEN SupAt("idle", NoJob, 0)
            ELSE [sup EXCEPT !.pc = "failing"]
  /\ work' = [work EXCEPT !["child"] = NoProc]
  /\ UNCHANGED <<job, cold, member, published, faults>>

\* should_stop, or the wall clock limit, ends the child wherever it is: as the
\* limit may pass at any time, so may this.
EndChild ==
  /\ sup.pc = "running"
  /\ work' = [work EXCEPT !["child"] = NoProc]
  /\ sup' = [sup EXCEPT !.pc = "failing"]
  /\ UNCHANGED <<job, cold, member, published, faults>>

ParentFailure ==
  /\ sup.pc = "failing"
  /\ Fail(sup.job, sup.attempt)
  /\ sup' = SupAt("idle", NoJob, 0)
  /\ UNCHANGED <<cold, member, published, work, faults>>

\* Nothing in the thread catches an exception of these calls.
ThreadDies ==
  /\ sup.pc \in {"idle", "chosen", "counted", "failing"}
  /\ faults < MaxFaults
  /\ faults' = faults + 1
  /\ sup' = SupAt("dead", NoJob, 0)
  /\ UNCHANGED <<job, cold, member, published, work>>

Start ==
  /\ sup.pc = "down"
  /\ sup' = SupAt("idle", NoJob, 0)
  /\ UNCHANGED <<job, cold, member, published, work, faults>>

\* A shutdown ends the child; a killed service leaves it behind.
Stop ==
  /\ sup.pc # "down"
  /\ faults < MaxFaults
  /\ faults' = faults + 1
  /\ sup' = SupAt("down", NoJob, 0)
  /\ \/ work' = [work EXCEPT !["child"] = NoProc]
     \/ /\ Alive("child") /\ ~Alive("other")
        /\ work' = [work EXCEPT !["child"] = NoProc, !["other"] = work["child"]]
  /\ UNCHANGED <<job, cold, member, published>>

Supervise == \/ PendingJob \/ NextAttempt \/ Defer \/ Spawn \/ ChildExits
             \/ EndChild \/ ParentFailure

-----------------------------------------------------------------------------
\* 180 seconds pass without an update of the row.
BecomesStale(j) ==
  /\ job[j].state = "running" /\ ~job[j].stale
  /\ job' = [job EXCEPT ![j].stale = TRUE]
  /\ UNCHANGED <<cold, member, published, sup, work, faults>>

Next == \/ Request
        \/ \E w \in Processes : Worker(w) \/ Heartbeat(w) \/ Killed(w)
        \/ \E j \in Jobs : VerifyCommand(j) \/ BecomesStale(j)
        \/ Supervise \/ ThreadDies \/ Start \/ Stop

Spec == Init /\ [][Next]_vars

\* The service and its workers run, a dead service is restarted, time passes,
\* and a job that is chosen again and again finds scratch space.
Running == /\ WF_vars(Supervise)
           /\ SF_vars(Spawn)
           /\ WF_vars(Start)
           /\ \A w \in Processes : WF_vars(Worker(w))
           /\ \A j \in Jobs : WF_vars(BecomesStale(j))

FairSpec == Spec /\ Running

-----------------------------------------------------------------------------
(* Properties.                                                             *)

\* Rows, processes and the supervisor stay in their domains.
TypeOK ==
  /\ job \in [Jobs -> Row]
  /\ cold \in [Jobs -> Nat]
  /\ member \in BOOLEAN
  /\ published \subseteq Jobs
  /\ sup \in Supervisor
  /\ work \in [Processes -> Process]
  /\ faults \in Nat

\* No two workers hold one attempt of a job, and none is ahead of its row.
AttemptsDistinct ==
  \A w \in Processes : work[w].pc \in Fenced =>
    /\ work[w].attempt \in 1..job[work[w].job].attempt
    /\ \A v \in Processes \ {w} :
         work[v].pc \in Fenced /\ work[v].job = work[w].job
           => work[v].attempt # work[w].attempt

\* A completed job was completed by its last attempt, and a completed
\* publication has its manifest in the store.
CompletedByLast ==
  \A j \in Jobs : job[j].state = "completed" =>
    /\ job[j].by = job[j].attempt /\ job[j].by > 0
    /\ j \in Publications => j \in published

\* Members, retries and the automatic profiles share one queue limit.
QueueBounded == Cardinality(ActiveIn(job)) =< QueueLimit

Moves(w) == work[w].pc \in Fenced /\ work'[w] # work[w]

\* A settled job changes only by an explicit retry, a completed one never:
\* whatever a stalled, cancelled or orphaned worker still does.
SettledStays ==
  [][\A j \in Jobs : job[j].state \in Settled =>
       \/ job'[j].state = job[j].state /\ job'[j].phase = job[j].phase
       \/ /\ job[j].state # "completed" /\ job'[j].state = "pending"
          /\ job'[j].cycle = job[j].cycle + 1]_vars

\* A worker of an earlier retry cycle writes neither progress nor a result
\* nor a checkpoint; its failure is OldWorkerHarmless.
OldWorkerFenced ==
  [][\A w \in Processes :
       Moves(w) /\ work[w].pc # "fail" /\ job' # job
         => work[w].cycle = job[work[w].job].cycle]_vars

\* No job of a suspended member completes.
MemberCompletes ==
  [][\A j \in Jobs \ Profiles :
       job[j].state # "completed" /\ job'[j].state = "completed" => member]_vars

\* An active job is settled, or checkpointed and continued until it is,
\* while the verifier thread lives.
ActiveEnds ==
  \A j \in Jobs : job[j].state \in Active
                  ~> job[j].state \notin Active \/ sup.pc = "dead"

\* Attempt fences prevent an old worker from changing a later attempt.
OldWorkerHarmless ==
  [][\A w \in Processes :
       Moves(w) /\ job' # job => work[w].cycle = job[work[w].job].cycle]_vars

-----------------------------------------------------------------------------
(* The inductive invariant behind the safety properties.                   *)

\* A job without a row has no attempt.  Workers and the supervisor work on
\* existing names, a worker completes a publication after it stored it, and
\* one that holds the fence is of the current retry cycle.
WorkOK ==
  /\ \A j \in Jobs : job[j].state = "absent" => job[j].attempt = 0
  /\ \A w \in Processes :
       /\ work[w].pc # "none" => work[w].job \in Jobs
       /\ work[w].pc = "complete" /\ work[w].job \in Publications
            => work[w].job \in published
       /\ work[w].pc \in Fenced /\ HoldsFence(w)
            => work[w].cycle = job[work[w].job].cycle
  /\ sup.pc \in {"chosen", "counted", "running", "failing"} => sup.job \in Jobs

\* The parts together are preserved by every step.
JobInv == TypeOK /\ AttemptsDistinct /\ CompletedByLast /\ WorkOK
=============================================================================
