----------------------------- MODULE HubCompute -----------------------------
(***************************************************************************)
(* The Hub's compute ledger and its scheduler.                             *)
(*                                                                         *)
(* `job' and `att' are the SQLite tables jobs and compute_attempts         *)
(* (spireagent/hub/database.py); every database method is one transaction  *)
(* and therefore one atomic step.  `sch' is the control state of the one   *)
(* Scheduler (spireagent/hub/scheduler.py) that holds the OS lock, inside  *)
(* one call of tick: every transaction and every provider call of a tick   *)
(* is a step of its own, so operators, the clock, the provider and crashes *)
(* interleave with all of them.  `call' is the external provider (Modal):  *)
(* what really happened to the invocation of a job.                        *)
(*                                                                         *)
(* Abstractions.  claim draws a random attempt_id with each fence value,   *)
(* so (attempt_id, fence) is represented by the fence.  Tokens are fresh   *)
(* numbers and 0 is SQL NULL.  last_error and the event log are            *)
(* diagnostics that no decision reads and are left out.                    *)
(***************************************************************************)
EXTENDS Integers, FiniteSets, FiniteSetsExt

CONSTANTS
  Jobs,           \* one job id per request key
  Targets,        \* deployable provider targets (target_id)
  Units,          \* Units[j]: reserved_units of the request for j
  Budget,         \* budget_limit of the scheduler, 0 = launch disabled
  EnqueueLimits,  \* budget_limit values enqueue may be called with
  LeaseSeconds,   \* lease_seconds of claim and heartbeat
  MaxSeconds,     \* max_seconds of a job
  MaxTime,        \* bound: the wall clock stops here
  MaxFaults,      \* bound: crashes plus ticks ended by an exception
  NoJob

ASSUME ConstantsOK ==
  /\ IsFiniteSet(Jobs)
  /\ NoJob \notin Jobs
  /\ Units \in [Jobs -> Nat \ {0}]
  /\ Budget \in Nat
  /\ EnqueueLimits \subseteq Nat \ {0}
  /\ LeaseSeconds \in Nat \ {0}
  /\ MaxSeconds \in Nat \ {0}
  /\ MaxTime \in Nat
  /\ MaxFaults \in Nat

VARIABLES
  job,      \* table jobs
  att,      \* table compute_attempts
  paused,   \* settings.paused
  sch,      \* where the current tick is, with its locals
  mem,      \* Scheduler._tokens: the lease tokens this process holds
  target,   \* provider.target of the running configuration
  clock,    \* wall clock
  tokens,   \* tokens drawn so far
  faults,   \* faults injected so far
  call,     \* external: the provider's invocation for a job
  spawns,   \* external: how often the provider was asked to spawn it
  cancels   \* external: how often the provider was asked to cancel it

table == <<job, att, paused>>
env   == <<clock, faults>>
ext   == <<call, spawns, cancels>>
vars  == <<job, att, paused, sch, mem, target, clock, tokens, faults,
           call, spawns, cancels>>

-----------------------------------------------------------------------------
Active   == {"running", "uncertain", "submission_unknown", "cancelling"}
Settled  == {"completed", "paused", "failed", "cancelled"}
Statuses == {"absent", "queued"} \cup Active \cup Settled
Receipts == {"completed", "paused"}     \* ComputeReceipt.state

Row == [status   : Statuses,
        fence    : Nat,
        lease    : Nat,                 \* lease_hash, 0 = NULL
        until    : Nat,                 \* lease_until
        deadline : Nat,
        ref      : BOOLEAN,             \* provider_ref IS NOT NULL
        rowid    : Nat,
        result   : {"none", "preflight", "cancelled"} \cup Receipts]

Attempt == [phase   : {"none", "submitting", "submitted", "cancelled"}
                        \cup Receipts,  \* "none": no row
            fence   : Nat,
            target  : Targets \cup {NoJob},
            handle  : BOOLEAN,
            cancel  : {"none", "requested", "acknowledged", "unknown"},
            receipt : {"none"} \cup Receipts]

Calls == {"none", "live", "dead"} \cup Receipts

PCs == {"down", "idle", "expire", "read", "claim", "preflight", "reject",
        "prepare", "submit", "bind", "token", "state", "cancel", "begin",
        "stop", "record", "poll", "accept", "heartbeat", "uncertain"}

\* The locals of tick, _submit, _poll and _cancel.  job, status, fence,
\* deadline and ref are the row that tick read or claim returned.
Locals == [pc       : PCs,
           now      : Nat,
           job      : Jobs \cup {NoJob},
           status   : Statuses,
           fence    : Nat,
           deadline : Nat,
           ref      : BOOLEAN,
           after    : {"idle", "poll", "uncertain"},  \* where _cancel returns
           ack      : BOOLEAN,                        \* provider.cancel returned
           receipt  : {"none"} \cup Receipts]

EmptyRow == [status |-> "absent", fence |-> 0, lease |-> 0, until |-> 0,
             deadline |-> 0, ref |-> FALSE, rowid |-> 0, result |-> "none"]

NoAttempt == [phase |-> "none", fence |-> 0, target |-> NoJob,
              handle |-> FALSE, cancel |-> "none", receipt |-> "none"]

At(p) == [pc |-> p, now |-> 0, job |-> NoJob, status |-> "absent", fence |-> 0,
          deadline |-> 0, ref |-> FALSE, after |-> "idle", ack |-> FALSE,
          receipt |-> "none"]

Init ==
  /\ job = [j \in Jobs |-> EmptyRow]
  /\ att = [j \in Jobs |-> NoAttempt]
  /\ paused = FALSE
  /\ sch = At("down")
  /\ mem = [j \in Jobs |-> 0]
  /\ target \in Targets
  /\ clock = 0
  /\ tokens = 0
  /\ faults = 0
  /\ call = [j \in Jobs |-> "none"]
  /\ spawns = [j \in Jobs |-> 0]
  /\ cancels = [j \in Jobs |-> 0]

-----------------------------------------------------------------------------
(* Operators: HTTP and command-line requests, at any moment.               *)

Enqueued    == {j \in Jobs : job[j].status # "absent"}
\* Bug_... operators are wrong variants of the definition that follows them.
\* No specification uses them; they show that a property notices the bug.
Bug_ActiveJobs == {j \in Jobs : job[j].status \in Active \ {"uncertain"}}

ActiveJobs  == {j \in Jobs : job[j].status \in Active}
QueuedJobs  == {j \in Jobs : job[j].status = "queued"}
Reserved(S) == MapThenSumSet(LAMBDA j : Units[j], S)

\* A repeated request key returns the old job and changes nothing.
Enqueue(j) ==
  /\ job[j].status = "absent"
  /\ \E limit \in EnqueueLimits : Reserved(Enqueued) + Units[j] =< limit
  /\ job' = [job EXCEPT ![j].status = "queued",
                        ![j].rowid = Cardinality(Enqueued) + 1]
  /\ UNCHANGED <<att, paused, sch, mem, target, tokens, env, ext>>

CancelStatus(s) == CASE s = "queued"   -> "cancelled"
                     [] s \in Settled  -> s
                     [] OTHER          -> "cancelling"

Cancel(j) ==
  /\ job[j].status # "absent"
  /\ job' = [job EXCEPT ![j].status = CancelStatus(@)]
  /\ UNCHANGED <<att, paused, sch, mem, target, tokens, env, ext>>

Bug_StopEvidence(j) == TRUE

\* external: the operator's evidence is true when it is recorded.
StopEvidence(j) == call[j] # "live"

Bug_Requeue(j) ==
  /\ job[j].status \in {"uncertain", "submission_unknown", "cancelling"}
  /\ StopEvidence(j)
  /\ job' = [job EXCEPT ![j].status = "queued", ![j].lease = 0]
  /\ UNCHANGED <<att, paused, sch, mem, target, tokens, env, ext>>

ReconcileStopped(j) ==
  /\ job[j].status \in {"uncertain", "submission_unknown", "cancelling"}
  /\ StopEvidence(j)
  /\ job' = [job EXCEPT ![j].status = IF @ = "cancelling" THEN "cancelled"
                                                          ELSE "failed",
                        ![j].lease = 0]
  /\ UNCHANGED <<att, paused, sch, mem, target, tokens, env, ext>>

Pause(value) ==
  /\ value \/ ActiveJobs = {}
  /\ paused' = value
  /\ UNCHANGED <<job, att, sch, mem, target, tokens, env, ext>>

Operator ==
  \/ \E j \in Jobs : Enqueue(j) \/ Cancel(j) \/ ReconcileStopped(j)
  \/ \E value \in BOOLEAN : Pause(value)

-----------------------------------------------------------------------------
(* What a transaction demands of the caller's token and fence.             *)

J        == sch.job
Goto(p)  == sch' = [sch EXCEPT !.pc = p]
EndTick  == sch' = At("idle")          \* the tick returned or raised
Least(a, b) == IF a =< b THEN a ELSE b

HoldsToken == mem[J] # 0 /\ job[J].lease = mem[J]

\* _live
Live == /\ job[J].status = "running"
        /\ job[J].until > sch.now
        /\ HoldsToken

\* _compute_fenced
Fenced == job[J].fence = sch.fence /\ HoldsToken

-----------------------------------------------------------------------------
(* One tick: the pause check, lease expiry, the read of all jobs.          *)

Tick ==
  /\ sch.pc = "idle"
  /\ sch' = IF paused THEN sch ELSE [At("expire") EXCEPT !.now = clock]
  /\ UNCHANGED <<table, mem, target, tokens, env, ext>>

Expire ==
  /\ sch.pc = "expire"
  /\ job' = [j \in Jobs |->
               IF job[j].status = "running" /\ job[j].until =< sch.now
               THEN [job[j] EXCEPT !.status = "uncertain"]
               ELSE job[j]]
  /\ Goto("read")
  /\ UNCHANGED <<att, paused, mem, target, tokens, env, ext>>

\* What the row of a job leaves in the tick's locals.
ReadRow(r, j, p) ==
  [sch EXCEPT !.pc = p, !.job = j, !.status = r.status, !.fence = r.fence,
              !.deadline = r.deadline, !.ref = r.ref]

ReadJobs ==
  /\ sch.pc = "read"
  /\ mem' = [j \in Jobs |-> IF j \in ActiveJobs THEN mem[j] ELSE 0]
  /\ \/ \E j \in ActiveJobs :
          /\ ActiveJobs = {j}
          /\ sch' = ReadRow(job[j], j, "token")
     \/ /\ ActiveJobs = {}
        /\ sch' = IF Budget = 0 \/ Reserved(Enqueued) > Budget
                  THEN At("idle")
                  ELSE [sch EXCEPT !.pc = "claim"]
     \/ /\ \E i, j \in ActiveJobs : i # j
        /\ EndTick
  /\ UNCHANGED <<table, target, tokens, env, ext>>

-----------------------------------------------------------------------------
(* _submit: claim, preflight, durable intent, one provider call, handle.   *)

ClaimRow(r) ==
  [r EXCEPT !.status = "running", !.fence = @ + 1, !.lease = tokens + 1,
            !.until = Least(sch.now + LeaseSeconds, sch.now + MaxSeconds),
            !.deadline = sch.now + MaxSeconds, !.ref = FALSE]

Claim ==
  /\ sch.pc = "claim"
  /\ IF paused \/ ActiveJobs # {} \/ QueuedJobs = {}
     THEN /\ EndTick
          /\ UNCHANGED <<job, mem, tokens>>
     ELSE \E j \in QueuedJobs :
            /\ \A k \in QueuedJobs : job[j].rowid =< job[k].rowid
            /\ job' = [job EXCEPT ![j] = ClaimRow(@)]
            /\ mem' = [mem EXCEPT ![j] = tokens + 1]
            /\ tokens' = tokens + 1
            /\ sch' = ReadRow(ClaimRow(job[j]), j, "preflight")
  /\ UNCHANGED <<att, paused, target, env, ext>>

Preflight ==
  /\ sch.pc = "preflight"
  /\ \/ Goto("prepare")
     \/ Goto("reject")
  /\ UNCHANGED <<table, mem, target, tokens, env, ext>>

FailBeforeCompute ==
  /\ sch.pc = "reject"
  /\ job' = IF Live /\ ~job[J].ref /\ att[J].phase = "none"
            THEN [job EXCEPT ![J].status = "failed", ![J].result = "preflight"]
            ELSE job
  /\ EndTick
  /\ UNCHANGED <<att, paused, mem, target, tokens, env, ext>>

\* An existing row is never a permission to submit again.
PrepareCompute ==
  /\ sch.pc = "prepare"
  /\ IF Live /\ att[J].phase = "none"
     THEN /\ att' = [att EXCEPT ![J] = [NoAttempt EXCEPT !.phase = "submitting",
                                                         !.fence = job[J].fence,
                                                         !.target = target]]
          /\ Goto("submit")
     ELSE /\ EndTick
          /\ UNCHANGED att
  /\ UNCHANGED <<job, paused, mem, target, tokens, env, ext>>

\* provider.submit: the response may be lost, and so may the request.
Spawned == /\ call' = [call EXCEPT ![J] = "live"]
           /\ spawns' = [spawns EXCEPT ![J] = @ + 1]
           /\ UNCHANGED cancels

Bug_SubmitAgain ==
  /\ sch.pc = "submit"
  /\ Spawned
  /\ Goto("bind") \/ Goto("submit")
  /\ UNCHANGED <<table, mem, target, tokens, env>>

Submit ==
  /\ sch.pc = "submit"
  /\ \/ Spawned /\ Goto("bind")
     \/ Spawned /\ Goto("uncertain")
     \/ UNCHANGED ext /\ Goto("uncertain")
  /\ UNCHANGED <<table, mem, target, tokens, env>>

BindComputeHandle ==
  /\ sch.pc = "bind"
  /\ IF Fenced /\ job[J].status \in Active /\ att[J].phase # "none"
     THEN /\ att' = [att EXCEPT ![J].handle = TRUE, ![J].phase = "submitted"]
          /\ job' = [job EXCEPT ![J].ref = TRUE]
     ELSE UNCHANGED <<job, att>>
  /\ EndTick
  /\ UNCHANGED <<paused, mem, target, tokens, env, ext>>

\* The end of every path that does not know what the provider did.
ComputeUncertain ==
  /\ sch.pc = "uncertain"
  /\ job' = IF Fenced /\ job[J].status \in Active
            THEN [job EXCEPT ![J].status =
                    IF @ = "cancelling" THEN "cancelling"
                    ELSE IF att[J].handle THEN "uncertain"
                    ELSE "submission_unknown"]
            ELSE job
  /\ EndTick
  /\ UNCHANGED <<att, paused, mem, target, tokens, env, ext>>

-----------------------------------------------------------------------------
(* _poll: the token, the saved attempt, cancellation, the result.          *)

Cancelling      == sch.status = "cancelling"
DeadlineElapsed == sch.now >= sch.deadline

\* _token: a process without the token takes the attempt over.
RecoverCompute ==
  /\ sch.pc = "token"
  /\ IF mem[J] # 0
     THEN Goto("state") /\ UNCHANGED <<job, mem, tokens>>
     ELSE IF job[J].status \in Active /\ job[J].fence = sch.fence
     THEN /\ job' = [job EXCEPT
                       ![J].lease = tokens + 1,
                       ![J].status = IF @ = "running" /\ job[J].until =< sch.now
                                     THEN "uncertain" ELSE @]
          /\ mem' = [mem EXCEPT ![J] = tokens + 1]
          /\ tokens' = tokens + 1
          /\ Goto("state")
     ELSE EndTick /\ UNCHANGED <<job, mem, tokens>>
  /\ UNCHANGED <<att, paused, target, env, ext>>

\* compute_state and the comparison of the saved handle.
ReadAttempt ==
  /\ sch.pc = "state"
  /\ sch' = IF ~att[J].handle \/ att[J].target # target
               \/ att[J].fence # sch.fence \/ ~sch.ref
            THEN [sch EXCEPT !.pc = "uncertain"]
            ELSE IF Cancelling
            THEN [sch EXCEPT !.pc = "begin", !.after = "poll"]
            ELSE [sch EXCEPT !.pc = "poll"]
  /\ UNCHANGED <<table, mem, target, tokens, env, ext>>

\* _cancel, for a job whose deadline elapsed: the scheduler cancels it.
CancelElapsed ==
  /\ sch.pc = "cancel"
  /\ job' = [job EXCEPT ![J].status = CancelStatus(@)]
  /\ Goto("begin")
  /\ UNCHANGED <<att, paused, mem, target, tokens, env, ext>>

ReturnFromCancel ==
  sch' = IF sch.after = "idle" THEN At("idle") ELSE [sch EXCEPT !.pc = sch.after]

Bug_CancelAgain ==
  /\ sch.pc = "begin"
  /\ IF Fenced /\ job[J].status = "cancelling" /\ att[J].handle
     THEN IF att[J].cancel # "acknowledged"
          THEN /\ att' = [att EXCEPT ![J].cancel = "requested"]
               /\ Goto("stop")
          ELSE ReturnFromCancel /\ UNCHANGED att
     ELSE EndTick /\ UNCHANGED att
  /\ UNCHANGED <<job, paused, mem, target, tokens, env, ext>>

BeginComputeCancel ==
  /\ sch.pc = "begin"
  /\ IF Fenced /\ job[J].status = "cancelling" /\ att[J].handle
     THEN IF att[J].cancel = "none"
          THEN /\ att' = [att EXCEPT ![J].cancel = "requested"]
               /\ Goto("stop")
          ELSE ReturnFromCancel /\ UNCHANGED att
     ELSE EndTick /\ UNCHANGED att
  /\ UNCHANGED <<job, paused, mem, target, tokens, env, ext>>

\* provider.cancel: an acknowledgement is not a termination.
ProviderCancel ==
  /\ sch.pc = "stop"
  /\ cancels' = [cancels EXCEPT ![J] = @ + 1]
  /\ \E ok \in BOOLEAN : sch' = [sch EXCEPT !.pc = "record", !.ack = ok]
  /\ UNCHANGED <<table, mem, target, tokens, env, call, spawns>>

RecordComputeCancel ==
  /\ sch.pc = "record"
  /\ IF Fenced /\ job[J].status = "cancelling"
     THEN /\ att' = [att EXCEPT ![J].cancel =
                       IF sch.ack THEN "acknowledged" ELSE "unknown"]
          /\ ReturnFromCancel
     ELSE EndTick /\ UNCHANGED att
  /\ UNCHANGED <<job, paused, mem, target, tokens, env, ext>>

\* The except branch of _poll.
ResultUncertain ==
  sch' = IF DeadlineElapsed /\ ~Cancelling
         THEN [sch EXCEPT !.pc = "cancel", !.after = "uncertain"]
         ELSE [sch EXCEPT !.pc = "uncertain"]

PollReceipt ==
  /\ sch.pc = "poll"
  /\ call[J] \in Receipts
  /\ sch' = [sch EXCEPT !.pc = "accept", !.receipt = call[J]]
  /\ UNCHANGED <<table, mem, target, tokens, env, ext>>

Bug_PollPending ==
  /\ sch.pc = "poll"
  /\ call[J] = "live"
  /\ sch' = [sch EXCEPT !.pc = "accept", !.receipt = "paused"]
  /\ UNCHANGED <<table, mem, target, tokens, env, ext>>

PollPending ==
  /\ sch.pc = "poll"
  /\ call[J] = "live"
  /\ sch' = IF DeadlineElapsed /\ ~Cancelling
            THEN [sch EXCEPT !.pc = "cancel", !.after = "idle"]
            ELSE IF sch.status = "running"
            THEN [sch EXCEPT !.pc = "heartbeat"]
            ELSE At("idle")
  /\ UNCHANGED <<table, mem, target, tokens, env, ext>>

\* Transport failure, remote failure, or a receipt that does not validate.
PollFailed ==
  /\ sch.pc = "poll"
  /\ ResultUncertain
  /\ UNCHANGED <<table, mem, target, tokens, env, ext>>

Bug_PermitCancelling == Active
Bug_PermitOnTime == IF Cancelling THEN {"cancelling"} ELSE {"running"}

Permitted == IF Cancelling THEN {"cancelling"}
             ELSE {"running", "uncertain", "submission_unknown"}

AcceptCompute ==
  /\ sch.pc = "accept"
  /\ IF Fenced /\ att[J].handle /\ job[J].status \in Permitted
     THEN LET chosen == IF Cancelling THEN "cancelled" ELSE sch.receipt
          IN  /\ job' = [job EXCEPT ![J].status = chosen, ![J].result = chosen]
              /\ att' = [att EXCEPT ![J].phase = chosen,
                                    ![J].receipt = sch.receipt]
              /\ EndTick
     ELSE ResultUncertain /\ UNCHANGED <<job, att>>
  /\ UNCHANGED <<paused, mem, target, tokens, env, ext>>

Heartbeat ==
  /\ sch.pc = "heartbeat"
  /\ job' = IF Live
            THEN [job EXCEPT ![J].until =
                    Least(sch.now + LeaseSeconds, job[J].deadline)]
            ELSE job
  /\ EndTick
  /\ UNCHANGED <<att, paused, mem, target, tokens, env, ext>>

Scheduler ==
  \/ Tick \/ Expire \/ ReadJobs \/ Claim \/ Preflight \/ FailBeforeCompute
  \/ PrepareCompute \/ Submit \/ BindComputeHandle \/ ComputeUncertain
  \/ RecoverCompute \/ ReadAttempt \/ CancelElapsed \/ BeginComputeCancel
  \/ ProviderCancel \/ RecordComputeCancel \/ PollReceipt \/ PollPending
  \/ PollFailed \/ AcceptCompute \/ Heartbeat

-----------------------------------------------------------------------------
(* The process, the provider, the clock.                                   *)

\* The OS lock admits one scheduler; a new process holds no token and may
\* be configured with another target.
Start ==
  /\ sch.pc = "down"
  /\ sch' = At("idle")
  /\ target' \in Targets
  /\ UNCHANGED <<table, mem, tokens, env, ext>>

Crash ==
  /\ sch.pc # "down"
  /\ faults < MaxFaults
  /\ faults' = faults + 1
  /\ sch' = At("down")
  /\ mem' = [j \in Jobs |-> 0]
  /\ UNCHANGED <<table, target, tokens, clock, ext>>

\* Any other exception leaves tick; the service loop logs it and goes on.
TickRaises ==
  /\ sch.pc \notin {"down", "idle"}
  /\ faults < MaxFaults
  /\ faults' = faults + 1
  /\ EndTick
  /\ UNCHANGED <<table, mem, target, tokens, clock, ext>>

\* external: the invocation ends, with a receipt or without one.
CallEnds(j) ==
  /\ call[j] = "live"
  /\ \E outcome \in Receipts \cup {"dead"} :
       call' = [call EXCEPT ![j] = outcome]
  /\ UNCHANGED <<table, sch, mem, target, tokens, env, spawns, cancels>>

TimePasses ==
  /\ clock < MaxTime
  /\ clock' = clock + 1
  /\ UNCHANGED <<table, sch, mem, target, tokens, faults, ext>>

Next == \/ Operator
        \/ Scheduler
        \/ Start \/ Crash \/ TickRaises
        \/ \E j \in Jobs : CallEnds(j)
        \/ TimePasses

Spec == Init /\ [][Next]_vars

\* The service loop calls tick for ever and restarts after a crash; an
\* invocation ends (the target has a native timeout); a provider that has a
\* receipt is eventually reached and its receipt eventually validates.
Fairness ==
  /\ WF_vars(Scheduler)
  /\ WF_vars(Start)
  /\ \A j \in Jobs : WF_vars(CallEnds(j))
  /\ SF_vars(PollReceipt)

FairSpec == Spec /\ Fairness

-----------------------------------------------------------------------------
(* Properties.                                                             *)

\* Every table row, local and counter stays in its domain.
TypeOK ==
  /\ job \in [Jobs -> Row]
  /\ att \in [Jobs -> Attempt]
  /\ paused \in BOOLEAN
  /\ sch \in Locals
  /\ mem \in [Jobs -> Nat]
  /\ target \in Targets
  /\ clock \in Nat
  /\ tokens \in Nat
  /\ faults \in Nat
  /\ call \in [Jobs -> Calls]
  /\ spawns \in [Jobs -> Nat]
  /\ cancels \in [Jobs -> Nat]

Owned(j) == job[j].status \notin {"absent", "queued"} \cup Settled

\* At most one job is claimed and not settled, so that the
\* multiple_active_jobs error of tick is never raised: the two separate
\* transactions that read the jobs and claim one never let a second one in.
OneOwned == \A i, j \in Jobs : Owned(i) /\ Owned(j) => i = j

\* The provider is asked to spawn a job at most once, whatever crashes, lost
\* responses, recoveries and cancellations happen ("never permission to
\* retry").
SpawnedOnce == \A j \in Jobs : spawns[j] =< 1

\* An external call exists only for a job whose intent is in the database
\* under the fence of its claim: no crash leaves an invocation the ledger
\* cannot account for.
IntentBeforeSpawn ==
  \A j \in Jobs : call[j] # "none" =>
    /\ att[j].phase # "none"
    /\ att[j].fence = job[j].fence
    /\ job[j].status \notin {"absent", "queued"}

\* A settled job whose external call still runs was settled by the operator
\* before a handle was recorded.  Every call the scheduler knows by its
\* handle has ended when its job settles.
LiveCallTracked ==
  \A j \in Jobs : call[j] = "live" /\ ~Owned(j) => ~att[j].handle

\* A selected result is the receipt that the job's own call returned, and a
\* preflight failure never had a call.
ResultGenuine ==
  \A j \in Jobs :
    /\ job[j].status \in Receipts => call[j] = job[j].status
                                    /\ job[j].result = job[j].status
    /\ job[j].result = "preflight" => job[j].status = "failed"
                                     /\ call[j] = "none"

\* provider.cancel is sent at most once, over crashes and recoveries too.
CancelledOnce == \A j \in Jobs : cancels[j] =< 1

\* A settled job is final: no late bind, poll, cancel or recovery moves its
\* status, its result or its attempt.
SettledFinal ==
  [][\A j \in Jobs : job[j].status \in Settled =>
       /\ job'[j].status = job[j].status
       /\ job'[j].result = job[j].result
       /\ att'[j] = att[j]]_vars

\* Once cancellation is requested the job can only settle cancelled: its
\* output is never selected, however the request races a receipt.
CancelWins ==
  [][\A j \in Jobs : job[j].status = "cancelling" =>
       job'[j].status \in {"cancelling", "cancelled"}]_vars

\* A receipt that the provider holds for a job with a recorded handle settles
\* the job, late or not, unless the Hub is paused or runs another target.
ReceiptSettles ==
  \A j \in Jobs :
    att[j].handle /\ call[j] \in Receipts
      ~> (job[j].status \in Settled \/ paused \/ att[j].target # target)

-----------------------------------------------------------------------------
(* The inductive invariant behind the safety properties.                   *)

\* While a tick works on a row, the row is that of a claimed job.
BodyPCs == PCs \ {"down", "idle", "expire", "read", "claim"}
BodyOK  == sch.pc \in BodyPCs =>
             sch.job \in Jobs /\ job[sch.job].status \notin {"absent", "queued"}

\* How far the attempt row of a job can be, given its job and its calls.
AttemptOK(j) ==
  /\ job[j].status \in {"absent", "queued"} => att[j].phase = "none"
  /\ att[j].phase = "none" => call[j] = "none" /\ spawns[j] = 0 /\ cancels[j] = 0
  /\ att[j].phase \in {"none", "submitting"} => ~att[j].handle
  /\ att[j].phase # "none" => att[j].fence = job[j].fence
  /\ att[j].cancel = "none" => cancels[j] = 0
  /\ spawns[j] =< 1 /\ cancels[j] =< 1
  /\ spawns[j] = 0 => call[j] = "none"

\* What the tick knows at the steps that touch the provider or settle.
TickOK ==
  /\ sch.pc = "submit" => att[sch.job].phase = "submitting" /\ spawns[sch.job] = 0
  /\ sch.pc = "bind" => spawns[sch.job] = 1
  /\ sch.pc = "stop" => /\ att[sch.job].cancel = "requested"
                        /\ att[sch.job].handle
                        /\ cancels[sch.job] = 0
  /\ sch.pc = "accept" => sch.receipt \in Receipts /\ call[sch.job] = sch.receipt

HandleOK(j) == att[j].handle => spawns[j] = 1

SettleOK(j) ==
  /\ call[j] = "live" /\ ~Owned(j) => ~att[j].handle
  /\ job[j].status \in Receipts => call[j] = job[j].status
                                  /\ job[j].result = job[j].status
  /\ job[j].result = "preflight" => job[j].status = "failed"
                                   /\ att[j].phase = "none"

\* The parts together are preserved by every step.
IInv ==
  /\ TypeOK
  /\ BodyOK
  /\ OneOwned
  /\ TickOK
  /\ \A j \in Jobs : AttemptOK(j) /\ HandleOK(j) /\ SettleOK(j)

\* The promise this ledger keeps, as a specification of its own.
StageOf(s) == CASE s = "absent"   -> "new"
                [] s = "queued"   -> "waiting"
                [] s \in Settled  -> "closed"
                [] OTHER          -> "owned"

Ledger == INSTANCE ComputeLedger WITH
  stage    <- [j \in Jobs |-> StageOf(job[j].status)],
  promised <- {j \in Jobs : att[j].phase # "none"},
  launched <- {j \in Jobs : spawns[j] > 0},
  selected <- {j \in Jobs : job[j].status \in Receipts}

\* The tables, the scheduler and the provider implement ComputeLedger: a
\* lease, a recovered token, a lost answer or a late receipt is never more
\* than one step of the abstract ledger.
ImplementsLedger == Ledger!Spec
=============================================================================
