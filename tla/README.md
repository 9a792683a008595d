# TLA+ models of SpireAgent

SpireAgent is a monorepo: a game connector and annotator (C#), a policy runtime
and a host runtime (TypeScript/JavaScript), and a Python side with a Hub
(uploads, datasets, compute jobs), a workbench and a research package. The
modules here model the parts whose correctness depends on the order in which
several actors act. Paths below are relative to `src/`.

## Inventory

| component | state it keeps | operations | hard behaviours | correct when |
|---|---|---|---|---|
| Hub compute ledger and scheduler (`python/spireagent/hub/{database,scheduler}.py`, `python/stpd/cloud_jobs/modal.py`) | SQLite tables `jobs`, `compute_attempts`, `settings.paused`; lease tokens in memory; the provider's invocations | enqueue, cancel, reconcile, pause; tick = expire, claim, preflight, intent, submit, bind, recover, poll, cancel, accept, heartbeat | every transaction of a tick interleaves with operators; crashes between an external call and its record; lost answers; leases and deadlines | a job is spawned once, accounted for before it is spawned, settled once, never selected against a cancellation |
| Hub uploads (`hub/uploads.py`, `hub/verification_worker.py`, `database.py` 227-401) | table `uploads`, staged archives, published artifacts | create, PUT, complete, verify in a child process, fail, retry | the child is killed at any point; parent and child both write the row; retry while a worker is alive | one receipt per upload, an upload is never lost, a verified one never becomes pending again |
| Hub decision jobs (`hub/decision_jobs.py`) | table of dataset jobs, published dataset | create, materialize, cancel, retry, run, heartbeat, recover | a stalled worker that returns; cancel against publication | a superseded attempt publishes no status, cancelled jobs stay cancelled |
| Hub identity and membership (`hub/identity.py`, `membership.py`, device methods of `database.py`) | members, devices, connection flows, sessions | invite, sign in, update, revoke, register, rotate, prove, create, approve, poll, collect, acknowledge | a poll reads in one transaction and authorizes in another; disabling, claims and rotation run between | who is not active has no access left; a credential is handed out only for a live session |
| Hub curation (`hub/curation.py`, `curation_access.py`, `dataset_curation.py`) | index of sources and runs, claims, uses, annotations, stored datasets | index, annotate, prepare, select, publish, bind, record a use | a Gold claim races a training whose use is recorded in several transactions; a worker dies between claim and bind | what is sealed as Gold is never trained on |
| Hub campaigns, collections, exports, pipeline | rows of one transaction each | assign, seal, export | none found | not modelled |
| Artifact store (`python/spireagent/storage`) | blobs, manifests | put, publish, get | crash between blobs and manifest, conditional write | a visible manifest has all its blobs |
| Evidence delivery (`components/evidence`) | outbox database, files beside it, worker lock | discover, attempt, resume, report | a crash inside the one transaction of an attempt; answers lost or late; revoked device | a receipt is what the Hub decided; every sealed recording comes to an end |
| Connector authority (`components/connector/host/Authority`, `PlayerEnvironment/Execution`) | client registry, the lease of the mutation controller, queue of the main thread, receipts | register, acquire, renew, release, submit, native input | a lease expires with a submission queued; a request repeated; the game restarted | one request acts once, on the snapshot and lease it was bound to |
| Policy runtime (`components/policy-runtime/src`) | mode, promise chain, recovery epoch, controller sessions, evidence | setMode, tick, stop, renew, seal | Human while a tick is at any await; lost answers of a submission; renewals in flight | no action after the human takes over; evidence misses nothing it claims |
| Human annotator (`components/annotator/src`) | tracker of accepted inputs, semantic trace, recording lifecycle | observe the callbacks of actions, tasks, buttons and selectors; append; pause, close, recover | an append fails in the middle of a callback; inputs overlap; a close runs on another thread; the process ends at any point | a sealed trace passes its audit, an interrupted one can be recovered, a proof holds the effect of one input |
| Workbench (`python/spireagent/workbench`) | operation threads, one client, one process, `session.json` | prepare, start, command, stop, recover, cancel, close | late and lost answers of the runtime, recovery that overtakes a command, a crash or a closing with a runtime alive | an earlier command never lets the model act after a Human |
| Research package, applications, native foundation, host runtime, tools | files | numerical code, packaging | - | not modelled |

Interaction: annotator and connector produce evidence; the delivery outbox
sends it to the Hub's uploads; verified uploads feed decision jobs and the
artifact store; training runs over artifacts are queued in the compute ledger,
run by the provider and selected by the scheduler; the policy runtime asks the
connector's authority for permission to act.

How the modules follow this: `HubUploads` implements `UploadReception`, to which
`DeliveryOutbox` delivers; `HubCompute` implements `ComputeLedger`;
`PolicyRuntime` extends `MutationController`, the Host it plays through;
`LocalModels` commands a runtime of which it sees life, epoch and replies only.

## Plan

1. Done: compute ledger, uploads, decision jobs, controller and policy runtime,
   delivery, membership, curation, the recording of Human play, local models
   (below, in this order).
2. Next: the paused restore of `deploy/hub` composed with `HubCompute`; the
   rebuildable projection of `hub/console_index.py`; the verifier of agent-run
   evidence against what `PolicyRuntime` seals.
3. Every invariant that a passing run checks is stated by a theorem; what stays with
   TLC is named in each component's section.

Every module takes its sets as CONSTANTS, has one action per operation or
transaction and no RECURSIVE operator, so that it can be proved about. A `Bug_`
operator is a plausible wrong variant of the definition that follows it; no
specification uses it.

Several runs use *scenes*: the initial state is one of a few situations, each of
which leaves only some of the bounds unused (`ops = MaxOps - asks`), so that the
hazards of one component are each met without multiplying with all the others.

## Hub compute

### Modules

| module | contents |
|---|---|
| `ComputeLedger` | the promise: jobs wait, one at a time is owned, an intent is promised before it is launched, a job is launched at most once, a closed job stays closed |
| `HubCompute` | tables, scheduler, operators, provider, crashes, clock; properties; the inductive invariant; the refinement mapping |
| `MCHubCompute` | values and symmetry for TLC |
| `HubComputeProofs` | the inductive invariant, the safety theorems, the action properties, and that `HubCompute` implements `ComputeLedger` |

### Model and code

A database method opens one `BEGIN IMMEDIATE` transaction, so it is one action.
`tick` is a sequence of such methods and provider calls: `sch.pc` names the next
one and the other fields of `sch` are its locals, the rows it read included.
Between any two of them any operator action, clock tick, provider event, crash
(`Crash`, which also forgets `mem`, the in-memory tokens) or escaping exception
(`TickRaises`, after which the service loop goes on) may happen.

| code | action |
|---|---|
| `enqueue`, `cancel`, `reconcile_stopped`, `pause` | `Enqueue`, `Cancel`, `ReconcileStopped`, `Pause` |
| `tick`: `paused`, `expire`, `jobs` with the decision on them | `Tick`, `Expire`, `ReadJobs` |
| `claim`, `_preflight`, `fail_before_compute`, `prepare_compute` | `Claim`, `Preflight`, `FailBeforeCompute`, `PrepareCompute` |
| `provider.submit`, `bind_compute_handle`, `compute_uncertain` | `Submit`, `BindComputeHandle`, `ComputeUncertain` |
| `_token`/`recover_compute`, `compute_state` and the handle comparison | `RecoverCompute`, `ReadAttempt` |
| `_cancel`: `cancel`, `begin_compute_cancel`, `provider.cancel`, `record_compute_cancel` | `CancelElapsed`, `BeginComputeCancel`, `ProviderCancel`, `RecordComputeCancel` |
| `provider.poll`: receipt, nothing, exception | `PollReceipt`, `PollPending`, `PollFailed` |
| `accept_compute`, `heartbeat` | `AcceptCompute`, `Heartbeat` |

Abstractions: a fence value stands for the pair of attempt id and fence that
`claim` draws together; a token is a fresh number and 0 is SQL NULL; requests,
handles and receipts are compared by the job they belong to; `last_error` and
the event table feed no decision. The provider (`call`, `spawns`, `cancels`,
`CallEnds`) is external: a submission can be lost, can spawn and lose its answer,
or succeed; an invocation ends with a receipt or without one; cancelling it is a
request. The operator's stop evidence is taken to be true (`StopEvidence`).

### Runs

| run | instance | shows |
|---|---|---|
| `compute_safety` | two jobs, one target, one fault, clock 0..1 with lease and deadline at 1 | the invariants and action properties, and that `ComputeLedger` is implemented |
| `compute_recovery` | one job, two targets, two faults, clock 0..3, lease 1, deadline 2 | `ReceiptSettles` under fairness |

Two sentences of the runbook are false for the same kind of race, and no run
repeats them: "reservations must fit the explicitly configured budget"
(RUNBOOK.md:511), when an enqueue comes between `ReadJobs` and `Claim`; and "at most
one active job/GPU" (RUNBOOK.md:510), when an operator cancels and reconciles a job
between the intent and `provider.submit` (scheduler.py:147) and the call that
starts runs beside the next job's.

Bounds. Two jobs are enough for every interference between jobs: an action reads
its own job and whether another is active, and the proofs cover any number.
`MaxTime` bounds the clock, `MaxFaults` crashes and failed ticks. Lease and
maximum seconds are small enough that the clock passes both. Tokens and fences
grow only with claims and recoveries, which the faults bound. Jobs are symmetric
in the safety run (no liveness there, and the row order is a field).

Fairness. `schedule` in `hub/__main__.py` calls `tick` every five seconds for ever
and a dead service is restarted, hence weak fairness of the scheduler's steps
and of `Start`. A deployed target has a native timeout, hence `CallEnds`. That a
provider holding a receipt is reached by some poll is strong fairness of
`PollReceipt`: it is assumed of the provider, not of the Hub. `ReceiptSettles`
excludes a paused Hub, which stops monitoring
(`docs/CLOUD_PIPELINE_B.md` says so), and a Hub configured with another target.

### What is proved

From `ConstantsOK` alone: `IInv` is inductive (`HubComputeProofs`, one lemma per
action). The safety properties are not inductive by themselves: that a job is
spawned once depends on what the tick knows at `submit` (`TickOK`), on the
attempt row being created once (`AttemptOK`) and on no call existing without a
row; that the tick works on a claimed job is `BodyOK`; that a handle implies a
spawn is `HandleOK`. From it follow `TypeOK`, `OneOwned`, `SpawnedOnce`,
`CancelledOnce`, `IntentBeforeSpawn`, `LiveCallTracked`, `ResultGenuine`, the
action properties `SettledFinal` and `CancelWins`, and the refinement. Only
checked: `ReceiptSettles` (liveness is out of the prover's reach).

### Not modelled

`submitted`, `submission_unknown` and `complete` of `database.py` have no caller
outside tests. Backup and restore are planned. Malformed arguments raise before
any state changes and are no steps.

## Hub uploads

### Modules

| module | contents |
|---|---|
| `HubUploads` | rows, staging, requests, verifier processes, the verifier thread, faults, clock; properties; the inductive invariant |
| `UploadReception` | the promise: an upload is created once, its first complete body stays, it is decided by that body and at most once |
| `MCHubUploads` | values for TLC |
| `HubUploadsProofs` | the inductive invariant and the safety theorems |

### Model and code

`up` is the table `uploads`, one transaction per action. A verification is a
process that goes through `UploadService.verify`: read the row, download,
publish, finish, or fail; `proc[p].pc` names its next call. There are two such
processes: the child of the verifier thread, and one other, which is either the
child a killed service left behind or an operator's `verify --upload`. `sup` is
the thread itself. Both the process and the thread record failures, in any
order. A shutdown ends the child; a kill of the service does not.

| code | action |
|---|---|
| `create_upload`, `request_verification`, `retry_upload` | `CreateUpload`, `RequestVerification`, `RetryUpload` |
| PUT of an archive: the check, then the write | `BeginPut`, `EndPut` |
| `verify_pending` / `verify`: row, download, `store.publish`, `finish_upload`, `except` | `ReadRow`, `Download`, `Publish`, `FinishUpload`, `Raise`, `RecordFailure` |
| limits of `constrain_worker` | `Killed` |
| thread `verifier`, `run_verifier` | `PendingUpload`, `Defer`, `Spawn`, `ChildExits`, `Timeout`, `ParentFailure`, `ThreadDies` |
| start, shutdown and kill of the service | `Start`, `Stop` |

Abstractions: an archive is good or bad, and a verification of it says so. With
`Replaceable` staging is an object store whose presigned URL replaces the body;
without, it is the Hub's disk, where the first complete body stays.

### Runs

| run | instance | shows |
|---|---|---|
| `uploads_local` | one upload, local staging, two failures per cycle, one retry, two faults | receipts and archives come together, one disposition, `UploadReception` is implemented, and a pending upload is decided while the thread lives |

"A network/disk/worker resource failure gets bounded retries and then
`transfer_failed`" (`CLOUD_PIPELINE_B.md:23`) holds only while the thread lives:
the loop of `verifier` (`hub/__main__.py:324`) catches nothing, the one of
`schedule` does, and an uncaught error of the database or the scratch directory
ends the thread while the service goes on accepting uploads. `ThreadDies` is that
step, and `PendingEndsWhileServed` excuses it.

Bounds. One upload meets every race on its row; two are needed only for the
order of the queue. `MaxAttempts` is 2 so that one failure may be the child's and
the next the parent's. `MaxFaults` counts deaths of service and thread and verify
commands: two are enough to have an orphan and a restarted service at once.
Deadlock is not checked where the thread may die: nothing is due after that.

Fairness. The thread polls every five seconds, its child makes progress or is
ended by the wall clock limit, the container is restarted
(`restart: unless-stopped` in `deploy/hub/compose.yaml`) and time passes: weak
fairness of `Supervise`, `Verifier`, `Start` and `TimePasses`. `Space`, strong
fairness of `Spawn`, is an assumption about the host: an upload that is chosen
again and again finds scratch space. Without it the head of the queue is deferred
for ever and keeps everything behind it waiting.

### What is proved

`UploadInv` is inductive for every set of uploads, every limit and both kinds of
staging. `ReceiptArchived` is not inductive alone: between `Publish` and
`FinishUpload` a process carries a body that must be in the store (`WorkOK`), and
`OneDisposition` needs that with local staging what any process downloaded is what
is still staged (`StagedOK`). The theorems are `TypeOK`, `ReceiptArchived`,
`OneDisposition`, `BoundedAttempts` and `ReceiptFinal`; the last two, and everything
about staging in an object store, are proved and in no run. With local staging
`UploadReception` is implemented, by the mapping at the end of the module
(`ReceptionImplemented`): that needs `UploadInv` and `AskedOK`, by which a verifier
works only on what somebody asked to verify and a body on its way has a row. Only
checked: liveness.

### Not modelled

The projections and the sharing association that follow a receipt. `retry_upload`
does not look at the limit of sixteen open uploads; the model has that guard where
the code has it, and states no bound.

## Decision jobs

### Modules

| module | contents |
|---|---|
| `DecisionJobs` | rows, requests, workers, the verifier thread's part, faults; properties; the inductive invariant |
| `MCDecisionJobs` | values for TLC |
| `DecisionJobsProofs` | the inductive invariant, the safety theorems and the queue limit |

### Model and code

`job[j]` is a row of `decision_jobs` with its rows of `decision_job_execution`
(`attempt`) and `decision_job_visibility` (`archived`). A worker runs
`DecisionJobs.run`; every update it makes is conditional on the row being
`running` with the worker's attempt (`Holds`). Again there are two workers, the
thread's child and an orphan or `verify --decision-job`. The heartbeat is a step
of its own and need not happen: a worker may stall, and a row without an update
for 180 seconds is `stale`. `cold` counts the selection's unprepared batches; the
index survives the attempt, so a job that checkpoints continues where it was.

| code | action |
|---|---|
| `create` and `materialize`, `cancel`, `retry`, `set_archived` | `Create`, `Cancel`, `Retry`, `SetArchived` |
| `pending`: sweep, automatic profile, choice; `next_attempt` | `PendingJob`, `NextAttempt` |
| `run`: claim, `progress`, membership, preparation, checkpoint | `Claim`, `Begin`, `Admit`, `Prepare`, `Index`, `Requeue` |
| `run`: selection, `publishing`, the manifest, completion, `except` | `Select`, `Announce`, `Publish`, `Complete`, `Raise`, `RecordFailure` |
| the heartbeat thread; limits of the process | `Heartbeat`, `Killed` |
| thread `verifier`, `run_verifier`, `fail` | `Defer`, `Spawn`, `ChildExits`, `EndChild`, `ParentFailure`, `ThreadDies` |
| suspension and restoration of the owner | `MembershipChanges` |

`cycle` and `by` are history variables: the number of explicit retries, and the
attempt that completed the job.

### Runs

| run | instance | shows |
|---|---|---|
| `decisions_one` | two scenes: one publication that needs one checkpoint, one retry, two faults; and it with an automatic profile, without faults | every invariant and action property, that an active job is settled while the thread lives, and that members' jobs do not starve the profile |
| `decisions_fence` | one publication, one retry, two faults | refutes "Attempt fences prevent an old worker from changing a later attempt" (`PROJECT_CONSOLE.md:397`) |

The counterexample starts with a stalled worker whose row the sweep fails
without advancing the attempt, and an explicit retry: the old worker wakes up,
raises at its next `progress` and its `fail` fits the retried, pending row. By the
same gap "Cancellation is allowed before the final publication phase"
(`PROJECT_CONSOLE.md:399`) is false: the retried job is cancelled while the old
worker is publishing. What does hold of old workers is `OldWorkerFenced`: they
write neither progress nor a result nor a checkpoint.

Bounds. Jobs meet only in the queue, hence one job for the fences and two for the
queue, without faults there; the limit of the queue is proved, not run. One batch gives one checkpoint;
`MaxRetries` 1 gives the two cycles that can be confused. Deadlock is not checked
where the thread may die.

Fairness. As for uploads, with `BecomesStale`: 180 seconds pass. In the service
the same thread serves uploads first; that no upload is due for ever follows from
the liveness of uploads and is assumed here by leaving them out.

### What is proved

`JobInv` is inductive for every set of jobs, profiles, batches and limits. A claim
takes an attempt greater than the row's, and no worker holds one greater than the
row's: with `AttemptsDistinct` this gives that whoever passes `Holds` is of the
current cycle, and that completion is by the last attempt. `WorkOK` adds that a
worker about to complete a publication has stored it. All other steps are
instances of one lemma, `AdvanceStep`: rows never lose an attempt or start
running, and workers that hold a fence keep it. The theorems are `TypeOK`,
`AttemptsDistinct`, `CompletedByLast`, `SettledStays`, `OldWorkerFenced`,
`MemberCompletes` and `QueueBounded`; the last by cardinality, since every way into
the queue looks for room in its own transaction. Only checked: `ActiveEnds`.

### Not modelled

What a selection computes, the preview a publication is compared with, curation,
and the wording of progress. That an archived job can be retried and is then
active and archived is in the model; no property is about it.

## Control of the game

### Modules

| module | contents |
|---|---|
| `MutationController` | the Host: client registry, lease of the mutation controller, the queue of the game's main thread, admission, native input and receipts |
| `PolicyRuntime` | EXTENDS it: the runtime's promise chain, modes, recovery epochs, ticks with every await, controller sessions and their renewals, evidence; a rival client, people, and a restarted game |
| `MCPolicyRuntime` | values and scenes for TLC |
| `MutationControllerProofs`, `PolicyRuntimeProofs` | their inductive invariants and safety theorems |

### Model and code

The Host's lease calls are one action each under the coordinator's lock. A
submission is queued (`Post`) and run by the main thread in two steps, `Admit` (up
to `Authorize`) and `NativeInput`; the clock (`ClockTick`) and the game
(`GameMoves`) move between them. The runtime is one Node process: what a command
does when it is called (`AskHuman`, `AskStop`, `AskMode`, `AskTick`) is one action,
what it does in its turn is one action per await.

| code | action |
|---|---|
| `MutationControllerCoordinator.cs` | `Register`, `Acquire`, `Renew`, `Release`, `ClockTick` |
| `ActionSubmission.cs`, main-thread queue | `Post`, `TakeNext`, `Admit`, `NativeInput`, `DropAfterBatch`, `FrameEnds` |
| `setMode`, `stop`, `tick`, `serialize` | `Ask...`, `Start`, `BeginMode`, `BeginStop`, `BeginTick`, `Check`, `Record`, `Stop` |
| `tickOnce` | `Capabilities`, `Observe`, `Score`, `RegisterSession`, `AcquireControl`, `Submit`, `SubmitRenewed`, `Reply`, `NoReply`, `Successor` |
| `controllerSession.ts` | `RenewalTimer`, `RenewReturns`, `AcquireReturns` |

Abstractions. A lease is its generation, Host process and client; snapshots are
numbers that never repeat; the exact action is part of the request id. Epoch
exhaustion and the deduplication of scores in shadow mode are left out. A receipt
that does not correlate is a missing one (`NoReply`). After receipt evidence could
not be written the successor poll is skipped, as it decides nothing. A retry of a
command that acted before the Host restarted is answered `not_delivered`, as the
new Host has no receipt: at most once is a promise of the game, not of the answer.

### Run

`control` has four scenes: people who command and take over; modes that stop by
themselves; a rival and repeated requests; a Host restarted under a playing
runtime. It checks nine properties: a request acts at most once, on the snapshot
and under the lease it was bound to, receipts tell the truth, the evidence misses
nothing it should hold, no command prepared before a Human takes effect after it,
an uncertain submission is never followed by another, closed sessions stop
renewing, and a person who asks for Human gets it (liveness). `HumanTakesOver`
excepts legacy mode commands without guard that were queued before the person
asked (`policy-runtime/README.md` 110-140; runtime.ts:161).

Bounds. One session of its own and one rival are enough to contest the lease, two
decisions to have an old and a new one, one move of the game and one tick of the
lease to go stale, two Host processes for a restart. Fairness is weak: promises
of a running process settle (`Running`), calls return or time out (`Returns`).

### What is proved

`HostInv` and `RuntimeInv` are inductive for any clients, requests, lease life and
bounds. `AtMostOnce` needs that a request in the table of the Host is the only one
with its id (`TableIsKeyed`), `LandsWhereAimed` that what was admitted is fresh and
current until the native input (`AdmittedIsFresh`). On the runtime's side
`EvidenceComplete` and `NeverActsBlind` follow from `OpenPosts` (a post without
an answer taints, or its await is still running) and `Chain`; `OneStepOnce` from
`StepCredit`. `OneGame` is proved and in no run: a run acts on the game of its
first capabilities.

`HumanTakesOver` and `ClosedSessionsEnd` need more, `ControlInv`: once a person has
taken over and no legacy command was queued before, every command in the queue
that asks for another mode is bound to an older epoch, and a tick under way is
cancelled before it submits (`HandOver`, `Overtaken`); and the session in use is an
open one (`OpenInUse`), so whoever renews or acquires does it for no closed
session. Only checked: `HumanRules` (liveness).

## Delivery

### Modules

`DeliveryOutbox` EXTENDS `UploadReception`, the promise that `HubUploads`
implements, and adds the outbox: the recording directories, the table `sessions`,
the files beside it, the one worker, HTTP requests, the credential, and the
operator's tools. `DeliveryOutboxProofs` holds its inductive invariant.

### Model and code

An attempt (`drain_one`) runs inside one SQLite transaction: files change as it
goes, the row in its last step. `Stop` is a crash or a stop at any step: the files
stay and the transaction is lost.

| code | action |
|---|---|
| `reconcile`, `drain_one` | `Reconcile`, `DrainOne`, `Pack`, `Check` |
| `delivery_http.py` | `GetStatus`, `PostIntent`, `FetchReceipt`, `PutBody`, `PostComplete`, `Rejected`, `Lost` |
| the receipt file, the row | `FileReceipt`, `CommitReceipt`, `Incident`, `RetryLater`, `AuthBlocked` |
| `resume_auth`, the completion report, `InterruptedRecordingRecovery` | `ResumeAuth`, `ReportCompletion`, `RecoverInterrupted` |

Abstractions. A retry time is waiting or due. Packing is deterministic and atomic.
`rebuild_summaries` and the status projection are left out. The body goes to the
Hub's local staging; its 401 or refusal is an incident, not an authentication
block, because the PUT is not a Hub API call. The Hub's 409 at its queue limit,
`transfer_failed`, and a late completion after which the next PUT is refused are
incidents that nothing requeues: `IncidentHasCause` names them.

### Runs

| run | instance | shows |
|---|---|---|
| `delivery` | two recordings of one device, room for one undecided upload, three faults | receipts are genuine, identities durable before they matter, incidents have a cause, sealed recordings come to an end |
| `delivery_resume` | the same | refutes "A valid block becomes `pending`" (DELIVERY.md:242): a crash between the receipt file and the commit, then a 401, leaves a block that resume-auth rejects for ever |

Fairness. A stopped worker is started again, works and discovers; waits end; the
Hub verifies. Strong fairness of `DrainOne(s)`: the waits grow exponentially and
so outgrow the attempts of other recordings; no recording is due again and again
without getting its turn.

### What is proved

`DeliveryInv` is inductive for any recordings, queue limit and number of faults:
each step of an attempt has secured what the next relies on (`AttemptOK`), and
what makes a later incident has left its trace (`HistoryOK`). `ReceiptGenuine`,
`IdentityDurable` and `IncidentHasCause` follow. Only checked: `SealedEnds`.

## The Hub's records

`MCRecords` composes two modules of the Hub, and the recording of Human play, that
share no state. A desk chosen at the start sees the operations of one of them, so
that they do not multiply; the run is `records`. `RecordsProofs` holds the proofs
about all three: the recording first, then members and curation.

### Membership

`HubMembership` has one action per transaction of `membership.py`, `identity.py`
and the device methods of `database.py`. A connection flow is `Prove`, `Create`,
`Approve` or `Deny`, then a poll in two transactions, `Poll` and `Collect`, of
which the second authorizes again; `Lose` is an answer that never arrives.
Abstractions: an e-mail address is a person, tokens are numbered by rotation, an
expired flow is a denied one; codes, CSRF, rate limits, the capacities of 1000
rows and the enroll flag are left out.

The instance has two members, a computer of the old roster that may be claimed
and a fresh one, two symmetric flows, quota and session limit 1 and one rotation:
two flows contest a computer, a quota and a session. `MInv`, for any number of
each, is type correctness with: who is active is known, live sessions belong to
approved flows, and approved access is of active members (`RevokedMeansOut` in
pointwise form). `RevokedMeansOut`, `CredentialsLive`, `NeverReowned` and
`AdminRemains` are proved; the last two are in no run. No bound is stated on
quotas: `rotate_device` (database.py:197) reactivates a device without the quota
check of `IDENTITY_PROTOCOL.md`:183.

### Curation

`HubCuration` has one action per transaction of indexing, annotation, preparation
of Gold, selection, confirmation, claim, storage, binding, and of a guarded use
(`record_use`: the runs in one transaction, each source in its own).
Abstractions: a decision is its run, its fingerprint and its batches; a dataset
selects every decision of its sources that no annotation excludes; an upload is
verified and its source manifest available in one step; an index batch that is
repeated is idempotent and counted once; uses are recorded again only as a whole
(`Again`); paired training sets and uses for downloads are left out.

The instance: two recordings, the second batch of the second one holds the
duplicate of the first one's decision; a Gold set of the first, a Gold set merged
from it, a training set of both; one training that reads the recordings or the
set; one annotation.

`CurationInv` is inductive for any sources, datasets, lineages and trainings under
`CurationConstants` (a dataset selects from recordings or merges datasets, a batch
is a set of decisions), and `GoldNeverTrained`, `GoldKeptApart` and
`QualityCurrent` follow. None of the first two is inductive: a training records its
runs and sources one by one, and a claim is checked against what is recorded. The
argument: every use is recorded before its training starts (`Recorded`); a Gold
claim looks at a complete inventory, so that no recorded use is related to it
(`ClaimFree`); a use is refused while a related Gold exists (`UnreservedFree`); and
the walk over lineages covers all that a training reads (`Covered`).
`QualityCurrent` follows from the numbering of annotations (`NotesOK`). Also met: a late source that links the runs of a Gold set with
those of a trained one makes `_prepare_gold` refuse for ever.

## The recording of Human play

### Modules

`HumanRecording` models the annotator's `RecorderRuntime`, its
`SemanticBoundaryTracker`, the append of trace batches, the recording's lifecycle,
the audit of a sealed trace and the recovery of an interrupted one.
`MCHumanRecording` has the casts for TLC; `MCRecords` runs it as a desk of its own.
The proofs are the first part of `RecordsProofs`.

### Model and code

`native`, `queue`, `ended` and `world` are the game: where each input is, the queue
of actions, tasks whose end the next frame sees, and whose effect has begun. A
frame is the set of inputs whose effect it shows. `tracker` is what the recorder
has in memory, `trace` and `stream` what is on disk, `closer` how far each thread is
in `FinalizeClose`. A handler runs to its end on the game's thread; every
persistence in it may fail, be rolled back, or fail to be rolled back
(`PersistOrUnknown`, `PersistOrDisable`).

| code | action |
|---|---|
| buttons and native tasks | `Press`, `TaskEnds`, `ObserveTask` |
| queued actions and their callbacks | `Submit`, `Enqueue`, `Execute`, `PauseForChoice`, `Resume`, `Abort`, `Finish`, `Cancel` |
| a choice in a selector, the owner of the next decision | `Choose`, `OwnerReady` |
| `RecordingLifecycleStateMachine`, `OnProcessFrame` | `PauseRecording`, `ResumeRecording`, `AskClose`, `FrameCloses` |
| `FinalizeClose` | `Preview`, `WriteClose`, `Seal` |
| `SemanticBoundaryTraceValidator`, `RecoverCopy` | `Valid`, `Recovered` |

Abstractions. The trace keeps every row, reduced to the fields the validator
reads: whose it is, its kind, the frames before and after, commit and continuation.
Inputs that become unknown together do so in any order. Contents of frames, action
catalogs, the canonical decision stream, rewards, map and shared
roots, and a second session are left out. A queued action that the recorder knew
failed its witness is a barrier where it is accepted, not where it executes.

### Runs

| run | instance | shows |
|---|---|---|
| `records`, desk "recording" | three inputs in six casts, one failed write, close from the panel | `RecordingAudits`: a sealed recording passes its audit and an interrupted one can be recovered at any point; `TransitionsPure`: a proved transition holds the effect of its own input and of no other that was noticed |
| `recording_close` | the same, no failed write, close also from the task bridge | refutes "exactly one semantic disposition" (`DATA_CONTRACT.md`:113) |

The bridge closes on a pool thread: it previews the unresolved inputs under the
lock and appends their rows after releasing it, while the game's thread settles one
of them. The sealed recording fails its audit, so `records` closes from the panel
only (`RemoteClose` is FALSE there).

Bounds. Three inputs are an input, one that runs into it, and a choice or a button
beside both, or two choices in the selector of the first; the casts put every pair
of kinds together. A recorded choice is settled before the next one is made
(`Choose`): a second choice behind an unsettled first one gives that one a
continuation without a pause, which the audit refuses
(`semantic_native_continuation_without_pause`); the model leaves it out, and the
theorems below say nothing about it. One failed write meets every batch of every
handler.

What the properties do not say: inputs made while the recording is paused leave no
witness, and a transition pending from before may be proved across them;
`Noticed` leaves them out.

### What is proved

`RecordingsAudited` (`RecordingAudits`) and `ProofsPure` (`TransitionsPure`), for any
finite set of inputs, any casts and any number of failed writes, from
`RecordingConstants` and `~RemoteClose`; with `RemoteClose` an input may get two
dispositions, as `recording_close` shows.

Neither property is inductive. The audit speaks of rows on disk, while every handler
decides by the tracker in memory, appends several rows at once, and may see a batch
rolled back and replaced by unknown rows. `RecordingInv` says at every moment at
which a batch may be appended:

- `GameOK`, `CloseOK`: the game, its queue and its selectors are in their domains and
  agree with each other; a closing thread holds the unresolved inputs it previewed.
- while the recording is open, `Arrived`: the tracker and the rows agree input by
  input (`Synced`: who is accepted, started, paused, finished and disposed, the
  frame of its one boundary before the execution, the order of execution; every
  proof among the rows is valid and pure); and, while the stream is healthy, an
  input that is still open could be settled by the next frame without taking in the
  effect of another (`Pending`).
- when it is closed, `Sealed`: the trace is valid and its proofs are pure.

Each operator of the tracker (`Accept`, `Settle`, `SettleWaiting`, `NestedBoundary`,
`Continuation`, ...) has a lemma that it leads from such a moment to such a moment,
each form of persistence one that it keeps the old moment, reaches the new one or
disposes of what is left; an action is a chain of them. TLC checked `RecordingInv`
on the instance of `records` (desk "recording") before it was proved. No liveness is
stated of this component.

## Local models of the Workbench

### Modules

`LocalModels` models `workbench/local_models.py` 437-1037 with the part of
`native_tasks.py` it waits for and the runtime's HTTP service as a client sees it.
`MCLocalModels` has the scenes, `LocalModelsProofs` the proofs.

### Model and code

`wb` is the memory of the `LocalModelService`, `disk` its `session.json`. Every
operation is a thread numbered by the order in which the person began it; its `pc`
is the next place where it takes a lock, waits or sends. `wire[t]` is the request
of thread `t`: it is served at any later time, also after its sender gave up or
died. `rt` are the runtime processes, of which only one can listen on the port.

| code | action |
|---|---|
| `_begin` and its `run` | `Begin`, `HandleError`, `Save` |
| `prepare`, `install_runtime`, `start`, `prepare_and_load` | `Prepare`, `Task`, `Start`, `Probe`, `Launch`, `Load`, `Abandon` |
| `command` | `Enter`, `Recover`, `Observe`, `Bind`, `PrepareGame`, `Send`, `Receive`, `TimeOut`, `Settle`, `Kill`, `Handoff` |
| `_cancel_loading`, `_recover` | `Cancel`, `Identify`, `Adopt` |
| `observe_once`, `status`, `close`, `__init__` | `ObserveStop`, `Poll`, `Close`, `CloserReply`, `Leave`, `Exit`, `Open` |
| `server.ts`, `runtime.ts` | `Ready`, `Serve` (with `Effects`), `Ends`, `OtherRecovers` |

`held`, `recovered` and `doubt` are history: under which command the model acts,
the last Human or Stop a runtime applied, and which commands' outcome nobody
learned. Abstractions: shadow is auto; `prepare_and_load` is `Start`; downloads
and installations are one step; the observer holds the service lock and is one
step; a refused command's increment of the intent is left out, as no live thread
holds the current intent then; a closing Workbench's stop carries the number of
operations begun. `Close`, `Crash` and `Dies` count against `MaxFaults`.

### Runs

| run | instance | shows |
|---|---|---|
| `workbench` | five scenes with up to three operations: loading and its first command; three commands; two commands and a recovery in the game; two across an end of the Workbench; one in a session that outlives two Workbenches | a Human or Stop fences every earlier command, an uncertain one is never followed by another without a recovery, late answers change nothing of a newer operation, every operation ends |
| `workbench_session` | the same | refutes "persisted ... alongside the exact Runtime startup identity" (LOCAL_MODEL_TASK_FLOW.md:56): a Workbench that ends while its runtime loads leaves a session that can neither be recovered nor replaced |

Bounds. Three operations are a command, the recovery that overtakes it and one
more that meets both. Fairness: each operation thread is scheduled and every wait
has a timeout (2, 45 or 180 seconds), hence weak fairness of `Step(t)`.

Observed, without a run of their own: a stop that is still in
`_evaluation_handoff` while a Human fails, the observer settles the runtime and a
new start launches another, ends by reporting the new one stopped
(local_models.py:820; LOCAL_MODEL_TASK_FLOW.md:67 excludes it), which is why
`LateRepliesHarmless` leaves stops out; a crash between `Popen` and `_save` leaves a
runtime nobody knows of, and only the port separates it from the next; of two
recoveries of an earlier session the slower one may read `previous_session` after
it is gone and end with an uncaught exception, its operation `pending`.

### What is proved

`HumanFences` holds for any number of runtimes, operations, faults and recoveries
in the game (`HumanAlwaysFences`), with type correctness (`LocalTypes`). It is not
inductive; `FenceInv` adds why the epoch that a request carries is enough:

- `NumbersOK`: operations are numbered in the order they begin, and a thread that
  may still ask something of a runtime has its own number as its intent;
- `CurrentOK`: while a command holds the current intent, every recovery a runtime
  applied, or that is on its way, has a smaller number, also that of a closing
  Workbench;
- `BoundOK`: if the epoch a command was bound to is still the runtime's, the
  runtime's last recovery is older than the command.

A command reads the epoch while it is current (`Bind`), so `CurrentOK` gives
`BoundOK`; every recovery advances the epoch, so `BoundOK` survives it; an entry is
applied only under the runtime's epoch, so its number is greater than `recovered`.
Most actions ask nothing new of a runtime: for them the proof shows `Quiet`, and
`QuietStep` once for all that this keeps `FenceInv`.

`UncertainFenced` (`UncertainIsFenced`) is a property of steps, and what makes it
true is spread over the Workbench's memory, its session, its threads, the requests
on their way and the runtime. `DoubtInv` adds that to `FenceInv`. The commands for
runtime `r` that no recovery has overtaken, of known outcome or not, are
`Unsettled(r)`; then

- `OneUnsettled`: there is at most one at a time, and `NewestOK`: none is newer than
  the current intent;
- `AnswersOK`: a request that the runtime would still accept is unsettled, and a
  recovery that was answered was applied;
- `ShutOK`: while the loaded runtime has an unsettled command, the latest operation
  is still asking, is about to fail, or has left the status `command_unknown` or
  `recovery_required`, under which `_begin` refuses all but recoveries;
- `ReadyOK`: a load or an adoption that is still current makes a runtime loaded only
  when nothing is unsettled there, hence the same in the next Workbench;
- `OrderOK`, `NamesOK`: only the thread of the latest operation may be current, and
  a thread waits for the answer to its own request.

A step that lets the model act serves the request of an unsettled command
(`ServedUnsettled`), which by `OneUnsettled` is the one in doubt or there is none.
`LateRepliesHarmless` (`LateRepliesAreHarmless`) follows from `OrderOK`: every write
of what the Workbench reports is made by a thread that is current, or by an error
that checks `operation`. TLC checked `DoubtInv` on the scenes of `workbench` before
it was proved. Only checked: `OperationsEnd`, which is liveness.

## Not modelled

`campaigns.py`, `collections.py`, `exports.py`, `pipeline.py` and
`live_evaluations.py` do their work in one transaction each and meet no other
actor in between. The console index, statistics, capacity and HTTP routing are
projections. `storage/`, `deploy/hub` are in the plan. The
research package (`stpd`) is numerical code and one-shot scripts, in which nothing
runs concurrently. The connector's adapters to the game, the applications, tools,
contracts and migrations are input and output.
