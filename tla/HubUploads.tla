----------------------------- MODULE HubUploads -----------------------------
(***************************************************************************)
(* Reception of recordings by the Hub: upload rows, staged archives, the   *)
(* verification queue, the bounded verifier process and its supervisor.    *)
(*                                                                         *)
(* `up' is the SQLite table uploads (spireagent/hub/database.py) and every *)
(* database method is one step.  `sup' is the verifier thread of the       *)
(* service (hub/__main__.py, hub/verification_worker.py).  `proc' are the  *)
(* processes that run UploadService.verify (hub/uploads.py): the child of  *)
(* the supervisor, and one other, which is a child that outlived a killed  *)
(* service or the verify command of an operator.                           *)
(*                                                                         *)
(* Abstractions.  An archive is "good" when it has the bytes the intent    *)
(* names and verifies, otherwise "bad"; its receipt is verified or         *)
(* quarantined accordingly.  An upload stands for one device and content.  *)
(* Projections and sharing that follow a receipt are optional in the code  *)
(* and left out.                                                           *)
(***************************************************************************)
EXTENDS Integers, FiniteSets

CONSTANTS
  Uploads,       \* one per device and content
  Device,        \* Device[u]: the device that owns u
  QueueLimit,    \* unverified uploads a device may have (16)
  MaxAttempts,   \* failures before transfer_failed (5)
  BackoffCap,    \* longest retry delay (300 s)
  Replaceable,   \* TRUE: object-store staging, a later PUT replaces the body
  MaxRetries,    \* bound: operator retries per upload
  MaxTime,       \* bound: past it the clock only runs for a retry
  MaxFaults,     \* bound: service and thread deaths plus verify commands
  NoUpload

ASSUME UploadConstantsOK ==
  /\ IsFiniteSet(Uploads)
  /\ NoUpload \notin Uploads
  /\ QueueLimit \in Nat \ {0}
  /\ MaxAttempts \in Nat \ {0}
  /\ BackoffCap \in Nat \ {0}
  /\ Replaceable \in BOOLEAN
  /\ MaxRetries \in Nat
  /\ MaxTime \in Nat
  /\ MaxFaults \in Nat

VARIABLES
  up,        \* table uploads
  puts,      \* PUT requests past their checks, with the body they carry
  staged,    \* the body in staging
  evidence,  \* store: received bundles published for an upload
  sup,       \* the verifier thread
  proc,      \* verifier processes
  clock,
  faults

vars == <<up, puts, staged, evidence, sup, proc, clock, faults>>

-----------------------------------------------------------------------------
Bodies   == {"good", "bad"}
Terminal == {"verified", "quarantined"}
Statuses == {"absent", "awaiting_upload", "verification_pending",
             "transfer_failed"} \cup Terminal

Row == [status   : Statuses,
        attempts : Nat,                        \* verify_attempts
        retryAt  : Nat,
        rowid    : Nat,
        receipt  : {"none"} \cup Bodies,       \* the body it was issued for
        cycle    : Nat]                        \* history: operator retries

Processes == {"child", "other"}
Process == [pc     : {"none", "read", "download", "publish", "finish", "fail",
                      "exited", "killed"},
            upload : Uploads \cup {NoUpload},
            body   : {"none"} \cup Bodies]

Supervisor == [pc     : {"down", "idle", "chosen", "running", "failing",
                       "dead"},
               upload : Uploads \cup {NoUpload}]

NoRow  == [status |-> "absent", attempts |-> 0, retryAt |-> 0, rowid |-> 0,
           receipt |-> "none", cycle |-> 0]
NoProc == [pc |-> "none", upload |-> NoUpload, body |-> "none"]
NewProc(u) == [pc |-> "read", upload |-> u, body |-> "none"]
SupAt(p, u) == [pc |-> p, upload |-> u]

Init ==
  /\ up = [u \in Uploads |-> NoRow]
  /\ puts = {}
  /\ staged = [u \in Uploads |-> "none"]
  /\ evidence = {}
  /\ sup = SupAt("down", NoUpload)
  /\ proc = [p \in Processes |-> NoProc]
  /\ clock = 0
  /\ faults = 0

-----------------------------------------------------------------------------
(* Requests of the delivering device and of the operator.                  *)

service == <<evidence, sup, proc, clock, faults>>

Known == {u \in Uploads : up[u].status # "absent"}
Open(d) == {u \in Uploads : /\ Device[u] = d
                            /\ up[u].status \in {"awaiting_upload",
                                                 "verification_pending"}}

\* A repeated intent returns the old row and changes nothing.
CreateUpload(u) ==
  /\ up[u].status = "absent"
  /\ Cardinality(Open(Device[u])) < QueueLimit
  /\ up' = [up EXCEPT ![u].status = "awaiting_upload",
                      ![u].rowid = Cardinality(Known) + 1]
  /\ UNCHANGED <<puts, staged, service>>

\* The status is checked here and the body is written in EndPut; a presigned
\* URL of the object store checks no status.
BeginPut(u, b) ==
  /\ u \in Known
  /\ Replaceable \/ up[u].status = "awaiting_upload"
  /\ puts' = puts \cup {<<u, b>>}
  /\ UNCHANGED <<up, staged, service>>

\* Bug_... operators are wrong variants of the definition that follows them.
\* No specification uses them; they show that a property notices the bug.
Bug_Written(old, b) == b

Written(old, b) == IF Replaceable \/ old = "none" THEN b ELSE old

EndPut(u, b) ==
  /\ <<u, b>> \in puts
  /\ puts' = puts \ {<<u, b>>}
  /\ \/ staged' = [staged EXCEPT ![u] = Written(@, b)]
     \/ UNCHANGED staged                       \* truncated, or lost
  /\ UNCHANGED <<up, service>>

RequestVerification(u) ==
  /\ up[u].status = "awaiting_upload"
  /\ up' = [up EXCEPT ![u].status = "verification_pending"]
  /\ UNCHANGED <<puts, staged, service>>

RetryUpload(u) ==
  /\ up[u].status = "transfer_failed"
  /\ up[u].cycle < MaxRetries
  /\ up' = [up EXCEPT ![u].status = "awaiting_upload", ![u].attempts = 0,
                      ![u].retryAt = 0, ![u].cycle = @ + 1]
  /\ UNCHANGED <<puts, staged, service>>

Request ==
  \E u \in Uploads :
    \/ CreateUpload(u) \/ RequestVerification(u) \/ RetryUpload(u)
    \/ \E b \in Bodies : BeginPut(u, b) \/ EndPut(u, b)

-----------------------------------------------------------------------------
(* verification_failure, called by the verifier and by its supervisor.     *)

Backoff(n) == IF 2^n \in 1..BackoffCap THEN 2^n ELSE BackoffCap

Bug_FailedAnyStatus(r) ==
  [r EXCEPT !.attempts = @ + 1,
            !.retryAt = clock + Backoff(r.attempts + 1),
            !.status = IF r.attempts + 1 >= MaxAttempts
                       THEN "transfer_failed" ELSE "verification_pending"]
Failed(r) ==
  IF r.status # "verification_pending" THEN r
  ELSE [r EXCEPT !.attempts = @ + 1,
                 !.retryAt = clock + Backoff(r.attempts + 1),
                 !.status = IF r.attempts + 1 >= MaxAttempts
                            THEN "transfer_failed" ELSE @]

-----------------------------------------------------------------------------
(* The verifier process.                                                   *)

Move(p, q) == proc' = [proc EXCEPT ![p].pc = q]

Due(u) == up[u].status = "verification_pending" /\ up[u].retryAt =< clock

\* verify_pending reads the row again before it verifies.
ReadRow(p) ==
  /\ proc[p].pc = "read"
  /\ Move(p, IF Due(proc[p].upload) THEN "download" ELSE "exited")
  /\ UNCHANGED <<up, puts, staged, evidence, sup, clock, faults>>

Download(p) ==
  /\ proc[p].pc = "download"
  /\ staged[proc[p].upload] # "none"
  /\ proc' = [proc EXCEPT ![p].pc = "publish",
                          ![p].body = staged[proc[p].upload]]
  /\ UNCHANGED <<up, puts, staged, evidence, sup, clock, faults>>

Bug_Publish(p) ==
  /\ proc[p].pc = "publish"
  /\ evidence' = IF proc[p].body = "good"
                 THEN evidence \cup {<<proc[p].upload, proc[p].body>>}
                 ELSE evidence
  /\ Move(p, "finish")
  /\ UNCHANGED <<up, puts, staged, sup, clock, faults>>

Publish(p) ==
  /\ proc[p].pc = "publish"
  /\ evidence' = evidence \cup {<<proc[p].upload, proc[p].body>>}
  /\ Move(p, "finish")
  /\ UNCHANGED <<up, puts, staged, sup, clock, faults>>

Outcome(b) == IF b = "good" THEN "verified" ELSE "quarantined"

\* A stored receipt is never replaced by another one.
FinishUpload(p) ==
  LET u == proc[p].upload
  IN  /\ proc[p].pc = "finish"
      /\ IF up[u].receipt \in {"none", proc[p].body}
         THEN /\ up' = [up EXCEPT ![u].status = Outcome(proc[p].body),
                                  ![u].receipt = proc[p].body]
              /\ Move(p, "exited")
         ELSE Move(p, "fail") /\ UNCHANGED up
      /\ UNCHANGED <<puts, staged, evidence, sup, clock, faults>>

\* Staging, store or database raised before the receipt was stored.
Raise(p) ==
  /\ proc[p].pc \in {"download", "publish", "finish"}
  /\ Move(p, "fail")
  /\ UNCHANGED <<up, puts, staged, evidence, sup, clock, faults>>

RecordFailure(p) ==
  /\ proc[p].pc = "fail"
  /\ up' = [up EXCEPT ![proc[p].upload] = Failed(@)]
  /\ Move(p, "exited")
  /\ UNCHANGED <<puts, staged, evidence, sup, clock, faults>>

Alive(p) == proc[p].pc \notin {"none", "exited", "killed"}

\* Out of memory, or over the CPU or file size limit.
Killed(p) ==
  /\ Alive(p)
  /\ Move(p, "killed")
  /\ UNCHANGED <<up, puts, staged, evidence, sup, clock, faults>>

Verifier(p) ==
  \/ ReadRow(p) \/ Download(p) \/ Publish(p) \/ FinishUpload(p)
  \/ Raise(p) \/ RecordFailure(p)

\* `verify --upload' typed by an operator.
VerifyCommand(u) ==
  /\ u \in Known
  /\ ~Alive("other")
  /\ faults < MaxFaults
  /\ faults' = faults + 1
  /\ proc' = [proc EXCEPT !["other"] = NewProc(u)]
  /\ UNCHANGED <<up, puts, staged, evidence, sup, clock>>

-----------------------------------------------------------------------------
(* The verifier thread of the service.                                     *)

Before(u, v) == \/ up[u].retryAt < up[v].retryAt
                \/ up[u].retryAt = up[v].retryAt /\ up[u].rowid =< up[v].rowid

PendingUpload ==
  /\ sup.pc = "idle"
  /\ \/ \E u \in Uploads :
          /\ Due(u)
          /\ \A v \in Uploads : Due(v) => Before(u, v)
          /\ sup' = SupAt("chosen", u)
     \/ /\ \A u \in Uploads : ~Due(u)
        /\ UNCHANGED sup
  /\ UNCHANGED <<up, puts, staged, evidence, proc, clock, faults>>

\* external: the scratch filesystem has room for this upload, or it has not.
\* Without room nothing is started and no attempt is counted.
Defer ==
  /\ sup.pc = "chosen"
  /\ sup' = SupAt("idle", NoUpload)
  /\ UNCHANGED <<up, puts, staged, evidence, proc, clock, faults>>

Spawn ==
  /\ sup.pc = "chosen"
  /\ proc' = [proc EXCEPT !["child"] = NewProc(sup.upload)]
  /\ sup' = [sup EXCEPT !.pc = "running"]
  /\ UNCHANGED <<up, puts, staged, evidence, clock, faults>>

Bug_ChildExits ==
  /\ sup.pc = "running"
  /\ proc["child"].pc \in {"exited", "killed"}
  /\ sup' = SupAt("idle", NoUpload)
  /\ proc' = [proc EXCEPT !["child"] = NoProc]
  /\ UNCHANGED <<up, puts, staged, evidence, clock, faults>>

ChildExits ==
  /\ sup.pc = "running"
  /\ proc["child"].pc \in {"exited", "killed"}
  /\ sup' = IF proc["child"].pc = "exited" THEN SupAt("idle", NoUpload)
            ELSE [sup EXCEPT !.pc = "failing"]
  /\ proc' = [proc EXCEPT !["child"] = NoProc]
  /\ UNCHANGED <<up, puts, staged, evidence, clock, faults>>

\* The wall clock limit ends the child wherever it is, also when its last
\* transaction is committed and its exit was not seen.
Timeout ==
  /\ sup.pc = "running"
  /\ proc' = [proc EXCEPT !["child"] = NoProc]
  /\ sup' = [sup EXCEPT !.pc = "failing"]
  /\ UNCHANGED <<up, puts, staged, evidence, clock, faults>>

ParentFailure ==
  /\ sup.pc = "failing"
  /\ up' = [up EXCEPT ![sup.upload] = Failed(@)]
  /\ sup' = SupAt("idle", NoUpload)
  /\ UNCHANGED <<puts, staged, evidence, proc, clock, faults>>

\* Nothing in the verifier loop catches an exception: a database, scratch
\* directory or disk error ends the thread, and the service goes on without it.
ThreadDies ==
  /\ sup.pc \in {"idle", "chosen", "failing"}
  /\ faults < MaxFaults
  /\ faults' = faults + 1
  /\ sup' = SupAt("dead", NoUpload)
  /\ UNCHANGED <<up, puts, staged, evidence, proc, clock>>

Start ==
  /\ sup.pc = "down"
  /\ sup' = SupAt("idle", NoUpload)
  /\ UNCHANGED <<up, puts, staged, evidence, proc, clock, faults>>

\* A shutdown ends the child; a killed service leaves it behind.
Stop ==
  /\ sup.pc # "down"
  /\ faults < MaxFaults
  /\ faults' = faults + 1
  /\ sup' = SupAt("down", NoUpload)
  /\ \/ proc' = [proc EXCEPT !["child"] = NoProc]
     \/ /\ Alive("child") /\ ~Alive("other")
        /\ proc' = [proc EXCEPT !["child"] = NoProc, !["other"] = proc["child"]]
  /\ puts' = IF Replaceable THEN puts ELSE {}
  /\ UNCHANGED <<up, staged, evidence, clock>>

Supervise == \/ PendingUpload \/ Defer \/ Spawn \/ ChildExits \/ Timeout
             \/ ParentFailure

-----------------------------------------------------------------------------
(* The wall clock, and everything together.                                *)

\* Past the bound, time passes only while an upload waits for it.
TimePasses ==
  /\ \/ clock < MaxTime
     \/ \E u \in Uploads : /\ up[u].status = "verification_pending"
                           /\ up[u].retryAt > clock
  /\ clock' = clock + 1
  /\ UNCHANGED <<up, puts, staged, evidence, sup, proc, faults>>

Next == \/ Request
        \/ \E p \in Processes : Verifier(p) \/ Killed(p)
        \/ \E u \in Uploads : VerifyCommand(u)
        \/ Supervise \/ ThreadDies \/ Start \/ Stop
        \/ TimePasses

Spec == Init /\ [][Next]_vars

\* The service and its child run; a dead service is restarted; time passes.
Running == /\ WF_vars(Supervise)
           /\ WF_vars(Start)
           /\ \A p \in Processes : WF_vars(Verifier(p))
           /\ WF_vars(TimePasses)

\* Scratch space: an upload that is chosen again and again finds room.
Space == SF_vars(Spawn)

FairSpec == Spec /\ Running /\ Space

-----------------------------------------------------------------------------
(* Properties.                                                             *)

\* Every row, process and the supervisor stay in their domains.
TypeOK ==
  /\ up \in [Uploads -> Row]
  /\ puts \subseteq Uploads \X Bodies
  /\ staged \in [Uploads -> {"none"} \cup Bodies]
  /\ evidence \subseteq Uploads \X Bodies
  /\ sup \in Supervisor
  /\ proc \in [Processes -> Process]
  /\ clock \in Nat
  /\ faults \in Nat

\* A terminal status and a receipt come together, agree, and name an archive
\* that is in the store: a receipt proves durable archival, wherever the
\* verifier, its supervisor or the service died.
ReceiptArchived ==
  \A u \in Uploads :
    /\ up[u].status \in Terminal <=> up[u].receipt # "none"
    /\ up[u].receipt # "none" => /\ up[u].status = Outcome(up[u].receipt)
                                 /\ <<u, up[u].receipt>> \in evidence

\* With local staging the bytes of an upload are fixed by the first complete
\* PUT, so that two verifiers can never publish two dispositions of it.
OneDisposition ==
  ~Replaceable =>
    \A u \in Uploads : ~(<<u, "good">> \in evidence /\ <<u, "bad">> \in evidence)

\* A transfer fails after exactly MaxAttempts failures of its retry cycle and
\* a pending one has had fewer, whoever recorded them.
BoundedAttempts ==
  \A u \in Uploads :
    /\ up[u].status = "transfer_failed" => up[u].attempts = MaxAttempts
    /\ up[u].status \in {"absent", "awaiting_upload", "verification_pending"}
         => up[u].attempts < MaxAttempts

\* A receipt is final: no late verifier, kill, timeout or operator retry
\* changes the row's disposition again.
ReceiptFinal ==
  [][\A u \in Uploads : up[u].receipt # "none" =>
       up'[u].receipt = up[u].receipt /\ up'[u].status = up[u].status]_vars

Pending(u) == up[u].status = "verification_pending"

\* A pending upload is decided while the verifier thread lives: it becomes
\* verified, quarantined or transfer_failed in spite of kills and restarts.
PendingEndsWhileServed ==
  \A u \in Uploads : Pending(u) ~> ~Pending(u) \/ sup.pc = "dead"

-----------------------------------------------------------------------------
(* Refinement of UploadReception, with staging on the Hub's disk.          *)

Asked == {u \in Uploads : \/ up[u].status \notin {"absent", "awaiting_upload"}
                          \/ up[u].cycle > 0}

Reception ==
  INSTANCE UploadReception WITH status <- [u \in Uploads |-> up[u].status],
                                asked  <- Asked

\* Processes, retries, kills and the clock implement UploadReception: what a
\* device can rely on is that its upload is decided once, by the first body.
ImplementsReception == Reception!ReceptionSpec

-----------------------------------------------------------------------------
(* The inductive invariant behind the safety properties.                   *)

\* What a process and the supervisor work on exists, and an archive is in the
\* store before its receipt is written.
WorkOK ==
  /\ \A p \in Processes :
       /\ proc[p].pc # "none" => proc[p].upload \in Known
       /\ proc[p].pc \in {"publish", "finish"} => proc[p].body \in Bodies
       /\ proc[p].pc = "finish" => <<proc[p].upload, proc[p].body>> \in evidence
  /\ sup.pc \in {"chosen", "running", "failing"} => sup.upload \in Known

\* With local staging every copy of a body is the staged one.
StagedOK ==
  ~Replaceable =>
    /\ \A p \in Processes : proc[p].pc \in {"publish", "finish"} =>
         proc[p].body = staged[proc[p].upload]
    /\ \A u \in Uploads, b \in Bodies : <<u, b>> \in evidence => staged[u] = b

\* What a verifier works on was asked for, and a body on its way has a row; the
\* refinement needs it.
AskedOK ==
  /\ \A p \in Processes :
       proc[p].pc \in {"download", "publish", "finish"} => proc[p].upload \in Asked
  /\ \A put \in puts : put[1] \in Known

\* The parts together are preserved by every step.
UploadInv ==
  TypeOK /\ ReceiptArchived /\ BoundedAttempts /\ WorkOK /\ StagedOK
=============================================================================
