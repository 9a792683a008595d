--------------------------- MODULE DeliveryOutbox ---------------------------
(***************************************************************************)
(* Delivery of sealed recordings from a player's computer to the Hub.      *)
(*                                                                         *)
(* `row' is the SQLite table sessions of the outbox, `disk' the files the  *)
(* worker keeps beside it (delivery.py, delivery_http.py) and `worker' the *)
(* one process that holds worker.lock.  An attempt runs inside a single    *)
(* database transaction: `row' changes in its last step only, `disk' as it *)
(* goes, and a crash keeps the files and loses the transaction.  The Hub   *)
(* is UploadReception, reached by HTTP requests that are refused, lost,    *)
(* answered too late to be heard, or carried out late.                     *)
(*                                                                         *)
(* Abstractions.  A recording stands for its directory, its outbox key,    *)
(* its bundle and its upload.  A retry time is only "waiting" or due, and  *)
(* the wait may end at any time.  Archives are deterministic, so that they *)
(* are not modelled apart from the bundle; projections for the user        *)
(* interface are left out.                                                 *)
(***************************************************************************)
EXTENDS UploadReception

CONSTANTS
  Rank,          \* Rank[s]: order of the outbox keys
  Body,          \* Body[s]: how the Hub's own verification will find it
  MaxFaults      \* bound: crashes, lost requests, revocations, changed sources

ASSUME DeliveryConstantsOK ==
  /\ IsFiniteSet(Uploads)
  /\ QueueLimit \in Nat \ {0}
  /\ Rank \in [Uploads -> Nat]
  /\ Body \in [Uploads -> Bodies]
  /\ MaxFaults \in Nat

VARIABLES
  source,      \* recording directories
  row,         \* table sessions
  disk,        \* bundles/, transfers/, archives/*.upload.json, receipts/
  worker,      \* the process that holds worker.lock
  late,        \* completions the Hub received and has not carried out
  authorized,  \* the Hub accepts the device's credential
  retired,     \* recordings named by the last completion report
  faults,
  history      \* history: what happened to a recording or its upload

outbox == <<source, row, disk, worker, late, retired>>
vars == <<status, staged, asked, source, row, disk, worker, late, authorized,
          retired, faults, history>>

-----------------------------------------------------------------------------
Settled == Terminal \cup {"incident"}

Row == [status  : {"absent", "pending", "auth_blocked"} \cup Settled,
        waiting : BOOLEAN,                     \* retry_at is in the future
        content : BOOLEAN,                     \* content_id is set
        anchor  : {"none", "no_upload", "upload"}]       \* auth_context

Disk == [bundle   : BOOLEAN,
         transfer : BOOLEAN,
         attempt  : BOOLEAN,                   \* the upload id is persisted
         receipt  : {"none"} \cup Terminal]

Sources == {"none", "recording", "interrupted", "sealed", "malformed",
            "changed"}

Calls == {"status", "intent", "fetch", "put", "complete"}
PCs   == {"down", "idle", "pack", "check", "file", "commit"} \cup Calls

\* What may end a delivery, apart from the recording itself.
Causes == {"tool", "full", "failed", "revoked", "late"}

NoRow  == [status |-> "absent", waiting |-> FALSE, content |-> FALSE,
           anchor |-> "none"]
NoDisk == [bundle |-> FALSE, transfer |-> FALSE, attempt |-> FALSE,
           receipt |-> "none"]

Worker(p, s) == worker' = [pc |-> p, at |-> s]
Idle == [pc |-> "idle", at |-> "none"]
Down == [pc |-> "down", at |-> "none"]
At(p, s) == worker = [pc |-> p, at |-> s]

Init ==
  /\ ReceptionInit
  /\ source = [s \in Uploads |-> "none"]
  /\ row = [s \in Uploads |-> NoRow]
  /\ disk = [s \in Uploads |-> NoDisk]
  /\ worker = Down
  /\ late = {}
  /\ authorized = TRUE
  /\ retired = {}
  /\ faults = 0
  /\ history = [s \in Uploads |-> {}]

hub == receptionVars
world == <<source, late, authorized, retired, faults, history>>

Fault == faults < MaxFaults /\ faults' = faults + 1
Remember(s, c) == history' = [history EXCEPT ![s] = @ \cup {c}]

-----------------------------------------------------------------------------
(* Recordings (external: the annotator in the game).                       *)

Turns(s, from, to) ==
  /\ source[s] \in from
  /\ source' = [source EXCEPT ![s] = to]
  /\ UNCHANGED <<hub, row, disk, worker, late, authorized, retired, history>>

BeginRecording(s) == Turns(s, {"none"}, "recording") /\ UNCHANGED faults
Seal(s) == Turns(s, {"recording"}, "sealed") /\ UNCHANGED faults
GameDies(s) ==
  Fault /\ \E d \in {"interrupted", "malformed"} : Turns(s, {"recording"}, d)

\* Any later change of an enrolled recording.
ChangeSource(s) ==
  row[s].status # "absent" /\ Fault /\ Turns(s, {"sealed"}, "changed")

Recording(s) == BeginRecording(s) \/ Seal(s) \/ GameDies(s) \/ ChangeSource(s)

-----------------------------------------------------------------------------
(* One round of the worker: discovery, then attempts in the order of keys. *)

Enrolled(s) ==
  [NoRow EXCEPT !.status = IF source[s] = "malformed" THEN "incident"
                           ELSE "pending"]

New(s) == source[s] \in {"sealed", "malformed"} /\ row[s].status = "absent"

\* One transaction for every new seal.
Reconcile ==
  /\ worker = Idle
  /\ \E s \in Uploads : New(s)
  /\ row' = [s \in Uploads |-> IF New(s) THEN Enrolled(s) ELSE row[s]]
  /\ UNCHANGED <<hub, disk, worker, world>>

\* The recorder's own tool seals a copy of a recording whose owner is gone;
\* the copy is one more recording directory with the same content.
RecoverInterrupted(s) ==
  /\ worker = Idle
  /\ source[s] = "interrupted"
  /\ source' = [source EXCEPT ![s] = "sealed"]
  /\ UNCHANGED <<hub, row, disk, worker, late, authorized, retired, faults,
                 history>>

\* Bug_... operators are wrong variants of the definition that follows them.
\* No specification uses them; they show that a property notices the bug.
Bug_Due(s) == row[s].status = "pending" /\ ~row[s].waiting /\ ~row[s].content

Due(s) == row[s].status = "pending" /\ ~row[s].waiting

DrainOne(s) ==
  /\ worker = Idle
  /\ Due(s)
  /\ \A r \in Uploads : Due(r) => Rank[s] =< Rank[r]
  /\ Worker("pack", s)
  /\ UNCHANGED <<hub, row, disk, world>>

\* How an attempt ends: one update of the row, and the transaction commits.
Ends(s, r) == worker' = Idle /\ row' = [row EXCEPT ![s] = r]

Incident(s) == Ends(s, [row[s] EXCEPT !.status = "incident"])

Bug_RetryLater(s) == Incident(s)

RetryLater(s) == Ends(s, [row[s] EXCEPT !.waiting = TRUE])

ReceiverPending(s) ==
  Ends(s, [row[s] EXCEPT !.waiting = TRUE, !.content = TRUE])

AuthBlocked(s) ==
  Ends(s, [row[s] EXCEPT !.status = "auth_blocked", !.content = TRUE,
                         !.anchor = IF disk[s].attempt THEN "upload"
                                    ELSE "no_upload"])

\* The wait until the next attempt ends.
RetryDue(s) ==
  /\ row[s].waiting
  /\ row' = [row EXCEPT ![s].waiting = FALSE]
  /\ UNCHANGED <<hub, disk, worker, world>>

-----------------------------------------------------------------------------
(* Local preparation.                                                      *)

\* An existing bundle is used as it is.
Pack(s) ==
  /\ At("pack", s)
  /\ \/ source[s] # "sealed" /\ Incident(s) /\ UNCHANGED <<disk, world>>
     \/ /\ source[s] = "sealed"
        /\ disk' = [disk EXCEPT ![s].bundle = TRUE]
        /\ Worker("check", s)
        /\ UNCHANGED <<row, world>>
     \/ /\ source[s] = "sealed" /\ ~disk[s].bundle      \* audit or tool failure
        /\ Fault /\ Remember(s, "tool")
        /\ Incident(s)
        /\ UNCHANGED <<disk, source, late, authorized, retired>>
  /\ UNCHANGED hub

FirstCall(s) == IF disk[s].attempt THEN "status" ELSE "intent"

\* The source again, then the prepared identity: never a second one.
Check(s) ==
  /\ At("check", s)
  /\ \/ /\ source[s] # "sealed" \/ (row[s].content /\ ~disk[s].transfer)
        /\ Incident(s) /\ UNCHANGED disk
     \/ /\ source[s] = "sealed"
        /\ row[s].content => disk[s].transfer
        /\ disk' = [disk EXCEPT ![s].transfer = TRUE]
        /\ Worker(FirstCall(s), s)
        /\ UNCHANGED row
  /\ UNCHANGED <<hub, world>>

-----------------------------------------------------------------------------
(* Requests to the Hub.                                                    *)

\* The upload identity is durable before a body leaves the computer.
Bug_Observed(s) == UNCHANGED disk

Observed(s) == disk' = [disk EXCEPT ![s].attempt = TRUE]

\* What the worker does with an answered status.
Disposition(s, st, awaiting) ==
  \/ st = "transfer_failed" /\ Incident(s)
  \/ st = "verification_pending" /\ ReceiverPending(s)
  \/ st \in Terminal /\ Worker("file", s) /\ UNCHANGED row
  \/ st = "awaiting_upload" /\ Worker(awaiting, s) /\ UNCHANGED row

Answered(s) == authorized /\ UNCHANGED <<world, disk>>

GetStatus(s) ==
  /\ At("status", s) /\ Answered(s)
  /\ Disposition(s, status[s], "intent")
  /\ UNCHANGED hub

\* An intent for a known upload answers its row; the queue limit is a 409.
PostIntent(s) ==
  /\ At("intent", s)
  /\ authorized
  /\ \/ /\ Create(s)
        /\ Observed(s) /\ Worker("put", s)
        /\ UNCHANGED <<row, world>>
     \/ /\ status[s] = "absent" /\ ~HasRoom(s)
        /\ Remember(s, "full")
        /\ Incident(s)
        /\ UNCHANGED <<hub, disk, source, late, authorized, retired, faults>>
     \/ /\ status[s] # "absent"
        /\ Observed(s)
        /\ IF status[s] \in Terminal THEN Worker("fetch", s) /\ UNCHANGED row
           ELSE Disposition(s, status[s], "put")
        /\ UNCHANGED <<hub, world>>

\* The receipt of an upload whose intent answered a terminal status.
FetchReceipt(s) ==
  /\ At("fetch", s) /\ Answered(s)
  /\ Disposition(s, status[s], "put")
  /\ UNCHANGED hub

\* A body is refused when the upload is sealed or the device revoked: the PUT
\* is not a Hub API call, so that neither answer is an authentication block.
PutBody(s) ==
  /\ At("put", s)
  /\ \/ /\ authorized /\ status[s] = "awaiting_upload"
        /\ \/ Store(s, Body[s])
           \/ staged[s] # "none" /\ UNCHANGED hub        \* the same bytes
        /\ Worker("complete", s)
        /\ UNCHANGED <<row, disk, world>>
     \/ /\ ~authorized \/ status[s] # "awaiting_upload"
        /\ Incident(s)
        /\ UNCHANGED <<hub, disk, world>>

\* Completing an upload twice changes nothing; its status is the answer.
PostComplete(s) ==
  /\ At("complete", s) /\ Answered(s)
  /\ \/ Complete(s) /\ ReceiverPending(s)
     \/ /\ status[s] # "awaiting_upload"
        /\ Disposition(s, status[s], "complete")
        /\ UNCHANGED hub

\* 401 or 403 from a Hub API call.
Rejected(s) ==
  /\ \E c \in Calls \ {"put"} : At(c, s)
  /\ ~authorized
  /\ AuthBlocked(s)
  /\ UNCHANGED <<hub, disk, world>>

\* Refused for now (5xx, 408, 429), timed out or unreachable.  The Hub may
\* have done what was asked, or may still do it: a completion can be late.
Lost(s) ==
  /\ \E c \in Calls : At(c, s)
  /\ Fault
  /\ \/ UNCHANGED <<hub, late>>
     \/ At("intent", s) /\ authorized /\ Create(s) /\ UNCHANGED late
     \/ /\ At("put", s) /\ authorized /\ status[s] = "awaiting_upload"
        /\ Store(s, Body[s])
        /\ UNCHANGED late
     \/ At("complete", s) /\ authorized /\ Complete(s) /\ UNCHANGED late
     \/ At("complete", s) /\ late' = late \cup {s} /\ UNCHANGED hub
  /\ RetryLater(s)
  /\ UNCHANGED <<disk, source, authorized, retired, history>>

LateCompletion(s) ==
  /\ s \in late
  /\ late' = late \ {s}
  /\ \/ authorized /\ Complete(s)
     \/ ~(authorized /\ status[s] = "awaiting_upload") /\ UNCHANGED hub
  /\ Remember(s, "late")
  /\ UNCHANGED <<source, row, disk, worker, authorized, retired, faults>>

-----------------------------------------------------------------------------
(* The receipt: written to its file, then committed with the row.          *)

FileReceipt(s) ==
  /\ At("file", s)
  /\ disk' = [disk EXCEPT ![s].receipt = status[s]]
  /\ Worker("commit", s)
  /\ UNCHANGED <<hub, row, world>>

Bug_CommitReceipt(s) ==
  /\ At("commit", s)
  /\ Ends(s, [row[s] EXCEPT !.status = "verified", !.content = TRUE])
  /\ UNCHANGED <<hub, disk, world>>

CommitReceipt(s) ==
  /\ At("commit", s)
  /\ Ends(s, [row[s] EXCEPT !.status = disk[s].receipt, !.content = TRUE])
  /\ UNCHANGED <<hub, disk, world>>

-----------------------------------------------------------------------------
(* The worker process, and the operator while it is stopped.               *)

Start ==
  /\ worker = Down
  /\ worker' = Idle
  /\ UNCHANGED <<hub, row, disk, world>>

\* Stopped or killed: the transaction is rolled back, the files stay.
Stop ==
  /\ worker # Down
  /\ Fault
  /\ worker' = Down
  /\ UNCHANGED <<hub, row, disk, source, late, authorized, retired, history>>

Resumable(s) ==
  /\ row[s].status = "auth_blocked"
  /\ disk[s].receipt = "none"
  /\ source[s] = "sealed"
  /\ disk[s].bundle /\ disk[s].transfer
  /\ disk[s].attempt <=> row[s].anchor = "upload"

\* Needs worker.lock, so that the worker is stopped.
ResumeAuth(s) ==
  /\ worker = Down
  /\ Resumable(s)
  /\ row' = [row EXCEPT ![s].status = "pending", ![s].waiting = FALSE]
  /\ UNCHANGED <<hub, disk, worker, world>>

Delivered(s) ==
  source[s] # "none" =>
    /\ source[s] = "sealed"
    /\ row[s].status = "verified"
    /\ disk[s].bundle /\ disk[s].transfer /\ disk[s].attempt
    /\ disk[s].receipt = "verified"

\* The completion report: every recording is sealed, enrolled and verified.
ReportCompletion ==
  /\ worker = Down
  /\ \A s \in Uploads : Delivered(s)
  /\ retired' = {s \in Uploads : source[s] # "none"}
  /\ UNCHANGED <<hub, source, row, disk, worker, late, authorized, faults,
                 history>>

-----------------------------------------------------------------------------
(* The Hub and its operators.                                              *)

Revoke ==
  /\ authorized /\ Fault
  /\ authorized' = FALSE
  /\ history' = [s \in Uploads |-> history[s] \cup {"revoked"}]
  /\ UNCHANGED <<hub, outbox>>

Restore ==
  /\ ~authorized
  /\ authorized' = TRUE
  /\ UNCHANGED <<hub, outbox, faults, history>>

Verifies(s) ==
  /\ \/ Decide(s) /\ UNCHANGED <<faults, history>>
     \/ FailTransfer(s) /\ Fault /\ Remember(s, "failed")
  /\ UNCHANGED <<outbox, authorized>>

VerifiesPending(s) == status[s] = "verification_pending" /\ Verifies(s)

Reopens(s) == Reopen(s) /\ Fault /\ UNCHANGED <<outbox, authorized, history>>

-----------------------------------------------------------------------------
Attempt(s) ==
  \/ Pack(s) \/ Check(s)
  \/ GetStatus(s) \/ PostIntent(s) \/ FetchReceipt(s) \/ PutBody(s)
  \/ PostComplete(s) \/ Rejected(s)
  \/ FileReceipt(s) \/ CommitReceipt(s)

Works == \/ Reconcile
         \/ \E s \in Uploads : RecoverInterrupted(s) \/ DrainOne(s) \/ Attempt(s)

Next ==
  \/ Works \/ Start \/ Stop \/ ReportCompletion \/ Revoke \/ Restore
  \/ \E s \in Uploads :
       \/ Recording(s) \/ RetryDue(s) \/ Lost(s) \/ LateCompletion(s)
       \/ ResumeAuth(s) \/ Verifies(s) \/ Reopens(s)

Spec == Init /\ [][Next]_vars

\* A stopped worker is started again and works; waits end; the Hub verifies.
Fairness ==
  /\ WF_vars(Works) /\ WF_vars(Start)
  /\ WF_vars(Reconcile)
  /\ \A s \in Uploads : /\ WF_vars(RetryDue(s))
                        /\ WF_vars(VerifiesPending(s))
                        /\ SF_vars(DrainOne(s))

FairSpec == Spec /\ Fairness

-----------------------------------------------------------------------------
(* Properties.                                                             *)

\* Rows, files, the worker and the histories stay in their domains.
TypeOK ==
  /\ status \in [Uploads -> Statuses]
  /\ staged \in [Uploads -> {"none"} \cup Bodies]
  /\ asked \subseteq Uploads
  /\ source \in [Uploads -> Sources]
  /\ row \in [Uploads -> Row]
  /\ disk \in [Uploads -> Disk]
  /\ \/ worker \in {Idle, Down}
     \/ \E p \in PCs \ {"idle", "down"}, s \in Uploads : At(p, s)
  /\ late \subseteq Uploads
  /\ authorized \in BOOLEAN
  /\ retired \subseteq Uploads
  /\ faults \in Nat
  /\ history \in [Uploads -> SUBSET Causes]

\* A row is verified or quarantined only with its receipt on disk, that
\* receipt is what the Hub decided, and what a completion report named stays
\* verified on both sides: no crash, lost answer or repeated attempt invents a
\* receipt or takes one back.
ReceiptGenuine ==
  \A s \in Uploads :
    /\ row[s].status \in Terminal => disk[s].receipt = row[s].status
    /\ disk[s].receipt # "none" => status[s] = disk[s].receipt
    /\ s \in retired => row[s].status = "verified" /\ status[s] = "verified"

\* What a later attempt relies on is durable before it matters: the prepared
\* transfer before content_id, the upload before its identity and the identity
\* before the Hub has a body.
IdentityDurable ==
  \A s \in Uploads :
    /\ row[s].content => disk[s].bundle /\ disk[s].transfer
    /\ disk[s].attempt => disk[s].transfer /\ status[s] # "absent"
    /\ staged[s] # "none" => disk[s].attempt

\* Crashes, lost requests and timeouts alone never make a session an incident,
\* which nothing retries: the recording was bad or changed, the tool failed,
\* the queue was full, the Hub failed the transfer or revoked the device, or a
\* completion that was given up was carried out late.
IncidentHasCause ==
  \A s \in Uploads :
    row[s].status = "incident" =>
      source[s] \in {"malformed", "changed"} \/ history[s] # {}

\* Delivery of a sealed recording comes to an end: a receipt, an incident or
\* an authentication block, in spite of crashes and lost messages.
SealedEnds ==
  \A s \in Uploads :
    source[s] = "sealed" ~> row[s].status \notin {"absent", "pending"}

\* An authentication block of an unchanged recording can be resumed.
BlockResumable ==
  \A s \in Uploads :
    row[s].status = "auth_blocked" /\ source[s] = "sealed" => Resumable(s)

-----------------------------------------------------------------------------
(* The inductive invariant behind the safety properties.                   *)

Prepared == Calls \cup {"file", "commit"}

\* What each step of an attempt has secured for the next one.
AttemptOK ==
  \A p \in PCs \ {"idle", "down"}, s \in Uploads : At(p, s) =>
    /\ row[s].status = "pending"
    /\ p # "pack" => disk[s].bundle
    /\ p \in Prepared => disk[s].transfer
    /\ p \in Calls \ {"intent"} => disk[s].attempt
    /\ p = "put" => status[s] = "awaiting_upload" \/ history[s] # {}
    /\ p = "fetch" => status[s] \in Terminal
    /\ p = "complete" => staged[s] # "none"
    /\ p \in {"file", "commit"} => status[s] \in Terminal
    /\ p = "commit" => disk[s].receipt = status[s]

\* A recording is sealed before its row, and a failed, reopened or revoked
\* upload leaves its trace in the history.
HistoryOK ==
  /\ \A s \in Uploads :
       /\ row[s].status # "absent" => source[s] \in {"sealed", "malformed",
                                                    "changed"}
       /\ source[s] = "malformed" => row[s].status \in {"absent", "incident"}
       /\ row[s].status = "incident" /\ source[s] = "sealed" => history[s] # {}
       /\ status[s] = "transfer_failed" => history[s] # {}
       /\ s \in asked => status[s] # "absent"
       /\ s \in asked /\ status[s] = "awaiting_upload" => history[s] # {}
       /\ disk[s].transfer => disk[s].bundle
  /\ ~authorized => \A s \in Uploads : history[s] # {}

\* The parts together are preserved by every step.
DeliveryInv ==
  /\ TypeOK /\ ReceiptGenuine /\ IdentityDurable /\ IncidentHasCause
  /\ AttemptOK /\ HistoryOK
=============================================================================
