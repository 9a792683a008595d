-------------------------- MODULE UploadReception --------------------------
(***************************************************************************)
(* What the Hub promises to a device that delivers recordings, without     *)
(* verifier processes, retries, a clock or faults.  An upload is created   *)
(* once, its bytes are fixed by the first complete body, it is decided by  *)
(* those bytes and at most once, and until then a failed transfer may be   *)
(* opened again by an operator.  HubUploads with staging on the Hub's disk *)
(* implements this module and DeliveryOutbox delivers to it.               *)
(***************************************************************************)
EXTENDS Integers, FiniteSets

CONSTANTS
  Uploads,       \* one per device and content
  Device,        \* Device[u]: the device that owns u
  QueueLimit     \* undecided uploads a device may have when it creates one

VARIABLES
  status,        \* what the Hub answers about an upload
  staged,        \* the bytes it keeps for it
  asked          \* uploads whose verification was requested

receptionVars == <<status, staged, asked>>

Bodies   == {"good", "bad"}
Terminal == {"verified", "quarantined"}
Statuses == {"absent", "awaiting_upload", "verification_pending",
             "transfer_failed"} \cup Terminal

ReceptionInit ==
  /\ status = [u \in Uploads |-> "absent"]
  /\ staged = [u \in Uploads |-> "none"]
  /\ asked = {}

Undecided(d) == {u \in Uploads : /\ Device[u] = d
                                 /\ status[u] \in {"awaiting_upload",
                                                   "verification_pending"}}

HasRoom(u) == Cardinality(Undecided(Device[u])) < QueueLimit

Becomes(u, s) == status' = [status EXCEPT ![u] = s] /\ UNCHANGED staged

Create(u) ==
  /\ status[u] = "absent"
  /\ HasRoom(u)
  /\ Becomes(u, "awaiting_upload")
  /\ UNCHANGED asked

\* A body is written after its request was admitted, whatever the upload has
\* become; the first complete one stays.
Store(u, b) ==
  /\ status[u] # "absent"
  /\ staged[u] = "none"
  /\ staged' = [staged EXCEPT ![u] = b]
  /\ UNCHANGED <<status, asked>>

Complete(u) ==
  /\ status[u] = "awaiting_upload"
  /\ Becomes(u, "verification_pending")
  /\ asked' = asked \cup {u}

OutcomeOf(b) == IF b = "good" THEN "verified" ELSE "quarantined"

\* A slow verifier may decide an upload that failed, or was opened again.
Decide(u) ==
  /\ u \in asked
  /\ status[u] \notin Terminal
  /\ staged[u] # "none"
  /\ Becomes(u, OutcomeOf(staged[u]))
  /\ UNCHANGED asked

FailTransfer(u) ==
  /\ status[u] = "verification_pending"
  /\ Becomes(u, "transfer_failed")
  /\ UNCHANGED asked

Reopen(u) ==
  /\ status[u] = "transfer_failed"
  /\ Becomes(u, "awaiting_upload")
  /\ UNCHANGED asked

ReceptionNext ==
  \E u \in Uploads :
    \/ Create(u) \/ Complete(u) \/ Decide(u) \/ FailTransfer(u) \/ Reopen(u)
    \/ \E b \in Bodies : Store(u, b)

ReceptionSpec == ReceptionInit /\ [][ReceptionNext]_receptionVars
=============================================================================
