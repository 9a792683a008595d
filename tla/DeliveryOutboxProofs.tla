------------------------ MODULE DeliveryOutboxProofs ------------------------
(***************************************************************************)
(* Proofs about delivery: DeliveryInv is inductive, so that receipts are   *)
(* genuine, identities durable and incidents caused, for any recordings,   *)
(* limits and number of faults.                                            *)
(***************************************************************************)
EXTENDS DeliveryOutbox, TLAPS

USE DeliveryConstantsOK

\* The names every step below needs.
USE DEF Row, Disk, Sources, Causes, Statuses, Terminal, Settled, Bodies,
        Calls, PCs, At, Idle, Down, Worker, hub, world, receptionVars,
        Becomes, Prepared

\* What a history may become.
LEMMA GrownHistory ==
  ASSUME TypeOK, NEW s \in Uploads, NEW c \in Causes
  PROVE  history[s] \cup {c} \in SUBSET Causes
<1>1. history[s] \in SUBSET Causes
  BY DEF TypeOK
<1> DEFINE C == Causes
<1>2. history[s] \subseteq C /\ c \in C
  BY <1>1
<1> HIDE DEF C
<1>3. history[s] \cup {c} \in SUBSET C
  BY <1>2
<1> QED BY <1>3 DEF C

LEMMA InitDelivery == Init => DeliveryInv
BY DEF Init, ReceptionInit, NoRow, NoDisk, DeliveryInv, TypeOK, ReceiptGenuine,
       IdentityDurable, IncidentHasCause, AttemptOK, HistoryOK

\* The Hub's own steps.
LEMMA HubStep ==
  ASSUME DeliveryInv, NEW s \in Uploads, Verifies(s) \/ Reopens(s)
  PROVE  DeliveryInv'
<1> USE DEF DeliveryInv
<1>0. CASE Verifies(s) /\ Decide(s)
  <2> DEFINE o == OutcomeOf(staged[s])
  <2>1. /\ status' = [status EXCEPT ![s] = o]
        /\ o \in Terminal
        /\ status[s] \notin Terminal
        /\ UNCHANGED <<staged, asked, source, row, disk, worker, late,
                       authorized, retired, faults, history>>
    BY <1>0 DEF Verifies, Decide, FailTransfer, OutcomeOf, outbox, TypeOK
  <2>2. s \in asked /\ staged[s] # "none"
    BY <1>0 DEF Decide
  <2> HIDE DEF o
  <2>3. TypeOK'
    BY <2>1 DEF TypeOK
  <2>4. ReceiptGenuine' /\ IdentityDurable' /\ IncidentHasCause'
    BY <2>1 DEF TypeOK, ReceiptGenuine, IdentityDurable, IncidentHasCause
  <2>5. AttemptOK'
    BY <2>1, <2>2 DEF TypeOK, AttemptOK, HistoryOK
  <2>6. HistoryOK'
    BY <2>1 DEF TypeOK, HistoryOK
  <2> QED BY <2>3, <2>4, <2>5, <2>6
<1>1. CASE Verifies(s) /\ ~Decide(s)
  <2>1. /\ status' = [status EXCEPT ![s] = "transfer_failed"]
        /\ status[s] = "verification_pending"
        /\ history' = [history EXCEPT ![s] = @ \cup {"failed"}]
        /\ faults' = faults + 1
        /\ UNCHANGED <<staged, asked, source, row, disk, worker, late,
                       authorized, retired>>
    BY <1>1 DEF Verifies, FailTransfer, Fault, Remember, outbox
  <2>2. TypeOK'
    BY <2>1 DEF TypeOK
  <2>3. ReceiptGenuine' /\ IdentityDurable' /\ IncidentHasCause'
    BY <2>1 DEF TypeOK, ReceiptGenuine, IdentityDurable, IncidentHasCause
  <2>4. \A r \in Uploads : history[r] # {} => history'[r] # {}
    BY <2>1 DEF TypeOK
  <2>5. history'[s] # {}
    BY <2>1 DEF TypeOK
  <2>6. AttemptOK' /\ HistoryOK'
    BY <2>1, <2>4, <2>5 DEF TypeOK, AttemptOK, HistoryOK
  <2> QED BY <2>2, <2>3, <2>6
<1>2. CASE Reopens(s)
  <2>1. /\ status' = [status EXCEPT ![s] = "awaiting_upload"]
        /\ status[s] = "transfer_failed"
        /\ faults' = faults + 1
        /\ UNCHANGED <<staged, asked, source, row, disk, worker, late,
                       authorized, retired, history>>
    BY <1>2 DEF Reopens, Reopen, Fault, outbox
  <2>2. TypeOK'
    BY <2>1 DEF TypeOK
  <2>3. ReceiptGenuine' /\ IdentityDurable' /\ IncidentHasCause'
    BY <2>1 DEF TypeOK, ReceiptGenuine, IdentityDurable, IncidentHasCause
  <2>4. AttemptOK' /\ HistoryOK'
    BY <2>1 DEF TypeOK, AttemptOK, HistoryOK
  <2> QED BY <2>2, <2>3, <2>4
<1> QED BY <1>0, <1>1, <1>2

\* Steps that change neither uploads nor rows nor files.
LEMMA WorldStep ==
  ASSUME DeliveryInv,
         \/ Start \/ Stop \/ ReportCompletion \/ Revoke \/ Restore
         \/ \E s \in Uploads : Recording(s) \/ RecoverInterrupted(s) \/ DrainOne(s)
  PROVE  DeliveryInv'
<1> USE DEF DeliveryInv
<1>1. CASE Start \/ Stop
  BY <1>1 DEF Start, Stop, Fault, TypeOK, ReceiptGenuine, IdentityDurable,
     IncidentHasCause, AttemptOK, HistoryOK
<1>2. CASE ReportCompletion
  BY <1>2 DEF ReportCompletion, Delivered, TypeOK, ReceiptGenuine,
     IdentityDurable, IncidentHasCause, AttemptOK, HistoryOK
<1>3. CASE Revoke
  <2>1. /\ history' = [s \in Uploads |-> history[s] \cup {"revoked"}]
        /\ authorized' = FALSE
        /\ faults' = faults + 1
        /\ UNCHANGED <<status, staged, asked, source, row, disk, worker, late,
                       retired>>
    BY <1>3 DEF Revoke, Fault, outbox
  <2>2. \A s \in Uploads : history'[s] # {}
    BY <2>1
  <2>3. TypeOK'
    <3>1. ASSUME NEW s \in Uploads PROVE history'[s] \in SUBSET Causes
      <4>1. "revoked" \in Causes
        OBVIOUS
      <4>2. history[s] \cup {"revoked"} \in SUBSET Causes
        BY <4>1, GrownHistory
      <4>3. history'[s] = history[s] \cup {"revoked"}
        BY <2>1
      <4> QED BY <4>2, <4>3, Zenon
    <3>2. history' \in [Uploads -> SUBSET Causes]
      BY <2>1, <3>1
    <3>3. /\ authorized' = FALSE
          /\ faults' = faults + 1
          /\ UNCHANGED <<status, staged, asked, source, row, disk, worker,
                         late, retired>>
      BY <2>1
    <3>4. authorized' \in BOOLEAN
      BY <3>3, Zenon
    <3>7. faults' \in Nat
      BY <3>3 DEF TypeOK
    <3>5. \/ worker' \in {Idle, Down}
          \/ \E p \in PCs \ {"idle", "down"}, s \in Uploads : At(p, s)'
      <4>1. worker' = worker
        BY <3>3
      <4>2. CASE worker \in {Idle, Down}
        BY <4>1, <4>2
      <4>3. CASE \E p \in PCs \ {"idle", "down"}, s \in Uploads : At(p, s)
        <5>1. PICK p \in PCs \ {"idle", "down"}, s \in Uploads : At(p, s)
          BY <4>3
        <5>2. At(p, s)'
          BY <4>1, <5>1
        <5> QED BY <5>2
      <4> QED BY <4>2, <4>3 DEF TypeOK
    <3>6. /\ status' \in [Uploads -> Statuses]
          /\ staged' \in [Uploads -> {"none"} \cup Bodies]
          /\ asked' \subseteq Uploads
          /\ source' \in [Uploads -> Sources]
          /\ row' \in [Uploads -> Row]
          /\ disk' \in [Uploads -> Disk]
          /\ late' \subseteq Uploads /\ retired' \subseteq Uploads
      BY <3>3 DEF TypeOK
    <3> QED BY <3>2, <3>4, <3>5, <3>6, <3>7, Zenon DEF TypeOK
  <2>4. ReceiptGenuine' /\ IdentityDurable' /\ IncidentHasCause'
    BY <2>1, <2>2 DEF ReceiptGenuine, IdentityDurable, IncidentHasCause
  <2>5. AttemptOK' /\ HistoryOK'
    BY <2>1, <2>2 DEF AttemptOK, HistoryOK
  <2> QED BY <2>3, <2>4, <2>5
<1>4. CASE Restore
  BY <1>4 DEF Restore, outbox, TypeOK, ReceiptGenuine, IdentityDurable,
     IncidentHasCause, AttemptOK, HistoryOK
<1>5. ASSUME NEW s \in Uploads, Recording(s) \/ RecoverInterrupted(s)
      PROVE  DeliveryInv'
  <2>1. PICK to \in Sources :
          /\ source' = [source EXCEPT ![s] = to]
          /\ \/ source[s] \in {"none", "recording", "interrupted"}
             \/ /\ source[s] = "sealed" /\ to = "changed"
                /\ row[s].status # "absent"
          /\ faults' \in Nat
          /\ UNCHANGED <<status, staged, asked, row, disk, worker, late,
                         authorized, retired, history>>
    <3>1. CASE BeginRecording(s)
      BY <3>1 DEF BeginRecording, Turns, TypeOK
    <3>2. CASE Seal(s)
      BY <3>2 DEF Seal, Turns, TypeOK
    <3>3. CASE GameDies(s)
      <4>1. PICK d \in {"interrupted", "malformed"} :
              Turns(s, {"recording"}, d)
        BY <3>3 DEF GameDies
      <4>2. faults' \in Nat
        BY <3>3 DEF GameDies, Fault, TypeOK
      <4>3. WITNESS d \in Sources
      <4> QED BY <4>1, <4>2 DEF Turns
    <3>4. CASE ChangeSource(s)
      BY <3>4 DEF ChangeSource, Turns, Fault, TypeOK
    <3>5. CASE RecoverInterrupted(s)
      BY <3>5 DEF RecoverInterrupted, TypeOK
    <3> QED BY <1>5, <3>1, <3>2, <3>3, <3>4, <3>5 DEF Recording
  <2>2. TypeOK'
    BY <2>1 DEF TypeOK
  <2>3. ReceiptGenuine' /\ IdentityDurable' /\ AttemptOK'
    BY <2>1 DEF ReceiptGenuine, IdentityDurable, AttemptOK
  <2>4. source[s] \in {"none", "recording", "interrupted"}
          => row[s].status = "absent"
    BY DEF HistoryOK
  <2>5. IncidentHasCause'
    BY <2>1, <2>4 DEF TypeOK, IncidentHasCause
  <2>6. HistoryOK'
    BY <2>1, <2>4 DEF TypeOK, HistoryOK
  <2> QED BY <2>2, <2>3, <2>5, <2>6
<1>6. ASSUME NEW s \in Uploads, DrainOne(s) PROVE DeliveryInv'
  <2>1. /\ worker' = [pc |-> "pack", at |-> s] /\ row[s].status = "pending"
        /\ UNCHANGED <<hub, row, disk, world>>
    BY <1>6 DEF DrainOne, Due
  <2>2. TypeOK'
    BY <2>1 DEF TypeOK
  <2>3. ReceiptGenuine' /\ IdentityDurable' /\ IncidentHasCause'
    BY <2>1 DEF ReceiptGenuine, IdentityDurable, IncidentHasCause
  <2>4. AttemptOK'
    BY <2>1 DEF AttemptOK
  <2>5. HistoryOK'
    BY <2>1 DEF HistoryOK
  <2> QED BY <2>2, <2>3, <2>4, <2>5
<1> QED BY <1>1, <1>2, <1>3, <1>4, <1>5, <1>6

\* What a request may do to the uploads, whatever becomes of its answer.
HubMoves ==
  /\ status' \in [Uploads -> Statuses]
  /\ staged' \in [Uploads -> {"none"} \cup Bodies]
  /\ asked' \subseteq Uploads
  /\ \A u \in Uploads :
       /\ status[u] \in Terminal => status'[u] = status[u]
       /\ status[u] # "absent" => status'[u] # "absent"
       /\ staged'[u] # "none" => disk'[u].attempt
       /\ status'[u] = "transfer_failed" => history'[u] # {}
       /\ u \in asked' => status'[u] # "absent"
       /\ u \in asked' /\ status'[u] = "awaiting_upload" => history'[u] # {}

LEMMA HubStays ==
  ASSUME DeliveryInv, UNCHANGED <<status, staged, asked>>,
         \A u \in Uploads : disk[u].attempt => disk'[u].attempt,
         \A u \in Uploads : history[u] # {} => history'[u] # {}
  PROVE  HubMoves
BY DEF HubMoves, DeliveryInv, TypeOK, IdentityDurable, HistoryOK

LEMMA HubCompletes ==
  ASSUME DeliveryInv, NEW s \in Uploads, Complete(s), UNCHANGED disk,
         \A u \in Uploads : history[u] # {} => history'[u] # {}
  PROVE  HubMoves
<1>1. /\ status' = [status EXCEPT ![s] = "verification_pending"]
      /\ status[s] = "awaiting_upload"
      /\ staged' = staged
      /\ asked' = asked \cup {s}
  BY DEF Complete
<1>2. /\ status' \in [Uploads -> Statuses]
      /\ staged' \in [Uploads -> {"none"} \cup Bodies]
      /\ asked' \subseteq Uploads
  BY <1>1 DEF DeliveryInv, TypeOK
<1>3. \A u \in Uploads : status'[u] = IF u = s THEN "verification_pending"
                                       ELSE status[u]
  BY <1>1 DEF DeliveryInv, TypeOK
<1> QED
  BY <1>1, <1>2, <1>3 DEF HubMoves, DeliveryInv, IdentityDurable, HistoryOK

LEMMA HubStores ==
  ASSUME DeliveryInv, NEW s \in Uploads, Store(s, Body[s]),
         disk[s].attempt, UNCHANGED <<disk, history>>
  PROVE  HubMoves
<1>1. /\ staged' = [staged EXCEPT ![s] = Body[s]]
      /\ UNCHANGED <<status, asked>>
  BY DEF Store
<1>2. Body[s] \in Bodies
  OBVIOUS
<1> QED
  BY <1>1, <1>2 DEF HubMoves, DeliveryInv, TypeOK, IdentityDurable, HistoryOK

LEMMA HubCreates ==
  ASSUME DeliveryInv, NEW s \in Uploads, Create(s),
         \A u \in Uploads : disk[u].attempt => disk'[u].attempt,
         UNCHANGED history
  PROVE  /\ HubMoves
         /\ status' = [status EXCEPT ![s] = "awaiting_upload"]
<1>1. /\ status' = [status EXCEPT ![s] = "awaiting_upload"]
      /\ status[s] = "absent"
      /\ UNCHANGED <<staged, asked>>
  BY DEF Create
<1>2. s \notin asked
  BY <1>1 DEF DeliveryInv, HistoryOK
<1> QED
  BY <1>1, <1>2 DEF HubMoves, DeliveryInv, TypeOK, IdentityDurable, HistoryOK

\* An attempt that ends may have learned the upload's identity, no more.
DiskKept ==
  /\ disk' \in [Uploads -> Disk]
  /\ \A u \in Uploads :
       /\ disk'[u].bundle = disk[u].bundle
       /\ disk'[u].transfer = disk[u].transfer
       /\ disk'[u].receipt = disk[u].receipt
       /\ disk'[u].attempt => disk'[u].transfer /\ status'[u] # "absent"

LEMMA UnchangedIsKept ==
  ASSUME DeliveryInv, HubMoves, UNCHANGED disk
  PROVE  DiskKept
BY DEF DiskKept, HubMoves, DeliveryInv, TypeOK, IdentityDurable

LEMMA ObservedIsKept ==
  ASSUME DeliveryInv, HubMoves, NEW s \in Uploads, Observed(s),
         disk[s].transfer, status'[s] # "absent"
  PROVE  DiskKept
<1> DEFINE d == [disk[s] EXCEPT !.attempt = TRUE]
<1>1. /\ d \in Disk
      /\ d.bundle = disk[s].bundle
      /\ d.transfer = disk[s].transfer
      /\ d.receipt = disk[s].receipt
  BY DEF DeliveryInv, TypeOK
<1>2. disk' = [disk EXCEPT ![s] = d]
  BY DEF Observed
<1> HIDE DEF d
<1>3. /\ disk' \in [Uploads -> Disk]
      /\ \A u \in Uploads : disk'[u] = IF u = s THEN d ELSE disk[u]
  BY <1>1, <1>2 DEF DeliveryInv, TypeOK
<1> QED BY <1>1, <1>3 DEF DiskKept, HubMoves, DeliveryInv, IdentityDurable

\* An attempt ends: the row gets its last update and the worker is idle.
LEMMA EndStep ==
  ASSUME DeliveryInv, HubMoves, NEW s \in Uploads, NEW r \in Row,
         worker' = Idle, row' = [row EXCEPT ![s] = r],
         DiskKept, UNCHANGED <<source, authorized, retired>>,
         late' \subseteq Uploads, faults' \in Nat,
         history' \in [Uploads -> SUBSET Causes],
         \A u \in Uploads : history[u] # {} => history'[u] # {},
         row[s].status = "pending", r.status # "absent",
         r.status \in Terminal => disk[s].receipt = r.status,
         r.content => disk[s].bundle /\ disk[s].transfer,
         r.status = "incident" => source[s] = "changed" \/ history'[s] # {}
  PROVE  DeliveryInv'
<1> USE DEF DeliveryInv
<1>1. /\ row' \in [Uploads -> Row]
      /\ \A u \in Uploads : row'[u] = IF u = s THEN r ELSE row[u]
  BY DEF TypeOK
<1>2. TypeOK'
  BY <1>1 DEF TypeOK, HubMoves, DiskKept
<1>3. ReceiptGenuine'
  BY <1>1 DEF TypeOK, HubMoves, DiskKept, ReceiptGenuine
<1>4. IdentityDurable'
  BY <1>1 DEF TypeOK, HubMoves, DiskKept, IdentityDurable
<1>5. IncidentHasCause'
  <2>1. ASSUME NEW u \in Uploads, row'[u].status = "incident"
        PROVE  source'[u] \in {"malformed", "changed"} \/ history'[u] # {}
    BY <1>1, <2>1 DEF IncidentHasCause
  <2> QED BY <2>1 DEF IncidentHasCause
<1>6. AttemptOK'
  <2>1. ASSUME NEW p \in PCs \ {"idle", "down"}, NEW u \in Uploads, At(p, u)'
        PROVE  FALSE
    <3>1. worker'.pc = p /\ worker'.pc = "idle"
      BY <2>1
    <3> QED BY <3>1
  <2> QED BY <2>1 DEF AttemptOK
<1>7. HistoryOK'
  <2>1. ~authorized' => \A u \in Uploads : history'[u] # {}
    BY DEF HistoryOK
  <2>2. ASSUME NEW u \in Uploads
        PROVE  /\ row'[u].status # "absent"
                    => source[u] \in {"sealed", "malformed", "changed"}
               /\ source[u] = "malformed"
                    => row'[u].status \in {"absent", "incident"}
               /\ row'[u].status = "incident" /\ source[u] = "sealed"
                    => history'[u] # {}
    BY <1>1 DEF HistoryOK
  <2>3. \A u \in Uploads : u \in asked' => status'[u] # "absent"
    BY DEF HubMoves
  <2>4. \A u \in Uploads : disk'[u].transfer => disk'[u].bundle
    BY DEF DiskKept, HistoryOK
  <2> QED BY <2>1, <2>2, <2>3, <2>4 DEF HubMoves, HistoryOK
<1> QED BY <1>2, <1>3, <1>4, <1>5, <1>6, <1>7

\* The attempt goes on with its next step p.
LEMMA GoOnStep ==
  ASSUME DeliveryInv, HubMoves, NEW s \in Uploads,
         NEW p \in PCs \ {"idle", "down"}, worker' = [pc |-> p, at |-> s],
         NEW d \in Disk, disk' = [disk EXCEPT ![s] = d],
         UNCHANGED <<row, source, late, authorized, retired, faults, history>>,
         row[s].status = "pending",
         disk[s].bundle => d.bundle, disk[s].transfer => d.transfer,
         d.transfer => d.bundle,
         d.attempt => d.transfer /\ status'[s] # "absent",
         d.receipt # "none" => status'[s] = d.receipt,
         p # "pack" => d.bundle,
         p \in Prepared => d.transfer,
         p \in Calls \ {"intent"} => d.attempt,
         p = "put" => status'[s] = "awaiting_upload" \/ history[s] # {},
         p = "fetch" => status'[s] \in Terminal,
         p = "complete" => staged'[s] # "none",
         p \in {"file", "commit"} => status'[s] \in Terminal,
         p = "commit" => d.receipt = status'[s]
  PROVE  DeliveryInv'
<1> USE DEF DeliveryInv
<1>1. /\ disk' \in [Uploads -> Disk]
      /\ \A u \in Uploads : disk'[u] = IF u = s THEN d ELSE disk[u]
  BY DEF TypeOK
<1>2. TypeOK'
  <2>1. \E q \in PCs \ {"idle", "down"}, u \in Uploads : At(q, u)'
    OBVIOUS
  <2>2. /\ status' \in [Uploads -> Statuses]
        /\ staged' \in [Uploads -> {"none"} \cup Bodies]
        /\ asked' \subseteq Uploads
        /\ source' \in [Uploads -> Sources]
        /\ row' \in [Uploads -> Row]
        /\ late' \subseteq Uploads /\ retired' \subseteq Uploads
        /\ faults' \in Nat
    BY DEF TypeOK, HubMoves
  <2>3. authorized' \in BOOLEAN
    BY Zenon DEF TypeOK
  <2>4. history' \in [Uploads -> SUBSET Causes]
    BY Zenon DEF TypeOK
  <2> QED BY <1>1, <2>1, <2>2, <2>3, <2>4, Zenon DEF TypeOK
<1>3. ReceiptGenuine'
  BY <1>1 DEF TypeOK, HubMoves, ReceiptGenuine
<1>4. IdentityDurable'
  <2>1. \A u \in Uploads : staged'[u] # "none" => disk'[u].attempt
    BY DEF HubMoves
  <2>2. ASSUME NEW u \in Uploads
        PROVE  /\ row'[u].content => disk'[u].bundle /\ disk'[u].transfer
               /\ disk'[u].attempt => disk'[u].transfer /\ status'[u] # "absent"
    BY <1>1 DEF HubMoves, IdentityDurable
  <2> QED BY <2>1, <2>2 DEF IdentityDurable
<1>5. IncidentHasCause'
  BY DEF IncidentHasCause
<1>6. AttemptOK'
  <2>1. ASSUME NEW q \in PCs \ {"idle", "down"}, NEW u \in Uploads, At(q, u)'
        PROVE  q = p /\ u = s
    <3>1. worker'.pc = p /\ worker'.pc = q /\ worker'.at = s /\ worker'.at = u
      BY <2>1
    <3> QED BY <3>1
  <2>2. disk'[s] = d
    BY <1>1
  <2> QED BY <2>1, <2>2 DEF AttemptOK
<1>7. HistoryOK'
  <2>1. ~authorized' => \A u \in Uploads : history'[u] # {}
    BY DEF HistoryOK
  <2>2. \A u \in Uploads : disk'[u].transfer => disk'[u].bundle
    BY <1>1 DEF HistoryOK
  <2> QED BY <2>1, <2>2 DEF HubMoves, HistoryOK
<1> QED BY <1>2, <1>3, <1>4, <1>5, <1>6, <1>7

\* The row that each kind of end writes.
LEMMA RowEnds ==
  ASSUME DeliveryInv, HubMoves, NEW s \in Uploads,
         row[s].status = "pending", disk[s].bundle, disk[s].transfer,
         DiskKept, UNCHANGED <<source, authorized, retired>>,
         late' \subseteq Uploads, faults' \in Nat,
         history' \in [Uploads -> SUBSET Causes],
         \A u \in Uploads : history[u] # {} => history'[u] # {},
         \/ RetryLater(s) \/ ReceiverPending(s) \/ AuthBlocked(s)
         \/ Incident(s) /\ (source[s] = "changed" \/ history'[s] # {})
  PROVE  DeliveryInv'
<1>0. row[s] \in Row
  BY DEF DeliveryInv, TypeOK
<1>1. CASE RetryLater(s)
  <2> DEFINE r == [row[s] EXCEPT !.waiting = TRUE]
  <2>1. r \in Row /\ r.status = "pending" /\ r.content = row[s].content
    BY <1>0
  <2>2. worker' = Idle /\ row' = [row EXCEPT ![s] = r]
    BY <1>1 DEF RetryLater, Ends
  <2> HIDE DEF r
  <2> QED BY <2>1, <2>2, EndStep
<1>2. CASE ReceiverPending(s)
  <2> DEFINE r == [row[s] EXCEPT !.waiting = TRUE, !.content = TRUE]
  <2>1. r \in Row /\ r.status = "pending"
    BY <1>0
  <2>2. worker' = Idle /\ row' = [row EXCEPT ![s] = r]
    BY <1>2 DEF ReceiverPending, Ends
  <2> HIDE DEF r
  <2> QED BY <2>1, <2>2, EndStep
<1>3. CASE AuthBlocked(s)
  <2> DEFINE a == IF disk[s].attempt THEN "upload" ELSE "no_upload"
             r == [row[s] EXCEPT !.status = "auth_blocked", !.content = TRUE,
                                 !.anchor = a]
  <2>1. r \in Row /\ r.status = "auth_blocked"
    BY <1>0
  <2>2. worker' = Idle /\ row' = [row EXCEPT ![s] = r]
    BY <1>3 DEF AuthBlocked, Ends
  <2> HIDE DEF r, a
  <2> QED BY <2>1, <2>2, EndStep
<1>4. CASE Incident(s) /\ (source[s] = "changed" \/ history'[s] # {})
  <2> DEFINE r == [row[s] EXCEPT !.status = "incident"]
  <2>1. r \in Row /\ r.status = "incident" /\ r.content = row[s].content
    BY <1>0
  <2>2. worker' = Idle /\ row' = [row EXCEPT ![s] = r]
    BY <1>4 DEF Incident, Ends
  <2> HIDE DEF r
  <2> QED BY <1>4, <2>1, <2>2, EndStep
<1> QED BY <1>1, <1>2, <1>3, <1>4

\* The same before anything is prepared: the row sets no content_id.
LEMMA EarlyIncident ==
  ASSUME DeliveryInv, HubMoves, NEW s \in Uploads, Incident(s),
         row[s].status = "pending",
         DiskKept, UNCHANGED <<source, authorized, retired>>,
         late' \subseteq Uploads, faults' \in Nat,
         history' \in [Uploads -> SUBSET Causes],
         \A u \in Uploads : history[u] # {} => history'[u] # {},
         source[s] = "changed" \/ history'[s] # {}
  PROVE  DeliveryInv'
<1> DEFINE r == [row[s] EXCEPT !.status = "incident"]
<1>0. row[s] \in Row
  BY DEF DeliveryInv, TypeOK
<1>1. r \in Row /\ r.status = "incident" /\ r.content = row[s].content
  BY <1>0
<1>2. worker' = Idle /\ row' = [row EXCEPT ![s] = r]
  BY DEF Incident, Ends
<1>3. row[s].content => disk[s].bundle /\ disk[s].transfer
  BY DEF DeliveryInv, IdentityDurable
<1> HIDE DEF r
<1> QED BY <1>1, <1>2, <1>3, EndStep

\* Remembering a cause keeps the histories histories.
LEMMA Remembered ==
  ASSUME TypeOK, NEW s \in Uploads, NEW c \in Causes, Remember(s, c)
  PROVE  /\ history' \in [Uploads -> SUBSET Causes]
         /\ \A u \in Uploads : history[u] # {} => history'[u] # {}
         /\ history'[s] # {}
<1> DEFINE h == history[s] \cup {c}
<1>1. h \in SUBSET Causes
  BY GrownHistory
<1>2. h # {}
  OBVIOUS
<1>3. history' = [history EXCEPT ![s] = h]
  BY DEF Remember
<1>4. history \in [Uploads -> SUBSET Causes]
  BY DEF TypeOK
<1> HIDE DEF h
<1>5. history' \in [Uploads -> SUBSET Causes]
  BY <1>1, <1>3, <1>4, Zenon
<1>6. \A u \in Uploads : history'[u] = IF u = s THEN h ELSE history[u]
  BY <1>3, <1>4, Zenon
<1> QED BY <1>2, <1>5, <1>6

\* What a status the Hub answered means for the attempt.
LEMMA DispositionStep ==
  ASSUME DeliveryInv, HubMoves, DiskKept, NEW s \in Uploads,
         NEW a \in {"intent", "put", "complete"},
         Disposition(s, status'[s], a),
         Observed(s) \/ UNCHANGED disk,
         UNCHANGED <<source, late, authorized, retired, faults, history>>,
         row[s].status = "pending", disk[s].bundle, disk[s].transfer,
         disk'[s].attempt, a = "complete" => staged'[s] # "none"
  PROVE  DeliveryInv'
<1> DEFINE d == disk'[s]
<1>1. d \in Disk /\ disk' = [disk EXCEPT ![s] = d]
  BY DEF DiskKept, Observed, DeliveryInv, TypeOK
<1>2. /\ late' \subseteq Uploads /\ faults' \in Nat
      /\ \A u \in Uploads : history[u] # {} => history'[u] # {}
  BY DEF DeliveryInv, TypeOK
<1>3. history' \in [Uploads -> SUBSET Causes]
  BY Zenon DEF DeliveryInv, TypeOK
<1>4. /\ d.bundle /\ d.transfer /\ d.attempt /\ status'[s] # "absent"
      /\ d.receipt # "none" => status'[s] = d.receipt
  BY DEF DiskKept, HubMoves, DeliveryInv, ReceiptGenuine
<1>5. CASE status'[s] = "transfer_failed" /\ Incident(s)
  <2>1. history'[s] # {}
    BY <1>5 DEF HubMoves
  <2> QED BY <1>2, <1>3, <1>5, <2>1, RowEnds
<1>6. CASE ReceiverPending(s)
  BY <1>2, <1>3, <1>6, RowEnds
<1>7. CASE /\ status'[s] \in Terminal
           /\ worker' = [pc |-> "file", at |-> s] /\ row' = row
  <2> DEFINE p == "file"
  <2>1. /\ p \in PCs \ {"idle", "down"}
        /\ p \notin {"put", "fetch", "complete", "commit"}
    OBVIOUS
  <2>2. worker' = [pc |-> p, at |-> s] /\ UNCHANGED row
    BY <1>7
  <2>3. status'[s] \in Terminal
    BY <1>7
  <2> HIDE DEF d, p
  <2> QED BY <1>1, <1>4, <2>1, <2>2, <2>3, GoOnStep
<1>8. CASE /\ status'[s] = "awaiting_upload"
           /\ worker' = [pc |-> a, at |-> s] /\ row' = row
  <2> HIDE DEF d
  <2> QED BY <1>1, <1>4, <1>8, GoOnStep
<1> QED BY <1>5, <1>6, <1>7, <1>8 DEF Disposition

\* What an attempt at step p may rely on.
LEMMA AttemptFacts ==
  ASSUME DeliveryInv, NEW s \in Uploads, NEW p \in PCs \ {"idle", "down"},
         At(p, s)
  PROVE  /\ row[s].status = "pending"
         /\ p # "pack" => disk[s].bundle
         /\ p \in Prepared => disk[s].transfer
         /\ p \in Calls \ {"intent"} => disk[s].attempt
         /\ p = "put" => status[s] = "awaiting_upload" \/ history[s] # {}
         /\ p = "fetch" => status[s] \in Terminal
         /\ p = "complete" => staged[s] # "none"
         /\ p \in {"file", "commit"} => status[s] \in Terminal
         /\ p = "commit" => disk[s].receipt = status[s]
         /\ source[s] # "sealed" => source[s] = "changed"
BY DEF DeliveryInv, AttemptOK, HistoryOK

LEMMA WorldKept ==
  ASSUME DeliveryInv, UNCHANGED world
  PROVE  /\ late' \subseteq Uploads /\ faults' \in Nat
         /\ \A u \in Uploads : history[u] # {} => history'[u] # {}
         /\ history' \in [Uploads -> SUBSET Causes]
<1>1. history' \in [Uploads -> SUBSET Causes]
  BY Zenon DEF DeliveryInv, TypeOK
<1> QED BY <1>1 DEF DeliveryInv, TypeOK

LEMMA CallStep ==
  ASSUME DeliveryInv, NEW s \in Uploads,
         GetStatus(s) \/ FetchReceipt(s) \/ PostComplete(s) \/ Rejected(s)
  PROVE  DeliveryInv'
<1>1. CASE GetStatus(s)
  <2>1. HubMoves /\ DiskKept
    BY <1>1, HubStays, UnchangedIsKept DEF GetStatus, Answered
  <2>2. Disposition(s, status'[s], "intent") /\ UNCHANGED <<world, disk>>
    BY <1>1 DEF GetStatus, Answered
  <2> QED BY <1>1, <2>1, <2>2, AttemptFacts, DispositionStep DEF GetStatus
<1>2. CASE FetchReceipt(s)
  <2>1. HubMoves /\ DiskKept
    BY <1>2, HubStays, UnchangedIsKept DEF FetchReceipt, Answered
  <2>2. Disposition(s, status'[s], "put") /\ UNCHANGED <<world, disk>>
    BY <1>2 DEF FetchReceipt, Answered
  <2> QED BY <1>2, <2>1, <2>2, AttemptFacts, DispositionStep DEF FetchReceipt
<1>3. CASE PostComplete(s) /\ UNCHANGED hub
  <2>1. HubMoves /\ DiskKept
    BY <1>3, HubStays, UnchangedIsKept DEF PostComplete, Answered
  <2>2. status[s] # "awaiting_upload"
    BY <1>3 DEF PostComplete, Complete, DeliveryInv, TypeOK
  <2>3. Disposition(s, status'[s], "complete") /\ UNCHANGED <<world, disk>>
    BY <1>3, <2>2 DEF PostComplete, Answered, Complete
  <2> QED
    BY <1>3, <2>1, <2>3, AttemptFacts, DispositionStep DEF PostComplete
<1>4. CASE PostComplete(s) /\ Complete(s) /\ ReceiverPending(s)
  <2>1. HubMoves /\ DiskKept /\ UNCHANGED disk /\ UNCHANGED world
    BY <1>4, HubCompletes, UnchangedIsKept DEF PostComplete, Answered
  <2> QED
    BY <1>4, <2>1, AttemptFacts, RowEnds, WorldKept DEF PostComplete
<1>5. CASE Rejected(s)
  <2>1. HubMoves /\ UNCHANGED disk
    BY <1>5, HubStays DEF Rejected
  <2>2. PICK c \in Calls \ {"put"} : At(c, s)
    BY <1>5 DEF Rejected
  <2>3. /\ row[s].status = "pending"
        /\ disk[s].bundle /\ disk[s].transfer
    BY <2>2, AttemptFacts
  <2> QED
    BY <1>5, <2>1, <2>3, UnchangedIsKept, RowEnds, WorldKept DEF Rejected
<1> QED BY <1>1, <1>2, <1>3, <1>4, <1>5 DEF PostComplete

LEMMA IntentStep ==
  ASSUME DeliveryInv, NEW s \in Uploads, PostIntent(s)
  PROVE  DeliveryInv'
<1>0. /\ At("intent", s)
      /\ row[s].status = "pending" /\ disk[s].bundle /\ disk[s].transfer
      /\ disk[s] \in Disk
  BY AttemptFacts DEF PostIntent, DeliveryInv, TypeOK
<1>1. CASE /\ Create(s) /\ Observed(s) /\ UNCHANGED row
           /\ worker' = [pc |-> "put", at |-> s] /\ UNCHANGED world
  <2> DEFINE d == [disk[s] EXCEPT !.attempt = TRUE]
             p == "put"
  <2>1. /\ disk' = [disk EXCEPT ![s] = d]
        /\ d \in Disk /\ d.attempt /\ d.bundle /\ d.transfer
        /\ d.receipt = disk[s].receipt
    BY <1>0, <1>1 DEF Observed
  <2>2. \A u \in Uploads : disk[u].attempt => disk'[u].attempt
    BY <1>1 DEF Observed, DeliveryInv, TypeOK
  <2>3. HubMoves /\ status' = [status EXCEPT ![s] = "awaiting_upload"]
    BY <1>1, <2>2, HubCreates
  <2>4. status'[s] = "awaiting_upload" /\ status[s] = "absent"
    BY <1>1, <2>3 DEF Create, DeliveryInv, TypeOK
  <2>5. d.receipt = "none"
    BY <2>1, <2>4 DEF DeliveryInv, ReceiptGenuine, TypeOK
  <2>6. /\ p \in PCs \ {"idle", "down"}
        /\ p \notin {"fetch", "complete", "file", "commit"}
        /\ worker' = [pc |-> p, at |-> s]
    BY <1>1
  <2> HIDE DEF d, p
  <2> QED BY <1>0, <1>1, <2>1, <2>3, <2>4, <2>5, <2>6, GoOnStep
<1>2. CASE /\ Remember(s, "full") /\ Incident(s)
           /\ UNCHANGED <<hub, disk, source, late, authorized, retired, faults>>
  <2>1. /\ history' \in [Uploads -> SUBSET Causes]
        /\ \A u \in Uploads : history[u] # {} => history'[u] # {}
        /\ history'[s] # {}
    BY <1>2, Remembered DEF DeliveryInv
  <2>2. HubMoves /\ DiskKept
    BY <1>2, <2>1, HubStays, UnchangedIsKept
  <2>3. late' \subseteq Uploads /\ faults' \in Nat
    BY <1>2 DEF DeliveryInv, TypeOK
  <2> QED BY <1>0, <1>2, <2>1, <2>2, <2>3, EarlyIncident
<1>3. CASE status[s] # "absent" /\ Observed(s) /\ UNCHANGED <<hub, world>>
  <2>1. \A u \in Uploads : disk[u].attempt => disk'[u].attempt
    BY <1>3 DEF Observed, DeliveryInv, TypeOK
  <2>2. HubMoves
    BY <1>3, <2>1, HubStays
  <2>3. DiskKept
    BY <1>0, <1>3, <2>2, ObservedIsKept
  <2>4. disk'[s].attempt
    BY <1>3 DEF Observed, DeliveryInv, TypeOK
  <2>5. CASE Disposition(s, status[s], "put")
    BY <1>0, <1>3, <2>2, <2>3, <2>4, <2>5, DispositionStep
  <2>6. CASE /\ status[s] \in Terminal
             /\ worker' = [pc |-> "fetch", at |-> s] /\ UNCHANGED row
    <3> DEFINE d == disk'[s]
               p == "fetch"
    <3>1. /\ d \in Disk /\ disk' = [disk EXCEPT ![s] = d]
          /\ d.bundle /\ d.transfer /\ d.attempt /\ status'[s] # "absent"
          /\ d.receipt # "none" => status'[s] = d.receipt
      BY <1>0, <1>3, <2>3, <2>4
      DEF DiskKept, Observed, DeliveryInv, ReceiptGenuine, TypeOK
    <3>2. /\ p \in PCs \ {"idle", "down"}
          /\ p \notin {"put", "complete", "file", "commit"}
          /\ worker' = [pc |-> p, at |-> s]
          /\ status'[s] \in Terminal
      BY <1>3, <2>6
    <3> HIDE DEF d, p
    <3> QED BY <1>0, <1>3, <2>2, <2>6, <3>1, <3>2, GoOnStep
  <2> QED BY <1>3, <2>5, <2>6 DEF PostIntent, Create
<1> QED
  <2>1. \/ Create(s) /\ Observed(s) /\ Worker("put", s) /\ UNCHANGED <<row, world>>
        \/ /\ Remember(s, "full") /\ Incident(s)
           /\ UNCHANGED <<hub, disk, source, late, authorized, retired, faults>>
        \/ status[s] # "absent" /\ Observed(s) /\ UNCHANGED <<hub, world>>
    BY DEF PostIntent
  <2> QED BY <1>1, <1>2, <1>3, <2>1

LEMMA PutStep ==
  ASSUME DeliveryInv, NEW s \in Uploads, PutBody(s)
  PROVE  DeliveryInv'
<1>0. At("put", s) /\ UNCHANGED <<disk, world>>
  BY DEF PutBody
<1>5. /\ row[s].status = "pending"
      /\ disk[s].bundle /\ disk[s].transfer /\ disk[s].attempt
      /\ status[s] = "awaiting_upload" \/ history[s] # {}
  BY <1>0, AttemptFacts
<1>6. disk[s] \in Disk /\ disk' = [disk EXCEPT ![s] = disk[s]]
  BY <1>0 DEF DeliveryInv, TypeOK
<1>1. CASE /\ Store(s, Body[s]) \/ (staged[s] # "none" /\ UNCHANGED hub)
           /\ worker' = [pc |-> "complete", at |-> s] /\ UNCHANGED row
  <2>1. HubMoves
    BY <1>0, <1>1, <1>5, HubStays, HubStores
  <2>2. /\ staged'[s] # "none"
        /\ status' = status
    BY <1>1 DEF Store, DeliveryInv, TypeOK
  <2>3. /\ status'[s] # "absent"
        /\ disk[s].receipt # "none" => status'[s] = disk[s].receipt
    BY <1>5, <2>2 DEF DeliveryInv, ReceiptGenuine, IdentityDurable
  <2> DEFINE p == "complete"
             d == disk[s]
  <2>4. /\ p \in PCs \ {"idle", "down"}
        /\ p \notin {"put", "fetch", "file", "commit"}
        /\ worker' = [pc |-> p, at |-> s]
    BY <1>1
  <2>5. /\ d \in Disk /\ disk' = [disk EXCEPT ![s] = d]
        /\ d.bundle /\ d.transfer /\ d.attempt
        /\ d.receipt # "none" => status'[s] = d.receipt
    BY <1>5, <1>6, <2>3
  <2>6. UNCHANGED <<row, source, late, authorized, retired, faults, history>>
    BY <1>0, <1>1
  <2>7. row[s].status = "pending"
    BY <1>5
  <2> HIDE DEF p, d
  <2> QED BY <2>1, <2>2, <2>3, <2>4, <2>5, <2>6, <2>7, GoOnStep
<1>2. CASE /\ ~authorized \/ status[s] # "awaiting_upload"
           /\ Incident(s) /\ UNCHANGED hub
  <2>1. history[s] # {}
    BY <1>2, <1>5 DEF DeliveryInv, HistoryOK
  <2>2. HubMoves /\ DiskKept
    BY <1>0, <1>2, HubStays, UnchangedIsKept
  <2> QED BY <1>0, <1>2, <1>5, <2>1, <2>2, RowEnds, WorldKept
<1> QED BY <1>1, <1>2 DEF PutBody

LEMMA LostStep ==
  ASSUME DeliveryInv, NEW s \in Uploads, Lost(s)
  PROVE  DeliveryInv'
<1>1. PICK c \in Calls : At(c, s)
  BY DEF Lost
<1>2. /\ row[s].status = "pending" /\ disk[s].bundle /\ disk[s].transfer
      /\ c # "intent" => disk[s].attempt
  BY <1>1, AttemptFacts
<1>3. /\ UNCHANGED <<disk, source, authorized, retired, history>>
      /\ RetryLater(s)
      /\ late' \subseteq Uploads /\ faults' \in Nat
      /\ \A u \in Uploads : history[u] # {} => history'[u] # {}
  <2>1. faults' = faults + 1
    BY DEF Lost, Fault
  <2>2. late' = late \/ late' = late \cup {s}
    BY DEF Lost
  <2>3. UNCHANGED <<disk, source, authorized, retired, history>> /\ RetryLater(s)
    BY DEF Lost
  <2> QED BY <2>1, <2>2, <2>3 DEF DeliveryInv, TypeOK
<1>4. history' \in [Uploads -> SUBSET Causes]
  BY <1>3, Zenon DEF DeliveryInv, TypeOK
<1>5. HubMoves
  <2>1. CASE UNCHANGED hub
    BY <1>3, <2>1, HubStays
  <2>2. CASE Create(s)
    BY <1>3, <2>2, HubCreates
  <2>3. CASE At("put", s) /\ Store(s, Body[s])
    <3>1. worker.pc = c /\ worker.pc = "put"
      BY <1>1, <2>3
    <3>2. disk[s].attempt
      BY <1>2, <3>1
    <3> QED BY <1>3, <2>3, <3>2, HubStores
  <2>4. CASE Complete(s)
    BY <1>3, <2>4, HubCompletes
  <2> QED BY <2>1, <2>2, <2>3, <2>4 DEF Lost
<1> QED BY <1>2, <1>3, <1>4, <1>5, UnchangedIsKept, RowEnds

LEMMA PackStep ==
  ASSUME DeliveryInv, NEW s \in Uploads, Pack(s)
  PROVE  DeliveryInv'
<1>0. /\ At("pack", s) /\ UNCHANGED hub
      /\ row[s].status = "pending"
      /\ source[s] # "sealed" => source[s] = "changed"
      /\ disk[s] \in Disk
  BY AttemptFacts DEF Pack, DeliveryInv, TypeOK
<1>1. CASE source[s] # "sealed" /\ Incident(s) /\ UNCHANGED <<disk, world>>
  <2>1. HubMoves /\ DiskKept
    BY <1>0, <1>1, HubStays, UnchangedIsKept
  <2> QED BY <1>0, <1>1, <2>1, EarlyIncident, WorldKept
<1>2. CASE /\ disk' = [disk EXCEPT ![s].bundle = TRUE]
           /\ worker' = [pc |-> "check", at |-> s] /\ UNCHANGED <<row, world>>
  <2> DEFINE d == [disk[s] EXCEPT !.bundle = TRUE]
             p == "check"
  <2>1. /\ disk' = [disk EXCEPT ![s] = d]
        /\ d \in Disk /\ d.bundle /\ d.transfer = disk[s].transfer
        /\ d.attempt = disk[s].attempt /\ d.receipt = disk[s].receipt
    BY <1>0, <1>2
  <2>2. \A u \in Uploads : disk[u].attempt => disk'[u].attempt
    BY <1>2 DEF DeliveryInv, TypeOK
  <2>3. HubMoves
    BY <1>0, <1>2, <2>2, HubStays
  <2>4. /\ disk[s].attempt => disk[s].transfer /\ status'[s] # "absent"
        /\ disk[s].receipt # "none" => status'[s] = disk[s].receipt
    BY <1>0 DEF DeliveryInv, ReceiptGenuine, IdentityDurable
  <2>5. /\ p \in PCs \ {"idle", "down"} /\ p \notin Prepared
        /\ worker' = [pc |-> p, at |-> s]
    BY <1>2
  <2>6. p \notin {"put", "fetch", "complete", "file", "commit"}
    OBVIOUS
  <2>7. UNCHANGED <<row, source, late, authorized, retired, faults, history>>
    BY <1>2
  <2> HIDE DEF d, p
  <2> QED BY <1>0, <2>1, <2>3, <2>4, <2>5, <2>6, <2>7, GoOnStep
<1>3. CASE /\ Fault /\ Remember(s, "tool") /\ Incident(s)
           /\ UNCHANGED <<disk, source, late, authorized, retired>>
  <2>1. /\ history' \in [Uploads -> SUBSET Causes]
        /\ \A u \in Uploads : history[u] # {} => history'[u] # {}
        /\ history'[s] # {}
    BY <1>3, Remembered DEF DeliveryInv
  <2>2. HubMoves /\ DiskKept
    BY <1>0, <1>3, <2>1, HubStays, UnchangedIsKept
  <2>3. late' \subseteq Uploads /\ faults' \in Nat
    BY <1>3 DEF Fault, DeliveryInv, TypeOK
  <2> QED BY <1>0, <1>3, <2>1, <2>2, <2>3, EarlyIncident
<1> QED BY <1>1, <1>2, <1>3 DEF Pack

LEMMA CheckStep ==
  ASSUME DeliveryInv, NEW s \in Uploads, Check(s)
  PROVE  DeliveryInv'
<1>0. /\ At("check", s) /\ UNCHANGED <<hub, world>>
      /\ row[s].status = "pending" /\ disk[s].bundle
      /\ source[s] # "sealed" => source[s] = "changed"
      /\ disk[s] \in Disk
  BY AttemptFacts DEF Check, DeliveryInv, TypeOK
<1>1. CASE /\ source[s] # "sealed" \/ (row[s].content /\ ~disk[s].transfer)
           /\ Incident(s) /\ UNCHANGED disk
  <2>1. HubMoves /\ DiskKept
    BY <1>0, <1>1, HubStays, UnchangedIsKept
  <2>2. source[s] # "sealed"
    BY <1>1 DEF DeliveryInv, IdentityDurable
  <2> QED BY <1>0, <1>1, <2>1, <2>2, EarlyIncident, WorldKept
<1>2. CASE /\ disk' = [disk EXCEPT ![s].transfer = TRUE]
           /\ worker' = [pc |-> FirstCall(s), at |-> s] /\ UNCHANGED row
  <2> DEFINE d == [disk[s] EXCEPT !.transfer = TRUE]
             p == FirstCall(s)
  <2>1. /\ disk' = [disk EXCEPT ![s] = d]
        /\ d \in Disk /\ d.transfer /\ d.bundle = disk[s].bundle
        /\ d.attempt = disk[s].attempt /\ d.receipt = disk[s].receipt
    BY <1>0, <1>2
  <2>2. \A u \in Uploads : disk[u].attempt => disk'[u].attempt
    BY <1>2 DEF DeliveryInv, TypeOK
  <2>3. HubMoves
    BY <1>0, <1>2, <2>2, HubStays
  <2>4. /\ disk[s].attempt => status'[s] # "absent"
        /\ disk[s].receipt # "none" => status'[s] = disk[s].receipt
    BY <1>0 DEF DeliveryInv, ReceiptGenuine, IdentityDurable
  <2>5. /\ p \in PCs \ {"idle", "down"}
        /\ p \in Calls \ {"intent"} => disk[s].attempt
        /\ p \notin {"put", "fetch", "complete", "file", "commit"}
    BY DEF FirstCall
  <2>6. worker' = [pc |-> p, at |-> s]
    BY <1>2
  <2>7. UNCHANGED <<row, source, late, authorized, retired, faults, history>>
    BY <1>0, <1>2
  <2> HIDE DEF d, p
  <2> QED BY <1>0, <2>1, <2>3, <2>4, <2>5, <2>6, <2>7, GoOnStep
<1> QED BY <1>1, <1>2 DEF Check

LEMMA ReceiptStep ==
  ASSUME DeliveryInv, NEW s \in Uploads, FileReceipt(s) \/ CommitReceipt(s)
  PROVE  DeliveryInv'
<1>1. CASE FileReceipt(s)
  <2>0. /\ At("file", s) /\ UNCHANGED <<hub, row, world>>
        /\ row[s].status = "pending" /\ status[s] \in Terminal
        /\ disk[s].bundle /\ disk[s].transfer
        /\ disk[s] \in Disk
    <3>1. At("file", s) /\ UNCHANGED <<hub, row, world>>
      BY <1>1 DEF FileReceipt
    <3>2. disk[s] \in Disk
      BY DEF DeliveryInv, TypeOK
    <3> QED BY <3>1, <3>2, AttemptFacts
  <2> DEFINE d == [disk[s] EXCEPT !.receipt = status[s]]
             p == "commit"
  <2>1. /\ disk' = [disk EXCEPT ![s] = d]
        /\ d \in Disk /\ d.bundle /\ d.transfer
        /\ d.receipt = status[s]
    BY <1>1, <2>0 DEF FileReceipt
  <2>2. \A u \in Uploads : disk[u].attempt => disk'[u].attempt
    BY <1>1 DEF FileReceipt, DeliveryInv, TypeOK
  <2>3. HubMoves
    BY <2>0, <2>2, HubStays
  <2>4. /\ p \in PCs \ {"idle", "down"}
        /\ p \notin Calls
        /\ p \notin {"put", "fetch", "complete"}
        /\ worker' = [pc |-> p, at |-> s]
    BY <1>1 DEF FileReceipt
  <2>5. /\ status'[s] \in Terminal /\ d.receipt = status'[s]
        /\ status'[s] # "absent"
    BY <2>0, <2>1
  <2>6. UNCHANGED <<row, source, late, authorized, retired, faults, history>>
    BY <2>0
  <2> HIDE DEF d, p
  <2> QED BY <2>0, <2>1, <2>3, <2>4, <2>5, <2>6, GoOnStep
<1>2. CASE CommitReceipt(s)
  <2>0. /\ At("commit", s) /\ UNCHANGED <<hub, disk, world>>
        /\ row[s].status = "pending" /\ status[s] \in Terminal
        /\ disk[s].bundle /\ disk[s].transfer /\ disk[s].receipt = status[s]
        /\ row[s] \in Row
    BY <1>2, AttemptFacts DEF CommitReceipt, DeliveryInv, TypeOK
  <2> DEFINE r == [row[s] EXCEPT !.status = disk[s].receipt, !.content = TRUE]
  <2>1. r \in Row /\ r.status = disk[s].receipt /\ r.status \in Terminal
    BY <2>0
  <2>2. worker' = Idle /\ row' = [row EXCEPT ![s] = r]
    BY <1>2 DEF CommitReceipt, Ends
  <2>3. HubMoves /\ DiskKept
    BY <2>0, HubStays, UnchangedIsKept
  <2>4. r.status # "absent" /\ r.status # "incident"
    BY <2>1
  <2> HIDE DEF r
  <2> QED BY <2>0, <2>1, <2>2, <2>3, <2>4, EndStep, WorldKept
<1> QED BY <1>1, <1>2

\* Steps on rows outside an attempt, and the completion carried out late.
LEMMA RowStep ==
  ASSUME DeliveryInv, NEW s \in Uploads,
         Reconcile \/ RetryDue(s) \/ ResumeAuth(s) \/ LateCompletion(s)
  PROVE  DeliveryInv'
<1> USE DEF DeliveryInv
<1>1. CASE Reconcile
  <2>1. /\ worker = Idle
        /\ UNCHANGED <<hub, disk, worker, world>>
        /\ row' \in [Uploads -> Row]
        /\ \A u \in Uploads : \/ row'[u] = row[u]
                              \/ /\ row[u].status = "absent"
                                 /\ row'[u] = Enrolled(u)
                                 /\ source[u] \in {"sealed", "malformed"}
    BY <1>1 DEF Reconcile, Enrolled, New, NoRow, TypeOK
  <2>2. TypeOK'
    BY <2>1 DEF TypeOK
  <2>3. ReceiptGenuine' /\ IdentityDurable' /\ IncidentHasCause'
    BY <2>1
    DEF ReceiptGenuine, IdentityDurable, IncidentHasCause, Enrolled, NoRow
  <2>4. AttemptOK'
    BY <2>1 DEF AttemptOK
  <2>5. HistoryOK'
    <3>1. ASSUME NEW u \in Uploads
          PROVE  /\ row'[u].status # "absent"
                      => source[u] \in {"sealed", "malformed", "changed"}
                 /\ source[u] = "malformed"
                      => row'[u].status \in {"absent", "incident"}
                 /\ row'[u].status = "incident" /\ source[u] = "sealed"
                      => history[u] # {}
      <4>1. CASE row'[u] = row[u]
        BY <4>1 DEF HistoryOK
      <4>2. CASE /\ row'[u] = Enrolled(u)
                 /\ source[u] \in {"sealed", "malformed"}
        BY <4>2 DEF Enrolled, NoRow
      <4> QED BY <2>1, <4>1, <4>2
    <3> QED BY <2>1, <3>1 DEF HistoryOK
  <2> QED BY <2>2, <2>3, <2>4, <2>5
<1>2. CASE RetryDue(s) \/ ResumeAuth(s)
  <2>1. /\ UNCHANGED <<hub, disk, worker, world>>
        /\ row' \in [Uploads -> Row]
        /\ \A u \in Uploads :
             /\ row'[u].content = row[u].content
             /\ \/ row'[u].status = row[u].status
                \/ row[u].status = "auth_blocked" /\ row'[u].status = "pending"
    <3>1. row \in [Uploads -> Row]
      BY DEF TypeOK
    <3>2. CASE RetryDue(s)
      BY <3>1, <3>2 DEF RetryDue
    <3>3. CASE ResumeAuth(s)
      BY <3>1, <3>3 DEF ResumeAuth, Resumable
    <3> QED BY <1>2, <3>2, <3>3
  <2>2. TypeOK'
    BY <2>1 DEF TypeOK
  <2>3. ReceiptGenuine' /\ IdentityDurable' /\ IncidentHasCause'
    BY <2>1 DEF ReceiptGenuine, IdentityDurable, IncidentHasCause
  <2>4. AttemptOK'
    BY <2>1 DEF AttemptOK
  <2>5. HistoryOK'
    BY <2>1 DEF HistoryOK
  <2> QED BY <2>2, <2>3, <2>4, <2>5
<1>3. CASE LateCompletion(s)
  <2>1. /\ Remember(s, "late") /\ late' \subseteq Uploads
        /\ UNCHANGED <<source, row, disk, worker, authorized, retired, faults>>
        /\ Complete(s) \/ UNCHANGED hub
    BY <1>3 DEF LateCompletion, TypeOK
  <2>2. /\ history' \in [Uploads -> SUBSET Causes]
        /\ \A u \in Uploads : history[u] # {} => history'[u] # {}
        /\ history'[s] # {}
    BY <2>1, Remembered
  <2>3. HubMoves
    BY <2>1, <2>2, HubStays, HubCompletes
  <2>4. /\ \A u \in Uploads : u # s => status'[u] = status[u]
        /\ \A u \in Uploads : staged'[u] = staged[u]
    BY <2>1 DEF Complete, TypeOK
  <2>5. TypeOK'
    BY <2>1, <2>2, <2>3 DEF TypeOK, HubMoves
  <2>6. ReceiptGenuine'
    BY <2>1, <2>3 DEF TypeOK, ReceiptGenuine, HubMoves
  <2>7. IdentityDurable'
    BY <2>1, <2>3 DEF IdentityDurable, HubMoves
  <2>8. IncidentHasCause'
    BY <2>1, <2>2 DEF IncidentHasCause
  <2>9. AttemptOK'
    BY <2>1, <2>2, <2>3, <2>4 DEF AttemptOK, HubMoves
  <2>10. HistoryOK'
    BY <2>1, <2>2, <2>3 DEF HistoryOK, HubMoves
  <2> QED BY <2>5, <2>6, <2>7, <2>8, <2>9, <2>10
<1> QED BY <1>1, <1>2, <1>3

LEMMA NextDeliveryInv == DeliveryInv /\ [Next]_vars => DeliveryInv'
<1> SUFFICES ASSUME DeliveryInv, [Next]_vars PROVE DeliveryInv'
  OBVIOUS
<1>1. CASE Reconcile
  <2>1. PICK s \in Uploads : New(s)
    BY <1>1 DEF Reconcile
  <2> QED BY <1>1, <2>1, RowStep
<1>2. ASSUME NEW s \in Uploads,
             \/ RecoverInterrupted(s) \/ DrainOne(s) \/ Recording(s)
      PROVE  DeliveryInv'
  BY <1>2, WorldStep
<1>3. ASSUME NEW s \in Uploads, Attempt(s) PROVE DeliveryInv'
  BY <1>3, PackStep, CheckStep, CallStep, IntentStep, PutStep, ReceiptStep
  DEF Attempt
<1>4. CASE Start \/ Stop \/ ReportCompletion \/ Revoke \/ Restore
  BY <1>4, WorldStep
<1>5. ASSUME NEW s \in Uploads,
             \/ RetryDue(s) \/ Lost(s) \/ LateCompletion(s) \/ ResumeAuth(s)
             \/ Verifies(s) \/ Reopens(s)
      PROVE  DeliveryInv'
  BY <1>5, RowStep, LostStep, HubStep
<1>6. CASE UNCHANGED vars
  BY <1>6 DEF vars, DeliveryInv, TypeOK, ReceiptGenuine, IdentityDurable,
     IncidentHasCause, AttemptOK, HistoryOK
<1> QED BY <1>1, <1>2, <1>3, <1>4, <1>5, <1>6 DEF Next, Works

\* Every behaviour of the outbox, the transport and the Hub keeps DeliveryInv.
THEOREM DeliveryInvariance == Spec => []DeliveryInv
<1>1. Init => DeliveryInv
  BY InitDelivery
<1>2. DeliveryInv /\ [Next]_vars => DeliveryInv'
  BY NextDeliveryInv
<1> QED BY <1>1, <1>2, PTL DEF Spec

\* drain_one, receipts/ and the completion report: no receipt, and so no
\* retired recording, that the Hub did not decide.
THEOREM ReceiptsGenuine == Spec => []ReceiptGenuine
<1>1. DeliveryInv => ReceiptGenuine
  BY DEF DeliveryInv
<1> QED BY <1>1, DeliveryInvariance, PTL

\* What a later attempt relies on is durable before the Hub depends on it.
THEOREM IdentitiesDurable == Spec => []IdentityDurable
<1>1. DeliveryInv => IdentityDurable
  BY DEF DeliveryInv
<1> QED BY <1>1, DeliveryInvariance, PTL

\* Crashes and lost messages alone never make a permanent incident.
THEOREM IncidentsCaused == Spec => []IncidentHasCause
<1>1. DeliveryInv => IncidentHasCause
  BY DEF DeliveryInv
<1> QED BY <1>1, DeliveryInvariance, PTL
=============================================================================
