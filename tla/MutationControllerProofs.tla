----------------------- MODULE MutationControllerProofs -----------------------
(***************************************************************************)
(* Proofs about the Player Environment Host: HostInv is inductive, for any *)
(* clients, requests and limits.  The lemmas say what one action does and  *)
(* do not mention which client took it, so that a composition of the Host  *)
(* with its clients can cite them.                                         *)
(***************************************************************************)
EXTENDS MutationController, SequenceTheorems, TLAPS

USE ControllerConstantsOK, NothingOK

LEMMA InitHostInv == HostInit => HostInv
<1> SUFFICES ASSUME HostInit PROVE HostInv
  OBVIOUS
<1> USE DEF HostInit, NewHost
<1>1. inputs = <<>> /\ Len(inputs) = 0
  OBVIOUS
<1>2. HostTypeOK
  BY DEF HostTypeOK, Delivery
<1>3. LeaseIsLast /\ InputsAreKnown /\ AdmittedIsFresh /\ TableIsKeyed
  BY <1>1 DEF LeaseIsLast, InputsAreKnown, AdmittedIsFresh, TableIsKeyed
<1>4. AtMostOnce /\ InputsInOrder /\ LandsWhereAimed /\ ReceiptsTrue
  BY <1>1 DEF AtMostOnce, InputsInOrder, LandsWhereAimed, ReceiptsTrue, ActedHere
<1> QED
  BY <1>2, <1>3, <1>4 DEF HostInv

\* The parts of an input.
LEMMA InputTypes ==
  ASSUME HostInv, NEW i \in 1..Len(inputs)
  PROVE  /\ inputs[i] \in Input
         /\ inputs[i].cmd \in Command
         /\ inputs[i].cmd.req \in Requests
         /\ inputs[i].cmd.lease \in Lease
         /\ inputs[i].cmd.lease.inst \in Nat
         /\ inputs[i].cmd.lease.gen \in Nat
<1>1. inputs \in Seq(Input)
  BY DEF HostInv, HostTypeOK
<1>2. inputs[i] \in Input
  BY <1>1, ElementOfSeq
<1>3. inputs[i].cmd \in Command
  BY <1>2 DEF Input
<1>4. inputs[i].cmd.req \in Requests /\ inputs[i].cmd.lease \in Lease
  BY <1>3 DEF Command
<1> QED
  BY <1>2, <1>3, <1>4 DEF Lease

HostType == [inst : Nat, sessions : SUBSET Clients, gen : Nat,
             lease : Lease \cup {NoLease}, life : 0..LeaseTicks]

\* A step that leaves the table, the receipts and the inputs of a running
\* process alone.
Quiet ==
  /\ HostTypeOK'
  /\ host'.inst = host.inst /\ host'.gen >= host.gen
  /\ UNCHANGED <<seen, receipt, inputs>>
  /\ exec' = exec
  /\ exec # NoCommand => snap' = snap

LEMMA QuietKeeps ==
  ASSUME HostInv, Quiet, LeaseIsLast'
  PROVE  HostInv'
<1>1. host.gen \in Nat /\ host'.gen \in Nat /\ \A i \in 1..Len(inputs) :
        inputs[i] \in Input
  BY DEF HostInv, HostTypeOK, Quiet
<1>2. InputsAreKnown'
  BY <1>1 DEF HostInv, InputsAreKnown, Quiet, Input, Command, Lease
<1>3. AdmittedIsFresh'
  <2>1. exec # NoCommand => exec \in Command
    BY DEF HostInv, HostTypeOK
  <2> QED
    BY <1>1, <2>1 DEF HostInv, AdmittedIsFresh, Quiet, Command, Lease, ActedHere,
                 Before
<1>4. TableIsKeyed' /\ AtMostOnce' /\ InputsInOrder' /\ LandsWhereAimed'
  BY DEF HostInv, TableIsKeyed, AtMostOnce, InputsInOrder,
         LandsWhereAimed, Quiet
<1>5. ReceiptsTrue'
  BY DEF HostInv, ReceiptsTrue, ActedHere, Quiet
<1> QED
  BY <1>2, <1>3, <1>4, <1>5 DEF HostInv, Quiet

-----------------------------------------------------------------------------
(* The controller.                                                         *)

LEMMA RegisterKeeps ==
  ASSUME HostInv, NEW c \in Clients, Register(c)
  PROVE  HostInv'
<1>0. /\ host \in HostType
      /\ host' = [host EXCEPT !.sessions = host.sessions \cup {c}]
  BY DEF HostInv, HostTypeOK, Register, HostType
<1>a. host' \in HostType /\ host'.inst = host.inst /\ host'.gen = host.gen
  BY <1>0 DEF HostType
<1>1. Quiet
  BY <1>0, <1>a DEF HostInv, HostTypeOK, Register, Quiet, game, thread, HostType
<1>2. LeaseIsLast'
  BY DEF HostInv, HostTypeOK, Register, LeaseIsLast
<1> QED
  BY <1>1, <1>2, QuietKeeps

LEMMA NextLeaseIs ==
  ASSUME HostInv, NEW c \in Clients
  PROVE  /\ NextLease(c) \in Lease
         /\ NextLease(c).inst = host.inst
         /\ NextLease(c).gen = IF host.lease = NoLease THEN host.gen + 1
                                                       ELSE host.gen
BY DEF HostInv, HostTypeOK, LeaseIsLast, NextLease, Lease

LEMMA AcquireKeeps ==
  ASSUME HostInv, NEW c \in Clients, Acquire(c)
  PROVE  HostInv'
<1> DEFINE l == NextLease(c)
           life == IF host.lease = NoLease THEN LeaseTicks ELSE host.life
<1>1. /\ l \in Lease /\ l.inst = host.inst
      /\ l.gen \in Nat /\ l.gen >= host.gen /\ l # NoLease
  BY NextLeaseIs DEF HostInv, HostTypeOK, Lease
<1>2. host' = [host EXCEPT !.lease = l, !.gen = l.gen, !.life = life]
  BY DEF Acquire
<1>3. life \in 0..LeaseTicks
  BY DEF HostInv, HostTypeOK
<1> HIDE DEF l, life
<1>4. /\ host'.inst = host.inst /\ host'.gen = l.gen /\ host'.lease = l
      /\ host' \in [inst : Nat, sessions : SUBSET Clients, gen : Nat,
                    lease : Lease \cup {NoLease}, life : 0..LeaseTicks]
      /\ host'.life = life
  BY <1>1, <1>2, <1>3 DEF HostInv, HostTypeOK
<1>5. granted' \subseteq Lease
  BY NextLeaseIs DEF HostInv, HostTypeOK, Acquire
<1>6. Quiet
  BY <1>1, <1>4, <1>5 DEF HostInv, HostTypeOK, Acquire, Quiet, game, thread
<1>7. LeaseIsLast'
  <2>1. life > 0
    BY DEF HostInv, LeaseIsLast, life
  <2> QED
    BY <1>1, <1>4, <2>1 DEF LeaseIsLast
<1> QED
  BY <1>6, <1>7, QuietKeeps

LEMMA LeaseCallsKeep ==
  ASSUME HostInv, NEW l, Renew(l) \/ Release(l) \/ ClockTick
  PROVE  HostInv'
<1>0. /\ host \in HostType /\ host.life \in 0..LeaseTicks
      /\ LeaseTicks \in 0..LeaseTicks /\ 0 \in 0..LeaseTicks
      /\ UNCHANGED <<granted, game>>
  BY DEF HostInv, HostTypeOK, Renew, Release, ClockTick, HostType
<1>a. /\ host' \in HostType /\ host'.inst = host.inst /\ host'.gen = host.gen
      /\ host'.lease \in {host.lease, NoLease}
      /\ host'.lease # NoLease => host'.life > 0
  <2>1. CASE Renew(l)
    <3>1. host' = [host EXCEPT !.life = LeaseTicks]
      BY <2>1 DEF Renew
    <3> QED
      BY <1>0, <3>1 DEF HostType
  <2>2. CASE Release(l)
    <3>1. host' = [host EXCEPT !.lease = NoLease, !.life = 0]
      BY <2>2 DEF Release
    <3> QED
      BY <1>0, <3>1 DEF HostType
  <2>3. CASE ClockTick
    <3>1. CASE host.life = 1
      <4>1. host' = [host EXCEPT !.lease = NoLease, !.life = 0]
        BY <2>3, <3>1 DEF ClockTick
      <4> QED
        BY <1>0, <4>1 DEF HostType
    <3>2. CASE host.life # 1
      <4>1. host' = [host EXCEPT !.life = host.life - 1]
        BY <2>3, <3>2 DEF ClockTick
      <4>2. host.life - 1 \in 0..LeaseTicks
        BY <1>0, <2>3, <3>2 DEF HostInv, LeaseIsLast, ClockTick
      <4>3. host.life - 1 > 0
        BY <1>0, <2>3, <3>2 DEF HostInv, LeaseIsLast, ClockTick
      <4> QED
        BY <1>0, <4>1, <4>2, <4>3 DEF HostType
    <3> QED
      BY <3>1, <3>2
  <2> QED
    BY <2>1, <2>2, <2>3
<1>1. Quiet
  BY <1>0, <1>a DEF HostInv, HostTypeOK, Quiet, game, thread, HostType
<1>2. LeaseIsLast'
  BY <1>a DEF HostInv, LeaseIsLast
<1> QED
  BY <1>1, <1>2, QuietKeeps

-----------------------------------------------------------------------------
(* The main thread.                                                        *)

LEMMA PostKeeps ==
  ASSUME HostInv, NEW c \in Command, Post(c)
  PROVE  HostInv'
<1>1. Quiet
  BY DEF HostInv, HostTypeOK, Post, Quiet, control
<1>2. LeaseIsLast'
  BY DEF HostInv, LeaseIsLast, Post, control
<1> QED
  BY <1>1, <1>2, QuietKeeps

LEMMA TakeNextIs ==
  ASSUME HostInv, TakeNext
  PROVE  /\ Head(queue) \in Command
         /\ queue' \in Seq(Command) /\ frame' \in 0..FrameBatch
         /\ exec = NoCommand
         /\ UNCHANGED <<host, granted, snap, posted, inputs>>
BY DEF HostInv, HostTypeOK, TakeNext, Ready, control

LEMMA NothingAdmittedKeeps ==
  ASSUME HostInv, Replay \/ SnapshotUnavailable
  PROVE  HostInv'
<1>1. TakeNext /\ UNCHANGED <<exec, seen, receipt>>
  BY DEF Replay, SnapshotUnavailable
<1>2. Quiet
  BY <1>1, TakeNextIs DEF HostInv, HostTypeOK, Quiet
<1>3. LeaseIsLast'
  BY <1>1, TakeNextIs DEF HostInv, LeaseIsLast
<1> QED
  BY <1>2, <1>3, QuietKeeps

\* A request id without a fingerprint has not acted in this process.
LEMMA UnseenNeverActed ==
  ASSUME HostInv, NEW r \in Requests, seen[r] = NoCommand
  PROVE  ~ActedHere(r) /\ receipt[r] = "none"
<1>1. \A i \in 1..Len(inputs) : inputs[i].cmd \in Command
  BY InputTypes
<1> QED
  BY <1>1 DEF HostInv, InputsAreKnown, TableIsKeyed, ActedHere

LEMMA FailKeeps ==
  ASSUME HostInv, Fail
  PROVE  HostInv'
<1> DEFINE c == Head(queue)
<1>1. TakeNext
  BY DEF Fail
<1>2. c \in Command /\ c.req \in Requests /\ exec = NoCommand
  BY <1>1, TakeNextIs DEF Command
<1>3. /\ seen[c.req] = NoCommand
      /\ seen' = [seen EXCEPT ![c.req] = c]
      /\ receipt' = [receipt EXCEPT ![c.req] = "not_delivered"]
      /\ exec' = NoCommand
  BY <1>2 DEF Fail
<1>4. ~ActedHere(c.req)
  BY <1>2, <1>3, UnseenNeverActed
<1>5. UNCHANGED <<host, granted, snap, posted, inputs>>
  BY <1>1, TakeNextIs
<1>6. queue' \in Seq(Command) /\ frame' \in 0..FrameBatch
  BY <1>1, TakeNextIs
<1> HIDE DEF c
<1>7. HostTypeOK'
  BY <1>2, <1>3, <1>5, <1>6 DEF HostInv, HostTypeOK, Delivery
<1>8. LeaseIsLast' /\ AtMostOnce' /\ InputsInOrder' /\ LandsWhereAimed'
  BY <1>5 DEF HostInv, LeaseIsLast, AtMostOnce, InputsInOrder, LandsWhereAimed
<1>9. \A r \in Requests : r # c.req =>
        seen'[r] = seen[r] /\ receipt'[r] = receipt[r]
  BY <1>2, <1>3 DEF HostInv, HostTypeOK
<1>10. seen'[c.req] = c /\ receipt'[c.req] = "not_delivered"
  BY <1>2, <1>3 DEF HostInv, HostTypeOK
<1>11. InputsAreKnown'
  <2>1. \A i \in 1..Len(inputs) : /\ inputs[i].cmd.req \in Requests
                                  /\ inputs[i].cmd.lease.inst = host.inst
                                       => inputs[i].cmd.req # c.req
    BY <1>4, InputTypes DEF ActedHere
  <2> QED
    BY <1>5, <1>9, <2>1 DEF HostInv, InputsAreKnown
<1>12. AdmittedIsFresh'
  BY <1>3 DEF AdmittedIsFresh
<1>13. TableIsKeyed'
  BY <1>2, <1>9, <1>10 DEF HostInv, TableIsKeyed
<1>14. ReceiptsTrue'
  <2>1. \A r \in Requests : ActedHere(r)' <=> ActedHere(r)
    BY <1>5 DEF ActedHere
  <2> QED
    BY <1>2, <1>3, <1>4, <1>9, <1>10, <2>1 DEF HostInv, ReceiptsTrue
<1> QED
  BY <1>7, <1>8, <1>11, <1>12, <1>13, <1>14 DEF HostInv

LEMMA AdmitKeeps ==
  ASSUME HostInv, Admit
  PROVE  HostInv'
<1> DEFINE c == Head(queue)
<1>1. TakeNext
  BY DEF Admit
<1>2. c \in Command /\ c.req \in Requests /\ c.lease \in Lease
  BY <1>1, TakeNextIs DEF Command
<1>3. /\ seen[c.req] = NoCommand /\ c.snap = snap /\ host.lease = c.lease
      /\ seen' = [seen EXCEPT ![c.req] = c]
      /\ exec' = c /\ receipt' = receipt
  BY DEF Admit, Authorize, MatchesCurrentLease
<1>4. ~ActedHere(c.req) /\ receipt[c.req] = "none"
  BY <1>2, <1>3, UnseenNeverActed
<1>5. UNCHANGED <<host, granted, snap, posted, inputs>> /\ exec = NoCommand
  BY <1>1, TakeNextIs
<1>6. queue' \in Seq(Command) /\ frame' \in 0..FrameBatch
  BY <1>1, TakeNextIs
<1> HIDE DEF c
<1>7. HostTypeOK'
  BY <1>2, <1>3, <1>5, <1>6 DEF HostInv, HostTypeOK
<1>8. LeaseIsLast' /\ AtMostOnce' /\ InputsInOrder' /\ LandsWhereAimed'
  BY <1>5 DEF HostInv, LeaseIsLast, AtMostOnce, InputsInOrder, LandsWhereAimed
<1>9. \A r \in Requests : r # c.req => seen'[r] = seen[r]
  BY <1>2, <1>3 DEF HostInv, HostTypeOK
<1>10. seen'[c.req] = c
  BY <1>2, <1>3 DEF HostInv, HostTypeOK
<1>11. InputsAreKnown'
  <2>1. \A i \in 1..Len(inputs) : /\ inputs[i].cmd.req \in Requests
                                  /\ inputs[i].cmd.lease.inst = host.inst
                                       => inputs[i].cmd.req # c.req
    BY <1>4, InputTypes DEF ActedHere
  <2> QED
    BY <1>5, <1>9, <2>1 DEF HostInv, InputsAreKnown
<1>12. AdmittedIsFresh'
  <2>1. c.lease.inst = host.inst /\ c.lease.gen = host.gen
    BY <1>2, <1>3 DEF HostInv, LeaseIsLast
  <2>2. host.inst \in Nat /\ host.gen \in Nat
    BY DEF HostInv, HostTypeOK
  <2>3. \A i \in 1..Len(inputs) : inputs[i].cmd.lease \in Lease
    BY InputTypes
  <2>4. \A i \in 1..Len(inputs) : Before(inputs[i].cmd.lease, c.lease)
    BY <2>1, <2>2, <2>3 DEF HostInv, InputsAreKnown, Before, Lease
  <2>5. ~ActedHere(exec.req)'
    BY <1>3, <1>4, <1>5 DEF ActedHere
  <2> QED
    BY <1>3, <1>4, <1>5, <1>10, <2>1, <2>2, <2>4, <2>5 DEF AdmittedIsFresh
<1>13. TableIsKeyed'
  BY <1>2, <1>3, <1>9, <1>10 DEF HostInv, TableIsKeyed
<1>14. ReceiptsTrue'
  <2>1. \A r \in Requests : ActedHere(r)' <=> ActedHere(r)
    BY <1>5 DEF ActedHere
  <2>2. \A r \in Requests \ {c.req} :
          seen[r] # NoCommand => receipt[r] # "none"
    BY <1>5 DEF HostInv, ReceiptsTrue, HostTypeOK
  <2> QED
    BY <1>2, <1>3, <1>4, <1>9, <1>10, <2>1, <2>2 DEF HostInv, ReceiptsTrue
<1> QED
  BY <1>7, <1>8, <1>11, <1>12, <1>13, <1>14 DEF HostInv

\* What the history of inputs becomes when the admitted command acted or not.
LEMMA LandedIs ==
  ASSUME HostInv, exec # NoCommand, NEW acted \in BOOLEAN, Landed(acted)
  PROVE  /\ inputs' \in Seq(Input)
         /\ Len(inputs') = IF acted THEN Len(inputs) + 1 ELSE Len(inputs)
         /\ \A i \in 1..Len(inputs) : inputs'[i] = inputs[i]
         /\ acted => inputs'[Len(inputs) + 1] = [cmd |-> exec, at |-> snap]
<1>1. [cmd |-> exec, at |-> snap] \in Input /\ inputs \in Seq(Input)
  BY DEF HostInv, HostTypeOK, Input
<1> QED
  BY <1>1 DEF Landed

\* A landed input keeps the history in order, whatever becomes of the Host.
LEMMA LandedKeeps ==
  ASSUME HostInv, exec # NoCommand, NEW acted \in BOOLEAN, Landed(acted)
  PROVE  AtMostOnce' /\ InputsInOrder' /\ LandsWhereAimed'
<1>1. /\ Len(inputs') = IF acted THEN Len(inputs) + 1 ELSE Len(inputs)
      /\ \A i \in 1..Len(inputs) : inputs'[i] = inputs[i]
      /\ acted => inputs'[Len(inputs) + 1] = [cmd |-> exec, at |-> snap]
      /\ Len(inputs) \in Nat
  BY LandedIs DEF HostInv, HostTypeOK
<1>2. \A i \in 1..Len(inputs') : \/ i \in 1..Len(inputs)
                                 \/ acted /\ i = Len(inputs) + 1
  BY <1>1
<1>3. /\ \A i \in 1..Len(inputs) : Before(inputs[i].cmd.lease, exec.lease)
      /\ ~ActedHere(exec.req) /\ exec.lease.inst = host.inst
      /\ exec.snap = snap
  BY DEF HostInv, AdmittedIsFresh
<1>4. LandsWhereAimed'
  BY <1>1, <1>2, <1>3 DEF HostInv, LandsWhereAimed
<1>5. InputsInOrder'
  BY <1>1, <1>2, <1>3 DEF HostInv, InputsInOrder
<1>6. AtMostOnce'
  <2>1. \A i \in 1..Len(inputs) :
          /\ inputs[i].cmd # exec
          /\ inputs[i].cmd.lease.inst = exec.lease.inst
               => inputs[i].cmd.req # exec.req
    BY <1>3 DEF ActedHere
  <2> QED
    BY <1>1, <1>2, <2>1 DEF HostInv, AtMostOnce
<1> QED
  BY <1>4, <1>5, <1>6

LEMMA NativeInputKeeps ==
  ASSUME HostInv, NEW o \in Outcomes, NativeInput(o)
  PROVE  HostInv'
<1>0. exec # NoCommand /\ Landed(o.acted) /\ exec \in Command
  BY DEF HostInv, HostTypeOK, NativeInput
<1>1. /\ exec # NoCommand /\ exec \in Command /\ exec.req \in Requests
      /\ o.acted \in BOOLEAN
      /\ o.delivery \in {"delivered", "not_delivered", "unknown"}
      /\ Landed(o.acted)
  <2>1. exec.req \in Requests
    BY <1>0 DEF Command
  <2>2. /\ o.acted \in BOOLEAN
        /\ o.delivery \in {"delivered", "not_delivered", "unknown"}
    <3>1. CASE o = [acted |-> TRUE, delivery |-> "delivered"]
      BY <3>1
    <3>2. CASE o = [acted |-> FALSE, delivery |-> "not_delivered"]
      BY <3>2
    <3>3. CASE o = [acted |-> TRUE, delivery |-> "unknown"]
      BY <3>3
    <3>4. CASE o = [acted |-> FALSE, delivery |-> "unknown"]
      BY <3>4
    <3> QED
      BY <3>1, <3>2, <3>3, <3>4 DEF Outcomes
  <2> QED
    BY <1>0, <2>1, <2>2
<1>2. /\ receipt' = [receipt EXCEPT ![exec.req] = o.delivery]
      /\ exec' = NoCommand /\ snap' \in Nat
      /\ UNCHANGED <<host, granted, queue, frame, seen, posted>>
  BY DEF HostInv, HostTypeOK, NativeInput, control
<1>3. /\ inputs' \in Seq(Input)
      /\ Len(inputs') = IF o.acted THEN Len(inputs) + 1 ELSE Len(inputs)
      /\ \A i \in 1..Len(inputs) : inputs'[i] = inputs[i]
      /\ o.acted => inputs'[Len(inputs) + 1] = [cmd |-> exec, at |-> snap]
      /\ Len(inputs) \in Nat
  BY <1>1, LandedIs DEF HostInv, HostTypeOK
<1>4. AtMostOnce' /\ InputsInOrder' /\ LandsWhereAimed'
  BY <1>1, LandedKeeps
<1>5. HostTypeOK'
  BY <1>1, <1>2, <1>3 DEF HostInv, HostTypeOK, Delivery
<1>6. LeaseIsLast' /\ AdmittedIsFresh'
  BY <1>2 DEF HostInv, LeaseIsLast, AdmittedIsFresh
<1>7. /\ seen[exec.req] = exec /\ receipt[exec.req] = "none"
      /\ exec.lease.inst = host.inst /\ exec.lease.gen <= host.gen
      /\ ~ActedHere(exec.req) /\ host.inst \in Nat
  BY <1>1 DEF HostInv, AdmittedIsFresh, HostTypeOK
<1>8. InputsAreKnown'
  BY <1>2, <1>3, <1>7 DEF HostInv, InputsAreKnown
<1>9. /\ receipt'[exec.req] = o.delivery
      /\ \A r \in Requests : r # exec.req => receipt'[r] = receipt[r]
  BY <1>1, <1>2 DEF HostInv, HostTypeOK
<1>10. TableIsKeyed'
  BY <1>1, <1>2, <1>7, <1>9 DEF HostInv, TableIsKeyed
<1>r. PICK r \in Requests : r = exec.req
  BY <1>1
<1>11. ReceiptsTrue'
  <2>0. \A i \in 1..Len(inputs') :
          \/ i \in 1..Len(inputs) /\ inputs'[i] = inputs[i]
          \/ o.acted /\ i = Len(inputs) + 1 /\ inputs'[i].cmd = exec
    BY <1>3
  <2>a. \A i \in 1..Len(inputs) : i \in 1..Len(inputs')
    BY <1>3
  <2>b. host' = host
    BY <1>2
  <2>1. \A q \in Requests : q # r => (ActedHere(q)' <=> ActedHere(q))
    <3>1. ASSUME NEW q \in Requests, ActedHere(q) PROVE ActedHere(q)'
      BY <1>3, <2>a, <2>b, <3>1 DEF ActedHere
    <3>2. ASSUME NEW q \in Requests, q # r, ActedHere(q)'
          PROVE  ActedHere(q)
      BY <1>r, <2>0, <2>b, <3>2 DEF ActedHere
    <3> QED
      BY <3>1, <3>2
  <2>2. ActedHere(r)' <=> o.acted
    <3>1. ASSUME o.acted PROVE ActedHere(r)'
      <4>1. Len(inputs) + 1 \in 1..Len(inputs')
        BY <1>3, <3>1
      <4>2. inputs'[Len(inputs) + 1].cmd = exec
        BY <1>3, <3>1
      <4>3. exec.lease.inst = host'.inst
        BY <1>7, <2>b
      <4> QED
        BY <1>r, <4>1, <4>2, <4>3 DEF ActedHere
    <3>2. ASSUME ~o.acted, ActedHere(r)' PROVE FALSE
      BY <1>7, <1>r, <2>0, <2>b, <3>2 DEF ActedHere
    <3> QED
      BY <3>1, <3>2
  <2>3. /\ o.delivery = "delivered" => o.acted
        /\ o.delivery = "not_delivered" => ~o.acted
        /\ o.delivery # "none"
    BY DEF Outcomes
  <2> QED
    <3>1. ASSUME NEW q \in Requests, q # r
          PROVE  /\ receipt'[q] = "delivered" => ActedHere(q)'
                 /\ receipt'[q] \in {"none", "not_delivered"} => ~ActedHere(q)'
                 /\ seen'[q] # NoCommand => receipt'[q] # "none"
      <4>1. receipt'[q] = receipt[q] /\ seen'[q] = seen[q]
        BY <1>2, <1>9, <1>r, <3>1
      <4>2. ActedHere(q)' <=> ActedHere(q)
        BY <2>1, <3>1
      <4>3. seen[q] # NoCommand => receipt[q] # "none"
        BY <1>1, <1>r, <3>1 DEF HostInv, ReceiptsTrue, TableIsKeyed
      <4> QED
        BY <4>1, <4>2, <4>3 DEF HostInv, ReceiptsTrue
    <3>2. receipt'[r] = o.delivery
      BY <1>9, <1>r
    <3> QED
      BY <2>2, <2>3, <3>1, <3>2 DEF ReceiptsTrue
<1> QED
  BY <1>4, <1>5, <1>6, <1>8, <1>10, <1>11 DEF HostInv

LEMMA FramesKeep ==
  ASSUME HostInv, DropAfterBatch \/ FrameEnds \/ GameMoves
  PROVE  HostInv'
<1>0. /\ UNCHANGED <<host, granted, exec, seen, receipt, inputs, posted>>
      /\ queue' \in Seq(Command) /\ frame' \in 0..FrameBatch /\ snap' \in Nat
      /\ exec # NoCommand => snap' = snap
  <2>1. queue \in Seq(Command) /\ snap \in Nat /\ frame \in 0..FrameBatch
    BY DEF HostInv, HostTypeOK
  <2>2. CASE DropAfterBatch
    BY <2>1, <2>2 DEF DropAfterBatch, control
  <2>3. CASE FrameEnds
    BY <2>1, <2>3 DEF FrameEnds, control
  <2>4. CASE GameMoves
    BY <2>1, <2>4 DEF GameMoves, control, thread
  <2> QED
    BY <2>2, <2>3, <2>4
<1>1. Quiet
  BY <1>0 DEF HostInv, HostTypeOK, Quiet
<1>2. LeaseIsLast'
  BY DEF HostInv, LeaseIsLast, DropAfterBatch, FrameEnds, GameMoves, control
<1> QED
  BY <1>1, <1>2, QuietKeeps

LEMMA HostRestartsKeeps ==
  ASSUME HostInv, HostRestarts
  PROVE  HostInv'
<1>1. PICK acted \in IF exec = NoCommand THEN {FALSE} ELSE BOOLEAN : Landed(acted)
  BY DEF HostRestarts
<1>2. /\ host' = NewHost(host.inst + 1) /\ queue' = <<>> /\ frame' = 0
      /\ exec' = NoCommand /\ snap' = snap + 1
      /\ seen' = [r \in Requests |-> NoCommand]
      /\ receipt' = [r \in Requests |-> "none"]
      /\ UNCHANGED <<granted, posted>>
  BY DEF HostRestarts
<1>3. host.inst \in Nat /\ host'.inst = host.inst + 1 /\ host'.lease = NoLease
  BY <1>2 DEF HostInv, HostTypeOK, NewHost
<1>4. /\ inputs' \in Seq(Input)
      /\ AtMostOnce' /\ InputsInOrder' /\ LandsWhereAimed'
      /\ \A i \in 1..Len(inputs') : inputs'[i].cmd.lease.inst <= host.inst
  <2>1. CASE exec = NoCommand
    <3>1. inputs' = inputs
      BY <1>1, <2>1 DEF Landed
    <3> QED
      BY <3>1 DEF HostInv, HostTypeOK, InputsAreKnown, AtMostOnce,
                  InputsInOrder, LandsWhereAimed
  <2>2. CASE exec # NoCommand
    <3>1. acted \in BOOLEAN
      BY <1>1, <2>2
    <3>2. exec.lease.inst = host.inst
      BY <2>2 DEF HostInv, AdmittedIsFresh
    <3>3. \A i \in 1..Len(inputs') : inputs'[i].cmd.lease.inst <= host.inst
      BY <1>1, <1>3, <2>2, <3>1, <3>2, LandedIs DEF HostInv, InputsAreKnown
    <3> QED
      BY <1>1, <2>2, <3>1, <3>3, LandedIs, LandedKeeps
  <2> QED
    BY <2>1, <2>2
<1>5. \A i \in 1..Len(inputs') : /\ inputs'[i].cmd.lease.inst \in Nat
                                 /\ inputs'[i].cmd.lease.inst < host'.inst
  <2>1. \A i \in 1..Len(inputs') : inputs'[i] \in Input
    BY <1>4, ElementOfSeq
  <2>2. \A x \in Input : x.cmd.lease.inst \in Nat
    BY DEF Input, Command, Lease
  <2> QED
    BY <1>3, <1>4, <2>1, <2>2
<1>6. HostTypeOK'
  BY <1>2, <1>3, <1>4 DEF HostInv, HostTypeOK, NewHost, Delivery
<1>7. InputsAreKnown' /\ \A r \in Requests : ~ActedHere(r)'
  BY <1>3, <1>5 DEF InputsAreKnown, ActedHere
<1>8. LeaseIsLast' /\ AdmittedIsFresh' /\ TableIsKeyed' /\ ReceiptsTrue'
  BY <1>2, <1>3, <1>7 DEF LeaseIsLast, AdmittedIsFresh, TableIsKeyed,
                          ReceiptsTrue
<1> QED
  BY <1>4, <1>6, <1>7, <1>8 DEF HostInv

-----------------------------------------------------------------------------
LEMMA MainThreadKeeps ==
  ASSUME HostInv, MainThread
  PROVE  HostInv'
BY NothingAdmittedKeeps, FailKeeps, AdmitKeeps, NativeInputKeeps, FramesKeep
   DEF MainThread

LEMMA StutterKeeps ==
  ASSUME HostInv, UNCHANGED hostVars
  PROVE  HostInv'
<1>1. Quiet /\ LeaseIsLast'
  BY DEF HostInv, HostTypeOK, LeaseIsLast, Quiet, hostVars, control, thread
<1> QED
  BY <1>1, QuietKeeps

\* A command that names a granted lease is one.
LEMMA ClientCallKeeps ==
  ASSUME HostInv, NEW c \in Clients, ClientCall(c)
  PROVE  HostInv'
<1>1. ASSUME NEW r \in Requests, NEW s \in 0..snap, NEW l \in granted,
             Post([req |-> r, snap |-> s, lease |-> l])
      PROVE  HostInv'
  <2>1. [req |-> r, snap |-> s, lease |-> l] \in Command
    BY <1>1 DEF HostInv, HostTypeOK, Command
  <2> QED
    BY <1>1, <2>1, PostKeeps
<1> QED
  BY <1>1, RegisterKeeps, AcquireKeeps, LeaseCallsKeep DEF ClientCall

\* The Host keeps HostInv whatever its clients do: leases handed from client
\* to client, repeated and reused request ids, expiry, restarts.
THEOREM HostInvariance == HostSpec => []HostInv
<1>1. ASSUME HostInv, HostNext PROVE HostInv'
  BY <1>1, ClientCallKeeps, LeaseCallsKeep, MainThreadKeeps, FramesKeep,
     HostRestartsKeeps DEF HostNext
<1> QED
  BY <1>1, InitHostInv, StutterKeeps, PTL DEF HostSpec

\* A request acts once (ActionSubmission.cs, the table of fingerprints).
THEOREM ActsAtMostOnce == HostSpec => []AtMostOnce
BY HostInvariance, PTL DEF HostInv

\* Control changes hands once and for all (Authorize, and the clock).
THEOREM LeasesInOrder == HostSpec => []InputsInOrder
BY HostInvariance, PTL DEF HostInv

\* An input lands on the snapshot it was decided on.
THEOREM AimIsCurrent == HostSpec => []LandsWhereAimed
BY HostInvariance, PTL DEF HostInv

\* Receipts tell what happened.
THEOREM ReceiptsTellTheTruth == HostSpec => []ReceiptsTrue
BY HostInvariance, PTL DEF HostInv
=============================================================================
