------------------------- MODULE MutationController -------------------------
(***************************************************************************)
(* The Player Environment Host, as far as it decides who may act on the    *)
(* game and how often: the controller lease                                *)
(* (Authority/MutationControllerCoordinator.cs), the queue of the game's   *)
(* main thread (ConnectorMod.cs) and the submission of a bound action      *)
(* (PlayerEnvironment/Execution/ActionSubmission.cs).                      *)
(*                                                                         *)
(* Lease calls run on pool threads, each under the coordinator's lock.  A  *)
(* submission is queued for the main thread, which runs it in two steps:   *)
(* Admit, up to and including Authorize, and NativeInput.  The game moves  *)
(* on the same thread, so only between submissions.                        *)
(*                                                                         *)
(* Abstractions.  `snap' numbers the snapshot the game shows; it never     *)
(* repeats, not even across Host processes.  A lease is its generation,    *)
(* its Host process and its client (the random lease id adds nothing).     *)
(* The exact action of a command is part of its request id: two commands   *)
(* with one id differ in snapshot or lease.                                *)
(***************************************************************************)
EXTENDS Integers, Sequences, FiniteSets

CONSTANTS
  Clients,      \* client instance ids
  Requests,     \* request ids
  MaxSessions,  \* size of the client registry (4096)
  LeaseTicks,   \* lease life in clock ticks (30 s)
  FrameBatch,   \* work items the main thread runs per frame (10)
  MaxGen,       \* bound: leases granted by one Host process
  MaxSnap,      \* bound: the game changes its snapshot below this number
  MaxHosts,     \* bound: Host processes
  MaxQueue,     \* bound: submissions waiting for the main thread
  NoLease,
  NoCommand

ASSUME ControllerConstantsOK ==
  /\ MaxSessions \in Nat \ {0}
  /\ LeaseTicks \in Nat \ {0}
  /\ FrameBatch \in Nat \ {0}
  /\ MaxGen \in Nat /\ MaxSnap \in Nat /\ MaxHosts \in Nat /\ MaxQueue \in Nat

VARIABLES
  host,     \* process number, registry, generation, lease and its life
  granted,  \* history: every lease ever granted
  queue,    \* submissions queued for the main thread
  frame,    \* work items run in this frame
  exec,     \* the submission between Authorize and its native input
  seen,     \* RequestFingerprints
  receipt,  \* Receipts
  snap,     \* the snapshot the game shows
  posted,   \* history: commands sent to any Host
  inputs    \* history: native inputs, with the snapshot they landed on

control == <<host, granted>>
thread  == <<queue, frame, exec, seen, receipt>>
hostVars == <<control, thread, snap, posted, inputs>>

-----------------------------------------------------------------------------
Lease   == [inst : Nat, gen : Nat, client : Clients]
Command == [req : Requests, snap : Nat, lease : Lease]
Input   == [cmd : Command, at : Nat]
Delivery == {"none", "not_delivered", "delivered", "unknown"}

ASSUME NothingOK == NoLease \notin Lease /\ NoCommand \notin Command

NewHost(i) == [inst |-> i, sessions |-> {}, gen |-> 0, lease |-> NoLease,
               life |-> 0]

HostInit ==
  /\ host = NewHost(1)
  /\ granted = {}
  /\ queue = <<>> /\ frame = 0 /\ exec = NoCommand
  /\ seen = [r \in Requests |-> NoCommand]
  /\ receipt = [r \in Requests |-> "none"]
  /\ snap = 0
  /\ posted = {} /\ inputs = <<>>

-----------------------------------------------------------------------------
(* MutationControllerCoordinator.  A refused call changes nothing that is   *)
(* modelled; an accepted one is an action.                                  *)

game == <<thread, snap, posted, inputs>>

RegisterOK(c) ==
  c \in host.sessions \/ Cardinality(host.sessions) < MaxSessions

Register(c) ==
  /\ RegisterOK(c)
  /\ host' = [host EXCEPT !.sessions = @ \cup {c}]
  /\ UNCHANGED <<granted, game>>

\* A client that holds control is given the lease it has.
AcquireOK(c) ==
  /\ c \in host.sessions
  /\ host.lease \in {NoLease} \cup {l \in granted : l.client = c}

NextLease(c) ==
  IF host.lease = NoLease
  THEN [inst |-> host.inst, gen |-> host.gen + 1, client |-> c]
  ELSE host.lease

Acquire(c) ==
  /\ AcquireOK(c)
  /\ host.lease = NoLease => host.gen < MaxGen
  /\ host' = [host EXCEPT !.lease = NextLease(c), !.gen = NextLease(c).gen,
                          !.life = IF host.lease = NoLease THEN LeaseTicks
                                                           ELSE @]
  /\ granted' = granted \cup {NextLease(c)}
  /\ UNCHANGED game

MatchesCurrentLease(l) == l # NoLease /\ host.lease = l

Renew(l) ==
  /\ MatchesCurrentLease(l)
  /\ host' = [host EXCEPT !.life = LeaseTicks]
  /\ UNCHANGED <<granted, game>>

Release(l) ==
  /\ MatchesCurrentLease(l)
  /\ host' = [host EXCEPT !.lease = NoLease, !.life = 0]
  /\ UNCHANGED <<granted, game>>

\* Every call expires a lease that is due before it looks at it, so the lease
\* ends when its life does.
ClockTick ==
  /\ host.lease # NoLease
  /\ host' = IF host.life = 1
             THEN [host EXCEPT !.lease = NoLease, !.life = 0]
             ELSE [host EXCEPT !.life = @ - 1]
  /\ UNCHANGED <<granted, game>>

-----------------------------------------------------------------------------
(* The main thread.                                                        *)

Post(c) ==
  /\ Len(queue) < MaxQueue
  /\ queue' = Append(queue, c)
  /\ posted' = posted \cup {c}
  /\ UNCHANGED <<control, frame, exec, seen, receipt, snap, inputs>>

Ready == exec = NoCommand /\ queue # <<>> /\ frame < FrameBatch

\* The next submission leaves the queue.
TakeNext ==
  /\ Ready
  /\ queue' = Tail(queue)
  /\ frame' = frame + 1
  /\ UNCHANGED <<control, snap, posted, inputs>>

\* A request id that was used before: the stored receipt or a conflict.
Replay ==
  /\ TakeNext
  /\ seen[Head(queue).req] # NoCommand
  /\ UNCHANGED <<exec, seen, receipt>>

\* The snapshot cannot be built: the request fails before it leaves a trace.
SnapshotUnavailable ==
  /\ TakeNext
  /\ seen[Head(queue).req] = NoCommand
  /\ UNCHANGED <<exec, seen, receipt>>

Authorize(l) == l.client \in host.sessions /\ MatchesCurrentLease(l)

\* A current command may still name an action that is not advertised now.
Fail ==
  LET c == Head(queue) IN
  /\ TakeNext
  /\ seen[c.req] = NoCommand
  /\ seen' = [seen EXCEPT ![c.req] = c]
  /\ receipt' = [receipt EXCEPT ![c.req] = "not_delivered"]
  /\ UNCHANGED exec

\* Bug_... operators are wrong variants of the definition that follows them.
\* The fingerprint table is not consulted.
Bug_AdmitAgain ==
  LET c == Head(queue) IN
  /\ TakeNext
  /\ c.snap = snap
  /\ Authorize(c.lease)
  /\ seen' = [seen EXCEPT ![c.req] = c]
  /\ exec' = c
  /\ UNCHANGED receipt

\* The snapshot is compared when the request is received, not when it is run.
Bug_AdmitStale ==
  LET c == Head(queue) IN
  /\ TakeNext
  /\ seen[c.req] = NoCommand
  /\ Authorize(c.lease)
  /\ seen' = [seen EXCEPT ![c.req] = c]
  /\ exec' = c
  /\ UNCHANGED receipt

Admit ==
  LET c == Head(queue) IN
  /\ TakeNext
  /\ seen[c.req] = NoCommand
  /\ c.snap = snap
  /\ Authorize(c.lease)
  /\ seen' = [seen EXCEPT ![c.req] = c]
  /\ exec' = c
  /\ UNCHANGED receipt

\* An exception of the native input is reported as a failure.
Bug_Outcomes == {[acted |-> TRUE,  delivery |-> "delivered"],
                 [acted |-> FALSE, delivery |-> "not_delivered"],
                 [acted |-> TRUE,  delivery |-> "not_delivered"]}

\* What the native input did, and what the Host makes of it.
Outcomes == {[acted |-> TRUE,  delivery |-> "delivered"],
             [acted |-> FALSE, delivery |-> "not_delivered"],
             [acted |-> TRUE,  delivery |-> "unknown"],
             [acted |-> FALSE, delivery |-> "unknown"]}

Landed(acted) ==
  inputs' = IF acted THEN Append(inputs, [cmd |-> exec, at |-> snap])
                     ELSE inputs

\* The game may show the effect at once.
NativeInput(o) ==
  /\ exec # NoCommand
  /\ receipt' = [receipt EXCEPT ![exec.req] = o.delivery]
  /\ Landed(o.acted)
  /\ snap' \in {snap} \cup IF o.acted /\ snap < MaxSnap THEN {snap + 1} ELSE {}
  /\ exec' = NoCommand
  /\ UNCHANGED <<control, queue, frame, seen, posted>>

\* ProcessMainThreadQueue dequeues before it compares the count: the item
\* after a full batch is taken from the queue and not run.
DropAfterBatch ==
  /\ exec = NoCommand /\ frame = FrameBatch /\ queue # <<>>
  /\ queue' = Tail(queue)
  /\ frame' = 0
  /\ UNCHANGED <<control, exec, seen, receipt, snap, posted, inputs>>

FrameEnds ==
  /\ exec = NoCommand /\ queue = <<>> /\ frame > 0
  /\ frame' = 0
  /\ UNCHANGED <<control, queue, exec, seen, receipt, snap, posted, inputs>>

\* The game animates, or the player acts on it.
GameMoves ==
  /\ exec = NoCommand
  /\ snap < MaxSnap
  /\ snap' = snap + 1
  /\ UNCHANGED <<control, thread, posted, inputs>>

\* The game exits, during a native input perhaps, and is started again.
HostRestarts ==
  /\ host.inst < MaxHosts
  /\ host' = NewHost(host.inst + 1)
  /\ queue' = <<>> /\ frame' = 0 /\ exec' = NoCommand
  /\ seen' = [r \in Requests |-> NoCommand]
  /\ receipt' = [r \in Requests |-> "none"]
  /\ snap' = snap + 1
  /\ \E acted \in IF exec = NoCommand THEN {FALSE} ELSE BOOLEAN : Landed(acted)
  /\ UNCHANGED <<granted, posted>>

MainThread ==
  \/ Replay \/ SnapshotUnavailable \/ Fail \/ Admit
  \/ \E o \in Outcomes : NativeInput(o)
  \/ DropAfterBatch \/ FrameEnds

\* What a client of the Host may do: it presents leases it was granted and
\* snapshots it may have seen, and repeats or reuses request ids.
ClientCall(c) ==
  \/ Register(c)
  \/ Acquire(c)
  \/ \E l \in granted : l.client = c /\ (Renew(l) \/ Release(l))
  \/ \E r \in Requests, s \in 0..snap, l \in granted :
       l.client = c /\ Post([req |-> r, snap |-> s, lease |-> l])

HostNext ==
  \/ \E c \in Clients : ClientCall(c)
  \/ ClockTick
  \/ MainThread
  \/ GameMoves
  \/ HostRestarts

HostSpec == HostInit /\ [][HostNext]_hostVars

-----------------------------------------------------------------------------
(* Correctness.                                                            *)

HostTypeOK ==
  /\ host \in [inst : Nat, sessions : SUBSET Clients, gen : Nat,
               lease : Lease \cup {NoLease}, life : 0..LeaseTicks]
  /\ granted \subseteq Lease
  /\ queue \in Seq(Command)
  /\ frame \in 0..FrameBatch
  /\ exec \in Command \cup {NoCommand}
  /\ seen \in [Requests -> Command \cup {NoCommand}]
  /\ receipt \in [Requests -> Delivery]
  /\ snap \in Nat
  /\ posted \subseteq Command
  /\ inputs \in Seq(Input)

\* However often a request is sent, and whatever is sent under its id, it acts
\* on the game once in a Host process; and a command never acts in two
\* processes (ActionSubmission.cs:49, the replay of a used request id).
AtMostOnce ==
  \A i, j \in 1..Len(inputs) :
    i < j => /\ inputs[i].cmd # inputs[j].cmd
             /\ inputs[i].cmd.lease.inst = inputs[j].cmd.lease.inst
                  => inputs[i].cmd.req # inputs[j].cmd.req

Before(l, m) == l.inst < m.inst \/ (l.inst = m.inst /\ l.gen <= m.gen)

\* Control changes hands once and for all: after an input under a lease no
\* input lands under an older one, although a lease may expire and be granted
\* to another client while an admitted command still waits for its native
\* input (MutationControllerCoordinator.cs:169, Authorize).
InputsInOrder ==
  \A i, j \in 1..Len(inputs) :
    i < j => Before(inputs[i].cmd.lease, inputs[j].cmd.lease)

\* An input lands on the snapshot its client decided on, however long the
\* command waited in the queue of the main thread (ActionSubmission.cs:103).
LandsWhereAimed ==
  \A i \in 1..Len(inputs) : inputs[i].at = inputs[i].cmd.snap

ActedHere(r) ==
  \E i \in 1..Len(inputs) : /\ inputs[i].cmd.req = r
                            /\ inputs[i].cmd.lease.inst = host.inst

\* A receipt tells the truth about this Host process: delivered commands
\* acted, not_delivered commands did not and never will, and a request
\* without a receipt acted only if it is being executed (FindReceipt and the
\* replay answer from the same table).
ReceiptsTrue ==
  \A r \in Requests :
    /\ receipt[r] = "delivered" => ActedHere(r)
    /\ receipt[r] \in {"none", "not_delivered"} => ~ActedHere(r)
    /\ seen[r] # NoCommand /\ receipt[r] = "none" => exec = seen[r]
-----------------------------------------------------------------------------
(* Why: the inductive invariant.                                           *)

\* The lease in force is the last one this process granted, and not due.
LeaseIsLast ==
  host.lease # NoLease =>
    /\ host.lease.inst = host.inst /\ host.lease.gen = host.gen
    /\ host.life > 0

\* What acted here is on the table, and was bound to a lease granted before.
InputsAreKnown ==
  \A i \in 1..Len(inputs) :
    LET c == inputs[i].cmd IN
    /\ c.lease.inst <= host.inst
    /\ c.lease.inst = host.inst => c.lease.gen <= host.gen /\ seen[c.req] = c

\* An admitted command is the first of its id and the last of its lease.
AdmittedIsFresh ==
  exec # NoCommand =>
    /\ seen[exec.req] = exec /\ receipt[exec.req] = "none"
    /\ exec.lease.inst = host.inst /\ exec.lease.gen <= host.gen
    /\ exec.snap = snap
    /\ ~ActedHere(exec.req)
    /\ \A i \in 1..Len(inputs) : Before(inputs[i].cmd.lease, exec.lease)

TableIsKeyed ==
  \A r \in Requests : IF seen[r] = NoCommand THEN receipt[r] = "none"
                                              ELSE seen[r].req = r

HostInv ==
  /\ HostTypeOK
  /\ LeaseIsLast /\ InputsAreKnown /\ AdmittedIsFresh /\ TableIsKeyed
  /\ AtMostOnce /\ InputsInOrder /\ LandsWhereAimed /\ ReceiptsTrue
=============================================================================
