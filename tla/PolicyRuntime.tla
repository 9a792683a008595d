--------------------------- MODULE PolicyRuntime ---------------------------
(***************************************************************************)
(* The Policy Runtime (components/policy-runtime) that lets a model play,  *)
(* with its controller sessions (the Connector SDK), next to the Host of   *)
(* MutationController, a rival client and a person who takes over.         *)
(*                                                                         *)
(* The runtime is a Node process: a command has a part that runs when it   *)
(* is called (Ask...) and a part that waits its turn in one promise chain  *)
(* (`ops', the head is running).  `rt.pc' is the await the running command *)
(* is at; between two awaits nothing else of the runtime runs.  `sess' are *)
(* the controller sessions ever opened; a closed one may still have a call *)
(* in flight.                                                              *)
(*                                                                         *)
(* Abstractions.  Observing and scoring are one await each.  A guarded     *)
(* command carries the recovery epoch and the game it was prepared for; a  *)
(* command without guard is the legacy form.  Session k uses client k and  *)
(* decision n uses request n.  Evidence keeps what a reader relies on: the *)
(* decisions, the receipts and the seal.                                   *)
(***************************************************************************)
EXTENDS MutationController

CONSTANTS
  Rivals,        \* clients that are not this runtime
  MaxOwn,        \* bound: sessions of the runtime
  MaxDecisions,  \* bound: decisions that select an action
  Scenes         \* bounds of which one set holds in a behaviour

ASSUME RuntimeConstantsOK ==
  /\ MaxOwn \in Nat /\ MaxDecisions \in Nat
  /\ Scenes \subseteq [asks      : Nat,       \* commands of people and programs
                       modes     : SUBSET {"shadow", "one_step", "auto"},
                       start     : {"human", "shadow", "one_step", "auto"},
                       decisions : 0..MaxDecisions,
                       snaps     : 0..MaxSnap,
                       hosts     : 1..MaxHosts, \* Host processes
                       others    : BOOLEAN]     \* rivals and repeated requests
  /\ Clients = (1..MaxOwn) \cup Rivals
  /\ Rivals \cap (1..MaxOwn) = {}
  /\ 1..MaxDecisions \subseteq Requests

VARIABLES
  rt,    \* PolicyRuntime
  ops,   \* the promise chain
  sess,  \* EnvironmentControllerSession, one per acquisition
  ev,    \* AgentRunEvidence
  hist   \* history: who asked what, what it led to

runtime == <<rt, ops, sess, ev>>
vars == <<hostVars, runtime, hist>>

-----------------------------------------------------------------------------
Modes  == {"human", "shadow", "one_step", "auto"}
Driven == {"auto", "shadow"}
NoGuard == [epoch |-> 0, game |-> 0]
Guards == [epoch : Nat, game : Nat]      \* game 0: not guarded

Op == {o \in [kind : {"mode", "tick", "stop"}, mode : Modes \cup {"none"},
              guard : Guards] : o.kind = "mode" <=> o.mode # "none"}
Idle == [lease |-> NoLease, closed |-> FALSE, call |-> "none"]

Runtime(mode) ==
  [mode |-> mode, held |-> FALSE, tainted |-> FALSE, stopped |-> FALSE,
   requested |-> "none", stopReq |-> FALSE, epoch |-> 1, ticking |-> FALSE,
   game |-> 0, pc |-> "idle", after |-> "end", giving |-> NoLease, aim |-> 0,
   decided |-> 0, opened |-> 0]

Init ==
  /\ HostInit
  /\ ops = <<>>
  /\ sess = [k \in 1..MaxOwn |-> Idle]
  /\ ev = [decided |-> 0, receipts |-> {}, sealed |-> "no"]
  /\ \E scene \in Scenes :
       /\ rt = Runtime(scene.start)
       /\ hist = [asks |-> 0, handed |-> FALSE, legacy |-> FALSE,
                  steps |-> IF scene.start = "one_step" THEN 1 ELSE 0,
                  stepPosts |-> 0, scene |-> scene]

-----------------------------------------------------------------------------
(* Commands, as far as they run when they are called.                      *)

asked == <<hostVars, sess, ev>>

Enqueue(op) == ops' = Append(ops, op)

\* The last command of a person hands the game over; `legacy' remembers that
\* an unguarded mode command was still waiting then.
Handed ==
  hist' = [hist EXCEPT !.asks = @ + 1, !.handed = TRUE,
             !.legacy = \E i \in 1..Len(ops) :
                          /\ ops[i].kind = "mode"
                          /\ ops[i].mode # "human"
                          /\ ops[i].guard = NoGuard]

AskHuman ==
  /\ hist.asks < hist.scene.asks
  /\ rt' = [rt EXCEPT !.epoch = @ + 1, !.requested = "human"]
  /\ Enqueue([kind |-> "mode", mode |-> "human", guard |-> NoGuard])
  /\ Handed
  /\ UNCHANGED asked

AskStop ==
  /\ hist.asks < hist.scene.asks
  /\ rt' = [rt EXCEPT !.epoch = @ + 1, !.stopReq = TRUE]
  /\ Enqueue([kind |-> "stop", mode |-> "none", guard |-> NoGuard])
  /\ Handed
  /\ UNCHANGED asked

AskMode(m, g) ==
  /\ hist.asks < hist.scene.asks
  /\ rt' = [rt EXCEPT !.requested = IF g = NoGuard THEN m ELSE @]
  /\ Enqueue([kind |-> "mode", mode |-> m, guard |-> g])
  /\ hist' = [hist EXCEPT !.asks = @ + 1,
                !.handed = @ /\ g # NoGuard /\ g.epoch < rt.epoch]
  /\ UNCHANGED asked

Fresh(g) == g # NoGuard => g.epoch = rt.epoch

AskTick(g) ==
  /\ Fresh(g)
  /\ ~rt.ticking
  /\ rt' = [rt EXCEPT !.ticking = TRUE]
  /\ Enqueue([kind |-> "tick", mode |-> "none", guard |-> g])
  /\ UNCHANGED asked

UserTick(g) ==
  /\ hist.asks < hist.scene.asks
  /\ AskTick(g)
  /\ hist' = [hist EXCEPT !.asks = @ + 1]

\* The worker of the HTTP server ticks while the mode is driven.
WorkerTick ==
  /\ rt.mode \in Driven /\ ~rt.tainted
  /\ AskTick(NoGuard)
  /\ UNCHANGED hist

-----------------------------------------------------------------------------
(* The running command.                                                    *)

op == Head(ops)
At(pc) == ops # <<>> /\ rt.pc = pc
Goto(r, pc) == rt' = [r EXCEPT !.pc = pc] /\ UNCHANGED ops

Finish(r) ==
  /\ rt' = [r EXCEPT
       !.pc = "idle",
       !.requested = IF op.kind = "mode" /\ op.mode = @ THEN "none" ELSE @,
       !.ticking = @ /\ op.kind # "tick",
       !.aim = 0, !.after = "end"]
  /\ ops' = Tail(ops)

\* A queued Stop does not cancel the tick that is under way.
Bug_Cancelled == rt.requested \in {"human", "shadow"}

Cancelled == rt.stopReq \/ rt.requested \in {"human", "shadow"}

\* The rest of a command once control is given up.
Resume(r, after) ==
  CASE after = "end"   -> Finish(r)
    [] after = "human" -> Finish([r EXCEPT !.mode = "human"])
    [] after = "stop"  -> Goto(r, "stopping")
    [] after = "mode"  -> IF op.mode # "human" /\ ~Fresh(op.guard)
                          THEN Finish(r)
                          ELSE Goto([r EXCEPT !.mode = op.mode], "recording")

\* releaseController, up to its await: the session is closed first.
GiveUp(r, after) ==
  IF r.held
  THEN /\ Goto([r EXCEPT !.after = after, !.giving = sess[r.opened].lease],
               "releasing")
       /\ sess' = [sess EXCEPT ![r.opened].closed = TRUE]
  ELSE /\ Resume(r, after)
       /\ UNCHANGED sess

FailClosed(r) == GiveUp([r EXCEPT !.mode = "human"], "end")
Taint(r) == FailClosed([r EXCEPT !.tainted = TRUE])

\* The release call arrives or is lost; the lease then ends with its life.
Releasing ==
  /\ At("releasing")
  /\ Release(rt.giving) \/ UNCHANGED hostVars
  /\ Resume([rt EXCEPT !.held = FALSE, !.giving = NoLease], rt.after)
  /\ UNCHANGED <<sess, ev, hist>>

\* A command whose preconditions hold.
BeginStop(r) ==
  IF r.stopped THEN Finish(r) /\ UNCHANGED sess ELSE GiveUp(r, "stop")

BeginTick(r) ==
  /\ IF r.stopped \/ r.tainted \/ r.mode = "human"
     THEN Finish(r) ELSE Goto(r, "capabilities")
  /\ UNCHANGED sess

Refused(r) == r.stopped \/ (r.tainted /\ op.mode # "human")

BeginMode(r) ==
  \/ Refused(r) /\ Finish(r) /\ UNCHANGED sess
  \/ ~Refused(r) /\ op.mode = "auto" /\ Resume(r, "mode") /\ UNCHANGED sess
  \/ ~Refused(r) /\ op.mode # "auto" /\ GiveUp(r, "mode")

Begin(r) ==
  \/ op.kind = "stop" /\ BeginStop(r)
  \/ op.kind = "tick" /\ BeginTick(r)
  \/ /\ op.kind = "mode"
     /\ BeginMode(IF op.mode = "human" THEN r
                  ELSE [r EXCEPT !.requested = op.mode])

Start ==
  /\ At("idle")
  /\ IF op.guard = NoGuard THEN Begin(rt)
     ELSE /\ IF Fresh(op.guard) THEN Goto(rt, "checking") ELSE Finish(rt)
          /\ UNCHANGED sess
  /\ UNCHANGED <<hostVars, ev, hist>>

\* The fresh capabilities are awaited without a timeout.
Bug_Check ==
  /\ At("checking")
  /\ rt.game \in {0, host.inst} /\ op.guard.game = host.inst /\ Fresh(op.guard)
  /\ Begin(rt)
  /\ UNCHANGED <<hostVars, ev, hist>>

\* The fresh capabilities name the game that is running, if it answers.
Check ==
  /\ At("checking")
  /\ \/ /\ rt.game \in {0, host.inst}
        /\ op.guard.game = host.inst
        /\ Fresh(op.guard)
        /\ Begin(rt)
     \/ Finish(rt) /\ UNCHANGED sess
  /\ UNCHANGED <<hostVars, ev, hist>>

\* mode_changed is on disk, or the mode falls back to human.
Record ==
  /\ At("recording")
  /\ \/ /\ Finish(rt)
        /\ hist' = [hist EXCEPT !.steps =
                      @ + IF op.mode = "one_step" THEN 1 ELSE 0]
        /\ UNCHANGED sess
     \/ FailClosed(rt) /\ UNCHANGED hist
  /\ UNCHANGED <<hostVars, ev>>

\* A seal that cannot be written is not tried again.
Stop ==
  /\ At("stopping")
  /\ \E written, sealed \in BOOLEAN :
       LET r == [rt EXCEPT !.mode = "human", !.stopped = TRUE,
                           !.tainted = @ \/ ~written] IN
       /\ Finish(r)
       /\ ev' = [ev EXCEPT !.sealed = IF ~sealed THEN @
                                      ELSE IF r.tainted THEN "tainted"
                                                        ELSE "clean"]
  /\ UNCHANGED <<hostVars, sess, hist>>

-----------------------------------------------------------------------------
(* A tick.                                                                 *)

\* The capabilities are cached: the first ones name the game of the run.
Capabilities ==
  /\ At("capabilities")
  /\ \/ /\ Goto([rt EXCEPT !.game = IF @ = 0 THEN host.inst ELSE @], "observe")
        /\ UNCHANGED sess
     \/ FailClosed(rt)
  /\ UNCHANGED <<hostVars, ev, hist>>

Observe ==
  /\ At("observe")
  /\ \/ /\ rt.game = host.inst
        /\ Goto([rt EXCEPT !.aim = snap], "score")
        /\ UNCHANGED sess
     \/ FailClosed(rt)                                \* error, another game
     \/ Finish(rt) /\ UNCHANGED sess                  \* stale, not admitted
     \/ rt.mode = "auto" /\ GiveUp(rt, "human")       \* not admitted
  /\ UNCHANGED <<hostVars, ev, hist>>

\* The decision is on disk before it is acted on.
Score ==
  /\ At("score")
  /\ \/ FailClosed(rt) /\ UNCHANGED ev
     \/ rt.mode = "shadow" /\ Finish(rt) /\ UNCHANGED <<sess, ev>>
     \/ rt.mode # "shadow" /\ GiveUp(rt, "human") /\ UNCHANGED ev  \* abstains
     \/ /\ rt.mode # "shadow"
        /\ rt.decided < hist.scene.decisions
        /\ ev' = [ev EXCEPT !.decided = rt.decided + 1]
        /\ LET r == [rt EXCEPT !.decided = @ + 1] IN
             IF Cancelled THEN Finish(r)
             ELSE Goto(r, IF rt.held THEN "submit" ELSE "register")
        /\ UNCHANGED sess
  /\ UNCHANGED <<hostVars, hist>>

\* A session is for the game whose capabilities the runtime holds.
RegisterSession ==
  LET k == rt.opened + 1 IN
  /\ At("register")
  /\ \/ /\ k <= MaxOwn
        /\ Register(k)
        /\ IF rt.game = host.inst
           THEN Goto([rt EXCEPT !.opened = k], "acquire") /\ UNCHANGED sess
           ELSE FailClosed(rt)
     \/ FailClosed(rt) /\ UNCHANGED hostVars
  /\ UNCHANGED <<ev, hist>>

\* The call may be refused, lost, or granted with its answer lost; then the
\* session is dropped and nothing renews or releases the lease.
AcquireControl ==
  LET k == rt.opened IN
  /\ At("acquire")
  /\ \/ /\ Acquire(k)
        /\ LET r == [rt EXCEPT !.held = TRUE] IN
           \/ /\ ~Cancelled
              /\ Goto(r, "submit")
              /\ sess' = [sess EXCEPT ![k].lease = NextLease(k)]
           \/ \* cancelled, or controller_acquired could not be recorded
              \E m \in {rt.mode, "human"} :
                /\ Cancelled \/ m = "human"
                /\ Goto([r EXCEPT !.mode = m, !.after = "end",
                                  !.giving = NextLease(k)], "releasing")
                /\ sess' = [sess EXCEPT ![k].lease = NextLease(k),
                                        ![k].closed = TRUE]
     \/ /\ Acquire(k) \/ UNCHANGED hostVars
        /\ Finish([rt EXCEPT !.mode = "human"])
        /\ sess' = [sess EXCEPT ![k].closed = TRUE]
  /\ UNCHANGED <<ev, hist>>

own == rt.opened    \* the session in use

Send ==
  /\ Post([req |-> rt.decided, snap |-> rt.aim, lease |-> sess[own].lease])
  /\ Goto(rt, "reply")
  /\ hist' = [hist EXCEPT !.stepPosts =
                @ + IF rt.mode = "one_step" THEN 1 ELSE 0]
  /\ UNCHANGED <<sess, ev>>

\* credentials(): a fresh lease is used as it is, an old one renewed first.
Submit ==
  /\ At("submit")
  /\ sess[own].call = "none"
  /\ \/ sess[own].lease # NoLease /\ Send
     \/ /\ Goto(rt, "credentials")
        /\ sess' = [sess EXCEPT ![own].call =
                      IF @ = "none" /\ sess[own].lease # NoLease
                      THEN "renew" ELSE "acquire"]
        /\ UNCHANGED <<hostVars, ev, hist>>

SubmitRenewed ==
  /\ At("credentials")
  /\ sess[own].call = "none"
  /\ \/ sess[own].lease # NoLease /\ Send
     \/ /\ sess[own].lease = NoLease
        /\ Taint(rt)
        /\ UNCHANGED <<hostVars, ev, hist>>

\* A receipt that cannot be recorded is reported and forgotten.
Bug_Reply ==
  LET d == receipt[rt.decided] IN
  /\ At("reply")
  /\ d # "none"
  /\ ev' \in {ev, [ev EXCEPT !.receipts = @ \cup {rt.decided}]}
  /\ CASE d = "delivered" -> Goto(rt, "successor") /\ UNCHANGED sess
       [] d = "unknown" -> Taint(rt)
       [] d = "not_delivered" -> GiveUp(rt, "human")
  /\ UNCHANGED <<hostVars, hist>>

\* The receipt arrives and is recorded, or cannot be.
Reply ==
  LET d == receipt[rt.decided] IN
  /\ At("reply")
  /\ d # "none"
  /\ \/ /\ ev' = [ev EXCEPT !.receipts = @ \cup {rt.decided}]
        /\ CASE d = "delivered" -> Goto(rt, "successor") /\ UNCHANGED sess
             [] d = "unknown" -> Taint(rt)
             [] d = "not_delivered" -> GiveUp(rt, "human")
     \/ Taint(rt) /\ UNCHANGED ev
  /\ UNCHANGED <<hostVars, hist>>

\* A timeout counts as a failed tick.
Bug_NoReply ==
  /\ At("reply")
  /\ Finish(rt)
  /\ UNCHANGED <<hostVars, sess, ev, hist>>

\* The POST times out or its connection breaks: nothing is known, and the
\* command may still be waiting for the main thread.
NoReply ==
  /\ At("reply")
  /\ Taint(rt)
  /\ UNCHANGED <<hostVars, ev, hist>>

Successor ==
  /\ At("successor")
  /\ \/ /\ snap > rt.aim /\ rt.game = host.inst
        /\ IF rt.mode = "one_step" THEN GiveUp(rt, "human")
                                   ELSE Finish(rt) /\ UNCHANGED sess
     \/ Taint(rt)      \* unstable, another game, evidence not written
  /\ UNCHANGED <<hostVars, ev, hist>>

Running ==
  \/ Start \/ Check \/ Record \/ Stop \/ Releasing
  \/ Capabilities \/ Observe \/ Score
  \/ RegisterSession \/ AcquireControl \/ Submit \/ SubmitRenewed
  \/ Reply \/ NoReply \/ Successor

-----------------------------------------------------------------------------
(* Controller sessions: the renewal timer and the calls in flight.         *)

besides == <<rt, ops, ev, hist>>

\* Closing a session leaves its timer running.
Bug_RenewalTimer(k) ==
  /\ sess[k].lease # NoLease /\ sess[k].call = "none"
  /\ rt.pc \notin {"submit", "credentials"}
  /\ sess' = [sess EXCEPT ![k].call = "renew"]
  /\ UNCHANGED <<hostVars, besides>>

RenewalTimer(k) ==
  /\ sess[k].lease # NoLease /\ ~sess[k].closed /\ sess[k].call = "none"
  /\ rt.pc \notin {"submit", "credentials"}   \* credentials() comes first
  /\ sess' = [sess EXCEPT ![k].call = "renew"]
  /\ UNCHANGED <<hostVars, besides>>

\* A renewal that fails is followed by an acquisition, closed or not.
RenewReturns(k) ==
  /\ sess[k].call = "renew"
  /\ \/ /\ Renew(sess[k].lease)
        /\ sess' = [sess EXCEPT ![k].call = "none"]
     \/ /\ Renew(sess[k].lease) \/ UNCHANGED hostVars
        /\ sess' = [sess EXCEPT ![k].call = "acquire", ![k].lease = NoLease]
  /\ UNCHANGED besides

AcquireReturns(k) ==
  /\ sess[k].call = "acquire"
  /\ \/ /\ Acquire(k)
        /\ sess' = [sess EXCEPT ![k].call = "none", ![k].lease = NextLease(k)]
     \/ /\ Acquire(k) \/ UNCHANGED hostVars
        /\ sess' = [sess EXCEPT ![k].call = "none"]
  /\ UNCHANGED besides

-----------------------------------------------------------------------------
\* Bindings a client may have read from GET /v2/environment.
Bindings == {NoGuard} \cup [epoch : 1..rt.epoch, game : 1..host.inst]

Ask ==
  \/ AskHuman \/ AskStop \/ WorkerTick
  \/ \E g \in Bindings :
       UserTick(g) \/ \E m \in hist.scene.modes : AskMode(m, g)

Returns == \E k \in 1..MaxOwn : RenewReturns(k) \/ AcquireReturns(k)
Timers == \E k \in 1..MaxOwn : RenewalTimer(k)

\* A rival plays too; and a POST may be sent again with the same body.
Others ==
  /\ hist.scene.others
  /\ \/ \E c \in Rivals :
          \/ Register(c) \/ Acquire(c)
          \/ \E l \in granted : l.client = c /\ Release(l)
          \/ \E r \in Requests \ (1..MaxDecisions), l \in granted :
               l.client = c /\ Post([req |-> r, snap |-> snap, lease |-> l])
     \/ \E c \in posted : Post(c)
  /\ UNCHANGED <<runtime, hist>>

Host ==
  /\ \/ ClockTick \/ MainThread
     \/ snap < hist.scene.snaps /\ GameMoves
     \/ host.inst < hist.scene.hosts /\ HostRestarts
  /\ UNCHANGED <<runtime, hist>>

Next == Ask \/ Running \/ Returns \/ Timers \/ Others \/ Host

Spec == Init /\ [][Next]_vars

\* Every await of the runtime ends: calls, scoring and reads have timeouts,
\* files are written or fail.
Fairness == WF_vars(Running) /\ WF_vars(Returns)

FairSpec == Spec /\ Fairness

-----------------------------------------------------------------------------
(* Correctness.                                                            *)

Pausing == {"idle", "recording", "stopping", "releasing"}
Ticking == {"capabilities", "observe", "score", "register", "acquire",
            "submit", "credentials", "reply", "successor"}

RuntimeType ==
  [mode : Modes, held : BOOLEAN, tainted : BOOLEAN, stopped : BOOLEAN,
   requested : Modes \cup {"none"}, stopReq : BOOLEAN, epoch : Nat,
   ticking : BOOLEAN, game : Nat, pc : Pausing \cup Ticking \cup {"checking"},
   after : {"end", "human", "stop", "mode"}, giving : Lease \cup {NoLease},
   aim : Nat, decided : 0..MaxDecisions, opened : 0..MaxOwn]

Session == [lease : Lease \cup {NoLease}, closed : BOOLEAN,
            call : {"none", "renew", "acquire"}]

TypeOK ==
  /\ HostTypeOK
  /\ rt \in RuntimeType
  /\ ops \in Seq(Op)
  /\ sess \in [1..MaxOwn -> Session]
  /\ ev \in [decided : Nat, receipts : SUBSET Nat,
             sealed : {"no", "clean", "tainted"}]
  /\ hist \in [asks : Nat, handed : BOOLEAN, legacy : BOOLEAN, steps : Nat,
               stepPosts : Nat, scene : Scenes]

OwnPost(n) == \E c \in posted : c.req = n

\* Once a person asked for Human or Stop no submission begins until someone
\* asks for another mode again: a tick that is under way stops before it
\* submits, prepared commands with an older epoch are refused
\* (runtime.ts:161, the comment in setMode).  The exception the code makes is
\* an unguarded mode command that was queued before the person asked.
HumanTakesOver ==
  [][rt'.pc = "submit" /\ rt.pc # "submit" => ~hist.handed \/ hist.legacy]_vars

\* The model never acts while it does not know what its last action did: every
\* earlier command has a recorded receipt that is not "unknown", and nothing
\* is sent twice by the runtime (runtime.ts:310, taint).
NeverActsBlind ==
  [][\A n \in 1..MaxDecisions :
       ~OwnPost(n) /\ OwnPost(n)' =>
         \A m \in 1..(n - 1) : OwnPost(m) => m \in ev.receipts]_vars

\* One request for a step is worth at most one submission, whichever of its
\* ways the tick ends (runtime.ts, completeOneStep).
OneStepOnce == hist.stepPosts <= hist.steps

\* The whole run acts on the one game whose capabilities it was admitted to,
\* across restarts of the Host.
OneGame ==
  \A i \in 1..Len(inputs) :
    inputs[i].cmd.req \in 1..MaxDecisions =>
      inputs[i].cmd.lease.inst = rt.game

\* Evidence: what was sent was decided on disk first, and a seal without
\* taint has the receipt of everything that was sent.
EvidenceComplete ==
  \A n \in 1..MaxDecisions :
    OwnPost(n) => /\ n <= ev.decided
                  /\ ev.sealed = "clean" => n \in ev.receipts

\* A closed session loses control for good: a renewal or an acquisition may
\* have been in flight when it was closed and may even be granted control
\* after that, but once it has returned nothing renews that lease or asks for
\* another, so it ends with its life (controllerSession.ts, close).
ClosedSessionsEnd ==
  [][\A k \in 1..MaxOwn :
       sess[k].closed /\ sess[k].call = "none" =>
         /\ sess'[k].call = "none"
         /\ host'.lease # NoLease /\ host'.lease.client = k =>
              host'.lease = host.lease /\ host'.life <= host.life]_vars

\* A person who asks for control gets it.
HumanRules == hist.handed ~> (rt.mode = "human" \/ ~hist.handed)
-----------------------------------------------------------------------------
(* Why: an inductive invariant of the runtime and its Host.                *)

\* What was posted and has no recorded receipt is the current decision: it is
\* being waited for, or the runtime is tainted and never ticks again.
OpenPosts ==
  /\ ev.decided = rt.decided
  /\ \A n \in 1..MaxDecisions :
       /\ OwnPost(n) => n <= rt.decided
       /\ OwnPost(n) /\ n \notin ev.receipts
            => n = rt.decided /\ (rt.pc = "reply" \/ rt.tainted)
  /\ rt.pc \in {"register", "acquire", "submit", "credentials"}
       => rt.decided \in 1..MaxDecisions /\ ~OwnPost(rt.decided)
  /\ rt.pc = "reply" => rt.decided \in 1..MaxDecisions
  /\ rt.pc \in Ticking => ~rt.tainted /\ ~rt.stopped
  /\ ev.sealed # "no" => rt.stopped
  /\ rt.pc = "stopping" \/ (rt.pc = "releasing" /\ rt.after = "stop")
       => ~rt.stopped
  /\ ev.sealed = "clean" =>
       \A n \in 1..MaxDecisions : OwnPost(n) => n \in ev.receipts

\* A step that was asked for is worth one post.
StepCredit ==
  /\ hist.stepPosts <= hist.steps
  /\ rt.mode = "one_step" /\ hist.stepPosts = hist.steps
       => \/ rt.pc \in {"reply", "successor", "recording", "stopping"}
          \/ rt.pc = "releasing" /\ rt.after \in {"human", "stop"}

\* What the runtime holds it was granted by the game of its run: its clients
\* are known to no other Host process.
OwnLeases ==
  /\ host.inst > 0 /\ rt.game <= host.inst
  /\ rt.pc \in Ticking \ {"capabilities"} => rt.game > 0
  /\ \A c \in 1..rt.opened : c \in host.sessions => rt.game = host.inst
  /\ \A l \in granted : l.client \notin Rivals => l.inst = rt.game /\ rt.game > 0
  /\ \A k \in 1..MaxOwn :
       /\ sess[k].lease # NoLease
            => sess[k].lease \in granted /\ sess[k].lease.client = k
       /\ k > rt.opened => sess[k] = Idle
  /\ rt.opened > 0 => rt.game > 0
  /\ rt.held \/ rt.pc \in {"acquire", "submit", "credentials"} => rt.opened > 0

\* Only posted commands act, and the ids of the runtime are its own.
PostsAreOwn ==
  /\ \A i \in 1..Len(queue) : queue[i] \in posted
  /\ exec \in posted \cup {NoCommand}
  /\ \A i \in 1..Len(inputs) : inputs[i].cmd \in posted
  /\ \A c \in posted : c.req \in 1..MaxDecisions =>
                         c.lease.inst = rt.game /\ rt.game > 0

\* The running command is the head of the chain.
Chain ==
  /\ ops = <<>> => rt.pc = "idle"
  /\ rt.pc = "releasing" /\ rt.after = "mode" => op.kind = "mode"
  /\ rt.pc = "recording" => rt.mode = op.mode

RuntimeInv ==
  TypeOK /\ HostInv /\ Chain /\ OpenPosts /\ StepCredit /\ OwnLeases /\ PostsAreOwn

\* Once control is handed over without a legacy command waiting, every waiting
\* command for another mode is bound to an older epoch, and the tick under way
\* is cancelled unless the person's command has run.
Overtaken ==
  /\ \A i \in 1..Len(ops) :
       ops[i].kind = "mode" /\ ops[i].mode # "human"
         => ops[i].guard # NoGuard /\ ops[i].guard.epoch < rt.epoch
  /\ rt.stopReq \/ rt.requested = "human" \/ rt.mode = "human" \/ rt.stopped

HandOver ==
  /\ rt.pc \in Ticking => op.kind = "tick" /\ rt.mode # "human"
  /\ rt.pc = "checking" => op.guard # NoGuard
  /\ rt.pc = "releasing" /\ rt.after = "end" /\ op.kind = "mode"
       => rt.mode = "human"
  /\ \A i \in 1..Len(ops) :
       /\ ops[i].guard.epoch <= rt.epoch
       /\ ops[i].mode = "human" => ops[i].guard = NoGuard
  /\ hist.handed /\ ~hist.legacy => Overtaken

\* A session is closed only when control is given up, or was not granted.
OpenInUse ==
  /\ rt.pc \in {"register", "acquire"} => ~rt.held
  /\ (rt.held /\ rt.pc # "releasing")
       \/ rt.pc \in {"acquire", "submit", "credentials"}
       => ~sess[rt.opened].closed

ControlInv == RuntimeInv /\ HandOver /\ OpenInUse
=============================================================================
