------------------------ MODULE PolicyRuntimeProofs ------------------------
(***************************************************************************)
(* Proofs about the Policy Runtime next to its Host: RuntimeInv is         *)
(* inductive, so the Host keeps its promises when this runtime, a rival    *)
(* and people drive it, evidence is complete, the runtime never acts       *)
(* blindly, a step is worth one action and a run acts on one game.         *)
(***************************************************************************)
EXTENDS PolicyRuntime, MutationControllerProofs

USE RuntimeConstantsOK

-----------------------------------------------------------------------------
(* How a command ends or pauses.                                           *)

\* The parts of the runtime that a command which ends leaves alone.
SameRun(r) ==
  /\ rt'.tainted = r.tainted /\ rt'.stopped = r.stopped
  /\ rt'.decided = r.decided /\ rt'.opened = r.opened /\ rt'.game = r.game

\* A command that got as far as r ends, or pauses before `after'.
Rest(r, after) ==
  /\ rt' \in RuntimeType /\ ops' \in Seq(Op)
  /\ SameRun(r)
  /\ rt'.pc \in Pausing
  /\ rt'.pc # "idle" => ops' = ops
  /\ rt'.held => r.held
  /\ rt'.pc = "stopping" => after = "stop"
  /\ rt'.pc = "releasing" => rt'.after = after
  /\ rt'.mode = "one_step" =>
       \/ rt'.pc \in {"recording", "stopping"}
       \/ rt'.pc = "releasing" /\ after \in {"human", "stop"}
       \/ r.mode = "one_step" /\ after \notin {"human", "stop"}
  /\ rt'.pc = "recording" => rt'.mode = op.mode

LEMMA GotoIs ==
  ASSUME NEW r \in RuntimeType,
         NEW pc \in Pausing \cup Ticking \cup {"checking"}, Goto(r, pc)
  PROVE  /\ rt' \in RuntimeType /\ rt'.pc = pc /\ ops' = ops
         /\ SameRun(r) /\ rt'.held = r.held /\ rt'.mode = r.mode
         /\ rt'.after = r.after
BY DEF Goto, RuntimeType, SameRun

LEMMA FinishIs ==
  ASSUME NEW r \in RuntimeType, ops \in Seq(Op), ops # <<>>, Finish(r)
  PROVE  /\ rt' \in RuntimeType /\ rt'.pc = "idle" /\ ops' \in Seq(Op)
         /\ SameRun(r) /\ rt'.held = r.held /\ rt'.mode = r.mode
<1> DEFINE req == IF op.kind = "mode" /\ op.mode = r.requested
                  THEN "none" ELSE r.requested
           tck == r.ticking /\ op.kind # "tick"
<1>1. /\ rt' = [r EXCEPT !.pc = "idle", !.requested = req, !.ticking = tck,
                         !.aim = 0, !.after = "end"]
      /\ ops' = Tail(ops)
  BY DEF Finish
<1>2. req \in Modes \cup {"none"} /\ tck \in BOOLEAN
  BY DEF RuntimeType
<1> HIDE DEF req, tck
<1> DEFINE a == [r EXCEPT !.pc = "idle", !.requested = req]
           b == [a EXCEPT !.ticking = tck, !.aim = 0]
<1>3. a \in RuntimeType /\ a.pc = "idle"
  BY <1>2 DEF RuntimeType, Pausing
<1>4. b \in RuntimeType /\ b.pc = "idle"
  BY <1>2, <1>3 DEF RuntimeType
<1>5. rt' = [b EXCEPT !.after = "end"]
  BY <1>1
<1>6. rt' \in RuntimeType /\ rt'.pc = "idle"
  BY <1>4, <1>5 DEF RuntimeType
<1>7. SameRun(r) /\ rt'.held = r.held /\ rt'.mode = r.mode
  BY <1>1 DEF RuntimeType, SameRun
<1> QED
  BY <1>1, <1>6, <1>7

LEMMA ResumeIs ==
  ASSUME NEW r \in RuntimeType, ops \in Seq(Op), ops # <<>>,
         NEW after \in {"end", "human", "stop", "mode"}, Resume(r, after),
         after = "mode" => op.kind = "mode"
  PROVE  Rest(r, after)
<1>1. op \in Op
  BY DEF op
<1>2. CASE after = "end"
  BY <1>2, FinishIs DEF Resume, Rest, Pausing, SameRun
<1>3. CASE after = "human"
  <2>1. [r EXCEPT !.mode = "human"] \in RuntimeType
    BY DEF RuntimeType, Modes
  <2>2. Finish([r EXCEPT !.mode = "human"])
    BY <1>3 DEF Resume
  <2> QED
    BY <1>3, <2>1, <2>2, FinishIs DEF Rest, Pausing, SameRun, RuntimeType
<1>4. CASE after = "stop"
  <2>1. Goto(r, "stopping")
    BY <1>4 DEF Resume
  <2> QED
    BY <1>4, <2>1, GotoIs DEF Rest, Pausing, SameRun
<1>5. CASE after = "mode"
  <2>1. CASE op.mode # "human" /\ ~Fresh(op.guard)
    BY <1>5, <2>1, FinishIs DEF Resume, Rest, Pausing, SameRun
  <2>2. CASE ~(op.mode # "human" /\ ~Fresh(op.guard))
    <3>1. Goto([r EXCEPT !.mode = op.mode], "recording")
      BY <1>5, <2>2 DEF Resume
    <3>2. op.mode \in Modes
      BY <1>1, <1>5 DEF Op
    <3>3. [r EXCEPT !.mode = op.mode] \in RuntimeType
      BY <3>2 DEF RuntimeType
    <3> QED
      BY <1>5, <3>1, <3>3, GotoIs DEF Rest, Pausing, SameRun, RuntimeType
  <2> QED
    BY <2>1, <2>2
<1> QED
  BY <1>2, <1>3, <1>4, <1>5

\* The leases of the sessions were granted to them.
SessOwn ==
  /\ sess' \in [1..MaxOwn -> Session]
  /\ \A k \in 1..MaxOwn :
       /\ \/ sess'[k].lease \in {NoLease, sess[k].lease}
          \/ sess'[k].lease \in granted' /\ sess'[k].lease.client = k
       /\ k > rt.opened => sess'[k] = sess[k]

LEMMA GiveUpIs ==
  ASSUME NEW r \in RuntimeType, ops \in Seq(Op), ops # <<>>,
         sess \in [1..MaxOwn -> Session],
         r.held => r.opened > 0, rt.opened \in 0..MaxOwn,
         r.opened <= rt.opened,
         NEW after \in {"end", "human", "stop", "mode"}, GiveUp(r, after),
         after = "mode" => op.kind = "mode"
  PROVE  Rest(r, after) /\ SessOwn
<1>1. CASE r.held
  <2> DEFINE k == r.opened
             q == [r EXCEPT !.after = after, !.giving = sess[k].lease]
  <2>1. k \in 1..MaxOwn
    BY <1>1 DEF RuntimeType
  <2>2. sess[k] \in Session /\ sess[k].lease \in Lease \cup {NoLease}
    BY <2>1 DEF Session
  <2>3. q \in RuntimeType
    BY <2>2 DEF RuntimeType
  <2>4. Goto(q, "releasing") /\ sess' = [sess EXCEPT ![k].closed = TRUE]
    BY <1>1 DEF GiveUp
  <2>a. /\ q.after = after /\ q.held = r.held /\ q.mode = r.mode
        /\ q.tainted = r.tainted /\ q.stopped = r.stopped
        /\ q.decided = r.decided /\ q.opened = r.opened /\ q.game = r.game
    BY DEF RuntimeType
  <2> HIDE DEF q
  <2>5. Rest(r, after)
    <3>1. /\ rt' \in RuntimeType /\ rt'.pc = "releasing" /\ ops' = ops
          /\ SameRun(q) /\ rt'.held = q.held /\ rt'.mode = q.mode
          /\ rt'.after = q.after
      BY <2>3, <2>4, GotoIs DEF Pausing
    <3> QED
      BY <2>a, <3>1 DEF Rest, Pausing, SameRun
  <2>6. SessOwn
    <3>1. k <= rt.opened /\ rt.opened \in 0..MaxOwn /\ MaxOwn \in Nat
      OBVIOUS
    <3> HIDE DEF k
    <3>2. sess' \in [1..MaxOwn -> Session]
      BY <2>1, <2>2, <2>4 DEF Session
    <3>3. \A j \in 1..MaxOwn :
            /\ sess'[j].lease = sess[j].lease
            /\ j # k => sess'[j] = sess[j]
      BY <2>1, <2>2, <2>4 DEF Session
    <3>4. ASSUME NEW j \in 1..MaxOwn, j > rt.opened PROVE j # k
      BY <2>1, <3>1, <3>4
    <3> QED
      BY <3>2, <3>3, <3>4 DEF SessOwn
  <2> QED
    BY <2>5, <2>6
<1>2. CASE ~r.held
  <2>1. Resume(r, after) /\ sess' = sess
    BY <1>2 DEF GiveUp
  <2> QED
    BY <2>1, ResumeIs DEF SessOwn
<1> QED
  BY <1>1, <1>2

-----------------------------------------------------------------------------
(* What keeps the invariant.                                               *)

EvType == [decided : Nat, receipts : SUBSET Nat,
           sealed : {"no", "clean", "tainted"}]

\* The Host does what it likes, but it knows no new session of the runtime,
\* grants no lease of another game to one and takes no new decision.
HostCalm ==
  /\ host'.inst >= host.inst
  /\ \A c \in 1..rt.opened :
       c \in host'.sessions => c \in host.sessions /\ host'.inst = host.inst
  /\ granted \subseteq granted'
  /\ \A l \in granted' \ granted :
       l.client \in Rivals \/ (l.inst = rt.game /\ rt.game > 0)
  /\ posted \subseteq posted'
  /\ \A c \in posted' \ posted : c.req \notin 1..MaxDecisions
  /\ \A i \in 1..Len(queue') : queue'[i] \in posted'
  /\ exec' \in posted' \cup {NoCommand}
  /\ \A i \in 1..Len(inputs') : inputs'[i].cmd \in posted'

LEMMA PostsSame ==
  ASSUME HostCalm, NEW n \in 1..MaxDecisions
  PROVE  OwnPost(n)' <=> OwnPost(n)
BY DEF HostCalm, OwnPost

LEMMA HostUnchanged ==
  ASSUME RuntimeInv, UNCHANGED hostVars
  PROVE  HostInv' /\ HostCalm
<1>1. HostInv'
  BY StutterKeeps DEF RuntimeInv
<1>2. host.inst \in Nat
  BY DEF RuntimeInv, HostInv, HostTypeOK
<1> QED
  BY <1>1, <1>2 DEF RuntimeInv, PostsAreOwn, HostCalm, hostVars, control, thread

LEMMA ReleaseCalm ==
  ASSUME RuntimeInv, NEW l, Release(l) \/ Renew(l) \/ ClockTick
  PROVE  HostInv' /\ HostCalm
<1>1. host \in HostType
  BY DEF RuntimeInv, HostInv, HostTypeOK, HostType
<1>2. HostInv'
  BY LeaseCallsKeep DEF RuntimeInv
<1>3. UNCHANGED <<granted, posted, queue, exec, inputs>>
  BY DEF Release, Renew, ClockTick, game, thread
<1>4. host'.inst = host.inst /\ host'.sessions = host.sessions
  BY <1>1 DEF Release, Renew, ClockTick, HostType
<1> QED
  BY <1>1, <1>2, <1>3, <1>4 DEF RuntimeInv, PostsAreOwn, HostCalm, HostType

LEMMA Typed ==
  ASSUME RuntimeInv
  PROVE  /\ rt \in RuntimeType /\ ops \in Seq(Op) /\ ev \in EvType
         /\ sess \in [1..MaxOwn -> Session]
         /\ rt.held => rt.opened > 0
         /\ ev.decided = rt.decided
         /\ rt.opened \in 0..MaxOwn /\ rt.decided \in 0..MaxDecisions
BY DEF RuntimeInv, TypeOK, EvType, OwnLeases, OpenPosts, RuntimeType

\* The posts keep their owner and the leases theirs.
LEMMA CalmKeeps ==
  ASSUME RuntimeInv, HostInv', HostCalm, SessOwn, rt'.game = rt.game,
         rt'.opened = rt.opened, rt' \in RuntimeType,
         rt'.pc \in Ticking \ {"capabilities"} => rt.game > 0,
         rt'.held \/ rt'.pc \in {"acquire", "submit", "credentials"}
           => rt.opened > 0
  PROVE  OwnLeases' /\ PostsAreOwn'
<1>1. PostsAreOwn'
  BY DEF RuntimeInv, PostsAreOwn, HostCalm
<1>2. /\ host.inst \in Nat /\ host'.inst \in Nat /\ rt.game \in Nat
      /\ host'.inst >= host.inst
  BY Typed DEF RuntimeInv, HostInv, HostTypeOK, RuntimeType, HostCalm
<1>3. \A k \in 1..MaxOwn :
        /\ sess'[k].lease # NoLease
             => sess'[k].lease \in granted' /\ sess'[k].lease.client = k
        /\ k > rt'.opened => sess'[k] = Idle
  BY DEF RuntimeInv, OwnLeases, HostCalm, SessOwn
<1>4. \A l \in granted' : l.client \notin Rivals
                            => l.inst = rt'.game /\ rt'.game > 0
  BY DEF RuntimeInv, OwnLeases, HostCalm
<1> QED
  BY <1>1, <1>2, <1>3, <1>4 DEF RuntimeInv, OwnLeases, HostCalm

\* A step that posts nothing of the runtime's and counts no steps, as far as
\* it does not concern leases and sessions.
LocalStep ==
  /\ HostInv' /\ UNCHANGED hist
  /\ \A n \in 1..MaxDecisions : OwnPost(n)' <=> OwnPost(n)
  /\ sess' \in [1..MaxOwn -> Session]
  /\ rt' \in RuntimeType /\ ops' \in Seq(Op) /\ Chain'
  /\ rt'.stopped = rt.stopped
  /\ rt'.decided >= rt.decided
  /\ ev' \in EvType /\ ev'.decided = rt'.decided /\ ev'.sealed = ev.sealed
  /\ ev.receipts \subseteq ev'.receipts
  /\ \A n \in 1..MaxDecisions :
       OwnPost(n) /\ n \notin ev'.receipts
         => n = rt'.decided /\ (rt'.pc = "reply" \/ rt'.tainted)
  /\ rt'.pc \in {"register", "acquire", "submit", "credentials"}
       => rt'.decided \in 1..MaxDecisions /\ ~OwnPost(rt'.decided)
  /\ rt'.pc = "reply" => rt'.decided \in 1..MaxDecisions
  /\ rt'.pc \in Ticking => ~rt'.tainted /\ ~rt'.stopped
  /\ rt'.pc = "stopping" \/ (rt'.pc = "releasing" /\ rt'.after = "stop")
       => ~rt.stopped
  /\ StepCredit'

LEMMA LocalStepKeeps ==
  ASSUME RuntimeInv, LocalStep, OwnLeases', PostsAreOwn'
  PROVE  RuntimeInv'
<1>1. TypeOK'
  BY DEF RuntimeInv, TypeOK, LocalStep, HostInv, EvType
<1>2. OpenPosts'
  <2>1. \A n \in 1..MaxDecisions : OwnPost(n) => n <= rt'.decided
    <3>1. /\ rt.decided \in Nat /\ rt'.decided \in Nat /\ MaxDecisions \in Nat
          /\ rt'.decided >= rt.decided
      BY Typed DEF LocalStep, RuntimeType
    <3>2. \A n \in 1..MaxDecisions : OwnPost(n) => n <= rt.decided
      BY DEF RuntimeInv, OpenPosts
    <3> QED
      BY <3>1, <3>2
  <2>2. ev'.sealed # "no" => rt'.stopped
    BY DEF RuntimeInv, OpenPosts, LocalStep
  <2>3. ev'.sealed = "clean" =>
          \A n \in 1..MaxDecisions : OwnPost(n) => n \in ev'.receipts
    BY DEF RuntimeInv, OpenPosts, LocalStep
  <2>4. \A n \in 1..MaxDecisions : OwnPost(n)' <=> OwnPost(n)
    BY DEF LocalStep
  <2>5. rt'.decided \in 1..MaxDecisions /\ ~OwnPost(rt'.decided)
          => ~OwnPost(rt.decided)'
    BY <2>4 DEF OwnPost
  <2> QED
    BY <2>1, <2>2, <2>3, <2>4, <2>5 DEF OpenPosts, LocalStep
<1> QED
  BY <1>1, <1>2 DEF RuntimeInv, LocalStep

\* A step that moreover keeps the game and the session of the run.
RuntimeStep ==
  /\ LocalStep /\ HostCalm /\ SessOwn
  /\ rt'.opened = rt.opened /\ rt'.game = rt.game
  /\ rt'.pc \in Ticking \ {"capabilities"} => rt.game > 0
  /\ rt'.held \/ rt'.pc \in {"acquire", "submit", "credentials"}
       => rt.opened > 0

LEMMA RuntimeStepKeeps ==
  ASSUME RuntimeInv, RuntimeStep
  PROVE  RuntimeInv'
<1>1. OwnLeases' /\ PostsAreOwn'
  BY CalmKeeps DEF RuntimeStep, LocalStep
<1> QED
  BY <1>1, LocalStepKeeps DEF RuntimeStep

\* The mode still has a step to give.
Credit(r) == r.mode = "one_step" => hist.stepPosts < hist.steps

\* What is unknown of the current decision is known to be unknown.
Accounted(r, receipts) ==
  \A n \in 1..MaxDecisions :
    OwnPost(n) /\ n \notin receipts => n = r.decided /\ r.tainted

LEMMA RestKeeps ==
  ASSUME RuntimeInv, NEW r \in RuntimeType,
         NEW after \in {"end", "human", "stop", "mode"}, Rest(r, after),
         HostInv', HostCalm, SessOwn, UNCHANGED hist, ops # <<>>,
         r.opened = rt.opened, r.game = rt.game, r.stopped = rt.stopped,
         r.decided >= rt.decided, r.held => rt.opened > 0,
         ev' \in EvType, ev'.decided = r.decided, ev'.sealed = ev.sealed,
         ev.receipts \subseteq ev'.receipts, Accounted(r, ev'.receipts),
         after = "stop" => ~rt.stopped, after = "mode" => op.kind = "mode",
         after \notin {"human", "stop"} => Credit(r)
  PROVE  RuntimeInv'
<1>1. rt'.pc \notin Ticking
  BY DEF Rest, Pausing, Ticking
<1>2. Chain'
  <2>1. rt'.pc # "idle" => ops' = ops
    BY DEF Rest
  <2>2. /\ rt'.pc = "releasing" => rt'.after = after
        /\ rt'.pc = "recording" => rt'.mode = op.mode
    BY DEF Rest
  <2> QED
    BY <2>1, <2>2 DEF Chain, op
<1>3. StepCredit'
  <2>1. hist.steps \in Nat /\ hist.stepPosts \in Nat /\ hist' = hist
    BY DEF RuntimeInv, TypeOK
  <2>2. hist.stepPosts <= hist.steps
    BY DEF RuntimeInv, StepCredit
  <2>3. ASSUME rt'.mode = "one_step", hist.stepPosts = hist.steps
        PROVE  \/ rt'.pc \in {"recording", "stopping"}
               \/ rt'.pc = "releasing" /\ rt'.after \in {"human", "stop"}
    <3>1. ~(r.mode = "one_step" /\ after \notin {"human", "stop"})
      BY <2>1, <2>3 DEF Credit
    <3> QED
      BY <2>3, <3>1 DEF Rest
  <2> QED
    BY <2>1, <2>2, <2>3 DEF StepCredit
<1>4. SameRun(r)
  BY DEF Rest
<1>5. LocalStep
  BY <1>1, <1>2, <1>3, <1>4, PostsSame
     DEF LocalStep, Rest, SameRun, Accounted, Ticking, SessOwn
<1>6. RuntimeStep
  BY <1>1, <1>4, <1>5 DEF RuntimeStep, Rest, SameRun, Ticking
<1> QED
  BY <1>6, RuntimeStepKeeps

-----------------------------------------------------------------------------
(* The awaits of a command.                                                *)

\* Where a tick is, everything it sent before has been answered.
LEMMA TickFacts ==
  ASSUME RuntimeInv, rt.pc \in Ticking
  PROVE  /\ ~rt.tainted /\ ~rt.stopped
         /\ rt.pc # "reply" =>
              \A n \in 1..MaxDecisions : OwnPost(n) => n \in ev.receipts
         /\ rt.pc \notin {"reply", "successor"} => Credit(rt)
BY DEF RuntimeInv, OpenPosts, StepCredit, Credit, TypeOK, Ticking

EvGrows ==
  /\ ev' \in EvType /\ ev'.decided = ev.decided /\ ev'.sealed = ev.sealed
  /\ ev.receipts \subseteq ev'.receipts

\* The runtime gives up after it noted that it is tainted, or not.
LEMMA GiveUpKeeps ==
  ASSUME RuntimeInv, HostInv', HostCalm, UNCHANGED hist, EvGrows, ops # <<>>,
         NEW r \in RuntimeType, r.opened = rt.opened, r.game = rt.game,
         r.stopped = rt.stopped, r.decided = rt.decided, r.held = rt.held,
         NEW after \in {"end", "human", "stop", "mode"}, GiveUp(r, after),
         Accounted(r, ev'.receipts),
         after = "stop" => ~rt.stopped, after = "mode" => op.kind = "mode",
         after \notin {"human", "stop"} => Credit(r)
  PROVE  RuntimeInv'
<1>1. Rest(r, after) /\ SessOwn
  BY Typed, GiveUpIs
<1>2. ev'.decided = r.decided /\ r.decided >= rt.decided
  BY Typed DEF EvGrows
<1> QED
  BY <1>1, <1>2, Typed, RestKeeps DEF EvGrows

LEMMA FailClosedKeeps ==
  ASSUME RuntimeInv, HostInv', HostCalm, UNCHANGED hist, EvGrows, ops # <<>>,
         FailClosed(rt), Accounted(rt, ev'.receipts)
  PROVE  RuntimeInv'
<1> DEFINE r == [rt EXCEPT !.mode = "human"]
<1>1. /\ r \in RuntimeType /\ r.opened = rt.opened /\ r.game = rt.game
      /\ r.stopped = rt.stopped /\ r.decided = rt.decided /\ r.held = rt.held
      /\ r.tainted = rt.tainted /\ r.mode = "human"
  BY Typed DEF RuntimeType, Modes
<1>2. GiveUp(r, "end")
  BY DEF FailClosed
<1> HIDE DEF r
<1>3. Credit(r) /\ Accounted(r, ev'.receipts)
  BY <1>1 DEF Credit, Accounted
<1> QED
  BY <1>1, <1>2, <1>3, GiveUpKeeps

LEMMA TaintKeeps ==
  ASSUME RuntimeInv, HostInv', HostCalm, UNCHANGED hist, EvGrows, ops # <<>>,
         Taint(rt)
  PROVE  RuntimeInv'
<1> DEFINE r == [[rt EXCEPT !.tainted = TRUE] EXCEPT !.mode = "human"]
<1>1. /\ r \in RuntimeType /\ r.opened = rt.opened /\ r.game = rt.game
      /\ r.stopped = rt.stopped /\ r.decided = rt.decided /\ r.held = rt.held
      /\ r.tainted = TRUE /\ r.mode = "human"
  BY Typed DEF RuntimeType, Modes
<1>2. GiveUp(r, "end")
  BY DEF Taint, FailClosed
<1> HIDE DEF r
<1>3. Accounted(r, ev'.receipts)
  BY <1>1 DEF RuntimeInv, OpenPosts, Accounted, EvGrows
<1>4. Credit(r)
  BY <1>1 DEF Credit
<1> QED
  BY <1>1, <1>2, <1>3, <1>4, GiveUpKeeps

LEMMA FinishKeeps ==
  ASSUME RuntimeInv, HostInv', HostCalm, UNCHANGED <<hist, sess>>, ops # <<>>,
         NEW r \in RuntimeType, r.opened = rt.opened, r.game = rt.game,
         r.stopped = rt.stopped, r.decided >= rt.decided, r.held = rt.held,
         Finish(r), ev' \in EvType, ev'.decided = r.decided,
         ev'.sealed = ev.sealed, ev.receipts \subseteq ev'.receipts,
         Accounted(r, ev'.receipts), Credit(r)
  PROVE  RuntimeInv'
<1>1. Rest(r, "end")
  BY Typed, FinishIs DEF Rest, Pausing, SameRun
<1>2. SessOwn
  BY Typed DEF SessOwn
<1> QED
  BY <1>1, <1>2, Typed, RestKeeps

\* A tick goes on to its next await.
LEMMA GotoLocal ==
  ASSUME RuntimeInv, HostInv', UNCHANGED hist, ops # <<>>,
         \A n \in 1..MaxDecisions : OwnPost(n)' <=> OwnPost(n),
         sess' \in [1..MaxOwn -> Session],
         NEW r \in RuntimeType, r.stopped = rt.stopped,
         r.tainted = rt.tainted, r.mode = rt.mode, r.decided >= rt.decided,
         NEW pc \in (Ticking \ {"reply"}) \cup {"checking"}, Goto(r, pc),
         ev' \in EvType, ev'.decided = r.decided, ev'.sealed = ev.sealed,
         ev.receipts \subseteq ev'.receipts, Accounted(r, ev'.receipts),
         pc \in Ticking => ~rt.tainted /\ ~rt.stopped,
         pc \in {"register", "acquire", "submit", "credentials"}
           => r.decided \in 1..MaxDecisions /\ ~OwnPost(r.decided),
         pc # "successor" => Credit(rt)
  PROVE  LocalStep
<1>1. /\ rt' \in RuntimeType /\ rt'.pc = pc /\ ops' = ops /\ SameRun(r)
      /\ rt'.held = r.held /\ rt'.mode = r.mode
  BY GotoIs
<1>2. pc \notin {"idle", "recording", "stopping", "releasing", "reply"}
  BY DEF Ticking
<1>3. Chain' /\ ops' \in Seq(Op)
  BY <1>1, <1>2, Typed DEF Chain
<1>4. StepCredit'
  <2>1. hist.steps \in Nat /\ hist.stepPosts \in Nat /\ hist' = hist
    BY DEF RuntimeInv, TypeOK
  <2> QED
    BY <1>1, <2>1 DEF RuntimeInv, StepCredit, Credit
<1> QED
  BY <1>1, <1>2, <1>3, <1>4 DEF LocalStep, SameRun, Accounted

LEMMA GotoKeeps ==
  ASSUME RuntimeInv, HostInv', HostCalm, SessOwn, UNCHANGED hist, ops # <<>>,
         NEW r \in RuntimeType, r.opened = rt.opened, r.game = rt.game,
         r.stopped = rt.stopped, r.tainted = rt.tainted,
         r.held => rt.opened > 0,
         r.mode = rt.mode, r.decided >= rt.decided,
         NEW pc \in (Ticking \ {"reply"}) \cup {"checking"}, Goto(r, pc),
         ev' \in EvType, ev'.decided = r.decided, ev'.sealed = ev.sealed,
         ev.receipts \subseteq ev'.receipts, Accounted(r, ev'.receipts),
         pc \in Ticking => ~rt.tainted /\ ~rt.stopped,
         pc \in Ticking \ {"capabilities"} => rt.game > 0,
         pc \in {"register", "acquire", "submit", "credentials"}
           => r.decided \in 1..MaxDecisions /\ ~OwnPost(r.decided),
         pc \in {"acquire", "submit", "credentials"} => rt.opened > 0,
         pc # "successor" => Credit(rt)
  PROVE  RuntimeInv'
<1>1. rt' \in RuntimeType /\ rt'.pc = pc /\ SameRun(r) /\ rt'.held = r.held
  BY GotoIs
<1>2. sess' \in [1..MaxOwn -> Session]
  BY DEF SessOwn
<1>3. LocalStep
  BY <1>2, GotoLocal, PostsSame
<1>4. RuntimeStep
  BY <1>1, <1>3 DEF RuntimeStep, SameRun
<1> QED
  BY <1>4, RuntimeStepKeeps

-----------------------------------------------------------------------------
(* Commands.                                                               *)

\* Outside a tick only a tainted runtime has an unanswered post.
LEMMA Outside ==
  ASSUME RuntimeInv, rt.pc \notin Ticking
  PROVE  Accounted(rt, ev.receipts)
BY DEF RuntimeInv, OpenPosts, Accounted, Ticking

LEMMA EvSame ==
  ASSUME RuntimeInv, UNCHANGED ev
  PROVE  EvGrows /\ ev' \in EvType /\ ev'.decided = rt.decided
BY Typed DEF EvGrows

\* A command that ends where it is.
LEMMA EndKeeps ==
  ASSUME RuntimeInv, UNCHANGED <<hostVars, sess, ev, hist>>, ops # <<>>,
         Finish(rt), Accounted(rt, ev.receipts), Credit(rt)
  PROVE  RuntimeInv'
<1>1. HostInv' /\ HostCalm /\ EvGrows /\ ev' \in EvType
  BY HostUnchanged, EvSame
<1> QED
  BY <1>1, Typed, FinishKeeps, EvSame DEF EvGrows, RuntimeType

LEMMA BeginKeeps ==
  ASSUME RuntimeInv, UNCHANGED <<hostVars, ev, hist>>, ops # <<>>,
         rt.pc \in {"idle", "checking"}, Begin(rt)
  PROVE  RuntimeInv'
<1>1. /\ HostInv' /\ HostCalm /\ EvGrows /\ ev' \in EvType
      /\ ev'.decided = rt.decided
  BY HostUnchanged, EvSame
<1>2. Accounted(rt, ev.receipts) /\ ev' = ev
  BY Outside DEF Ticking
<1>3. Credit(rt)
  BY DEF RuntimeInv, StepCredit, Credit, TypeOK
<1>4. op \in Op
  BY Typed DEF op
<1>5. CASE op.kind = "stop"
  <2>1. CASE rt.stopped
    BY <1>2, <1>3, <1>5, <2>1, EndKeeps DEF Begin, BeginStop
  <2>2. CASE ~rt.stopped
    <3>1. GiveUp(rt, "stop")
      BY <1>5, <2>2 DEF Begin, BeginStop
    <3> QED
      BY <1>1, <1>2, <2>2, <3>1, Typed, GiveUpKeeps
  <2> QED
    BY <2>1, <2>2
<1>6. CASE op.kind = "tick"
  <2>1. sess' = sess
    BY <1>6 DEF Begin, BeginTick
  <2>2. CASE rt.stopped \/ rt.tainted \/ rt.mode = "human"
    <3>1. Finish(rt)
      BY <1>6, <2>2 DEF Begin, BeginTick
    <3> QED
      BY <1>2, <1>3, <2>1, <3>1, EndKeeps
  <2>3. CASE ~(rt.stopped \/ rt.tainted \/ rt.mode = "human")
    <3>1. Goto(rt, "capabilities")
      BY <1>6, <2>3 DEF Begin, BeginTick
    <3>2. SessOwn
      BY <2>1, Typed DEF SessOwn
    <3>3. rt.decided >= rt.decided /\ ev'.sealed = ev.sealed
      BY <1>2, Typed
    <3> QED
      BY <1>1, <1>2, <1>3, <2>3, <3>1, <3>2, <3>3, Typed, GotoKeeps DEF Ticking
  <2> QED
    BY <2>2, <2>3
<1>7. CASE op.kind = "mode"
  <2> DEFINE q == IF op.mode = "human" THEN rt
                  ELSE [rt EXCEPT !.requested = op.mode]
  <2>1. /\ q \in RuntimeType /\ q.opened = rt.opened /\ q.game = rt.game
        /\ q.stopped = rt.stopped /\ q.decided = rt.decided /\ q.held = rt.held
        /\ q.tainted = rt.tainted /\ q.mode = rt.mode
    BY <1>4, <1>7, Typed DEF RuntimeType, Op
  <2>2. BeginMode(q)
    BY <1>7 DEF Begin
  <2> HIDE DEF q
  <2>3. Accounted(q, ev'.receipts) /\ Credit(q)
    BY <1>2, <1>3, <2>1 DEF Accounted, Credit
  <2>4. q.decided >= rt.decided /\ ev'.sealed = ev.sealed
        /\ ev.receipts \subseteq ev'.receipts /\ ev'.decided = q.decided
    BY <1>1, <1>2, <2>1, Typed
  <2>5. CASE Finish(q) /\ UNCHANGED sess
    BY <1>1, <2>1, <2>3, <2>4, <2>5, FinishKeeps
  <2>6. CASE Resume(q, "mode") /\ UNCHANGED sess
    <3>1. Resume(q, "mode") /\ sess' = sess
      BY <2>6
    <3>2. Rest(q, "mode") /\ SessOwn
      BY <1>7, <2>1, <3>1, Typed, ResumeIs DEF SessOwn
    <3> QED
      BY <1>1, <1>7, <2>1, <2>3, <2>4, <3>2, Typed, RestKeeps
  <2>7. CASE GiveUp(q, "mode")
    BY <1>1, <1>7, <2>1, <2>3, <2>7, GiveUpKeeps
  <2> QED
    BY <2>2, <2>5, <2>6, <2>7 DEF BeginMode
<1> QED
  BY <1>4, <1>5, <1>6, <1>7 DEF Op

LEMMA StartKeeps ==
  ASSUME RuntimeInv, Start \/ Check
  PROVE  RuntimeInv'
<1>1. /\ ops # <<>> /\ rt.pc \in {"idle", "checking"}
      /\ UNCHANGED <<hostVars, ev, hist>>
  BY DEF Start, Check, At
<1>2. Accounted(rt, ev.receipts) /\ ev' = ev /\ rt.pc \notin Ticking
  BY <1>1, Outside DEF Ticking
<1>3. Credit(rt)
  BY <1>1 DEF RuntimeInv, StepCredit, Credit, TypeOK
<1>4. CASE Begin(rt)
  BY <1>1, <1>4, BeginKeeps
<1>5. CASE Finish(rt) /\ sess' = sess
  BY <1>1, <1>2, <1>3, <1>5, EndKeeps
<1>6. CASE Goto(rt, "checking") /\ sess' = sess
  <2>1. /\ HostInv' /\ HostCalm /\ ev' \in EvType /\ ev'.decided = rt.decided
    BY <1>1, HostUnchanged, EvSame
  <2>2. SessOwn /\ rt.decided >= rt.decided
    BY <1>6, Typed DEF SessOwn
  <2>3. "checking" \notin Ticking
    BY DEF Ticking
  <2> QED
    BY <1>1, <1>2, <1>3, <1>6, <2>1, <2>2, <2>3, Typed, GotoKeeps
<1> QED
  BY <1>4, <1>5, <1>6 DEF Start, Check

LEMMA ReleasingKeeps ==
  ASSUME RuntimeInv, Releasing
  PROVE  RuntimeInv'
<1> DEFINE r == [rt EXCEPT !.held = FALSE, !.giving = NoLease]
<1>1. /\ ops # <<>> /\ rt.pc = "releasing" /\ UNCHANGED <<sess, ev, hist>>
      /\ Resume(r, rt.after)
  BY DEF Releasing, At
<1>2. /\ r \in RuntimeType /\ r.opened = rt.opened /\ r.game = rt.game
      /\ r.stopped = rt.stopped /\ r.decided = rt.decided /\ r.held = FALSE
      /\ r.tainted = rt.tainted /\ r.mode = rt.mode
      /\ rt.after \in {"end", "human", "stop", "mode"}
  BY Typed DEF RuntimeType
<1> HIDE DEF r
<1>3. HostInv' /\ HostCalm
  BY HostUnchanged, ReleaseCalm DEF Releasing
<1>4. Accounted(r, ev'.receipts)
  BY <1>1, <1>2, Outside DEF Ticking, Accounted
<1>5. rt.after \notin {"human", "stop"} => Credit(r)
  BY <1>1, <1>2 DEF RuntimeInv, StepCredit, Credit, TypeOK
<1>6. /\ rt.after = "mode" => op.kind = "mode"
      /\ rt.after = "stop" => ~rt.stopped
  BY <1>1 DEF RuntimeInv, Chain, OpenPosts
<1>7. Rest(r, rt.after) /\ SessOwn
  BY <1>1, <1>2, <1>6, Typed, ResumeIs DEF SessOwn
<1>8. ev' \in EvType /\ ev'.decided = r.decided /\ r.decided >= rt.decided
  BY <1>1, <1>2, Typed
<1> QED
  BY <1>1, <1>2, <1>3, <1>4, <1>5, <1>6, <1>7, <1>8, RestKeeps

\* A new mode is recorded: a step that was asked for is owed.
LEMMA RecordKeeps ==
  ASSUME RuntimeInv, Record
  PROVE  RuntimeInv'
<1>1. ops # <<>> /\ rt.pc = "recording" /\ UNCHANGED <<hostVars, ev>>
  BY DEF Record, At
<1>2. Accounted(rt, ev.receipts) /\ ev' = ev
  BY <1>1, Outside DEF Ticking
<1>3. HostInv' /\ HostCalm /\ EvGrows
  BY <1>1, HostUnchanged, EvSame
<1>4. CASE FailClosed(rt) /\ UNCHANGED hist
  BY <1>1, <1>2, <1>3, <1>4, FailClosedKeeps
<1>5. CASE /\ Finish(rt) /\ UNCHANGED sess
           /\ hist' = [hist EXCEPT !.steps =
                         @ + IF op.mode = "one_step" THEN 1 ELSE 0]
  <2>1. /\ rt' \in RuntimeType /\ rt'.pc = "idle" /\ ops' \in Seq(Op)
        /\ SameRun(rt) /\ rt'.held = rt.held /\ rt'.mode = rt.mode
    BY <1>1, <1>5, Typed, FinishIs
  <2>2. rt.mode = op.mode
    BY <1>1 DEF RuntimeInv, Chain
  <2> DEFINE d == IF op.mode = "one_step" THEN 1 ELSE 0
  <2>3. /\ hist.steps \in Nat /\ hist.stepPosts \in Nat /\ d \in {0, 1}
        /\ hist.stepPosts <= hist.steps
        /\ hist' = [hist EXCEPT !.steps = hist.steps + d]
        /\ hist \in [asks : Nat, handed : BOOLEAN, legacy : BOOLEAN,
                     steps : Nat, stepPosts : Nat, scene : Scenes]
    BY <1>5 DEF RuntimeInv, TypeOK, StepCredit
  <2>4. /\ hist' \in [asks : Nat, handed : BOOLEAN, legacy : BOOLEAN,
                     steps : Nat, stepPosts : Nat, scene : Scenes]
        /\ hist'.steps = hist.steps + d /\ hist'.stepPosts = hist.stepPosts
    BY <2>3
  <2>5. StepCredit'
    BY <2>1, <2>2, <2>3, <2>4 DEF StepCredit
  <2>6. TypeOK'
    BY <1>3, <1>5, <1>2, <2>1, <2>4, Typed DEF TypeOK, HostInv, EvType
  <2>7. SessOwn
    BY <1>5, Typed DEF SessOwn
  <2>8. OwnLeases' /\ PostsAreOwn'
    BY <1>3, <2>1, <2>7, Typed, CalmKeeps DEF SameRun, Ticking
  <2>9. posted' = posted
    BY <1>1 DEF hostVars
  <2>10. OpenPosts'
    BY <1>1, <1>2, <2>1, <2>9 DEF RuntimeInv, OpenPosts, SameRun, OwnPost, Ticking
  <2>11. Chain'
    BY <2>1 DEF Chain
  <2> QED
    BY <1>3, <2>5, <2>6, <2>8, <2>10, <2>11 DEF RuntimeInv
<1> QED
  BY <1>4, <1>5 DEF Record

\* The seal is clean only if everything that was sent has its receipt.
LEMMA StopKeeps ==
  ASSUME RuntimeInv, Stop
  PROVE  RuntimeInv'
<1>1. /\ ops # <<>> /\ rt.pc = "stopping"
      /\ UNCHANGED <<hostVars, sess, hist>>
  BY DEF Stop, At
<1>2. Accounted(rt, ev.receipts)
  BY <1>1, Outside DEF Ticking
<1>3. HostInv' /\ HostCalm
  BY <1>1, HostUnchanged
<1>4. PICK written \in BOOLEAN, sealed \in BOOLEAN :
        LET r == [rt EXCEPT !.mode = "human", !.stopped = TRUE,
                            !.tainted = @ \/ ~written] IN
        /\ Finish(r)
        /\ ev' = [ev EXCEPT !.sealed = IF ~sealed THEN @
                                       ELSE IF r.tainted THEN "tainted"
                                                         ELSE "clean"]
  BY DEF Stop
<1> DEFINE t == rt.tainted \/ ~written
           r == [rt EXCEPT !.mode = "human", !.stopped = TRUE, !.tainted = t]
           seal == IF ~sealed THEN ev.sealed
                   ELSE IF r.tainted THEN "tainted" ELSE "clean"
<1>5. t \in BOOLEAN /\ (rt.tainted => t)
  BY Typed DEF RuntimeType
<1>6. Finish(r) /\ ev' = [ev EXCEPT !.sealed = seal]
  BY <1>4
<1> HIDE DEF t
<1>7. /\ r \in RuntimeType /\ r.opened = rt.opened /\ r.game = rt.game
      /\ r.stopped = TRUE /\ r.decided = rt.decided /\ r.held = rt.held
      /\ r.tainted = t /\ r.mode = "human"
  BY <1>5, Typed DEF RuntimeType, Modes
<1> HIDE DEF r
<1>8. seal \in {"no", "clean", "tainted"} /\ (seal = "clean" /\ ev.sealed # "clean" => ~t)
  BY <1>7, Typed DEF EvType
<1> HIDE DEF seal
<1>9. /\ ev' \in EvType /\ ev'.decided = ev.decided
      /\ ev'.receipts = ev.receipts /\ ev'.sealed = seal
  BY <1>6, <1>8, Typed DEF EvType
<1>10. /\ rt' \in RuntimeType /\ rt'.pc = "idle" /\ ops' \in Seq(Op)
       /\ SameRun(r) /\ rt'.held = r.held /\ rt'.mode = r.mode
  BY <1>1, <1>6, <1>7, Typed, FinishIs
<1>11. TypeOK'
  BY <1>1, <1>3, <1>9, <1>10, Typed DEF TypeOK, HostInv, EvType, RuntimeInv
<1>12. StepCredit'
  BY <1>1, <1>7, <1>10 DEF RuntimeInv, StepCredit
<1>13. SessOwn
  BY <1>1, Typed DEF SessOwn
<1>14. OwnLeases' /\ PostsAreOwn'
  BY <1>3, <1>7, <1>10, <1>13, Typed, CalmKeeps DEF SameRun, Ticking
<1>15. posted' = posted
  BY <1>1 DEF hostVars
<1>16. ev.sealed = "no"
  BY <1>1 DEF RuntimeInv, OpenPosts
<1>17. OpenPosts'
  <2>1. \A n \in 1..MaxDecisions :
          /\ OwnPost(n)' <=> OwnPost(n)
          /\ OwnPost(n) => n <= rt.decided
          /\ OwnPost(n) /\ n \notin ev.receipts => n = rt.decided /\ rt.tainted
    BY <1>2, <1>15 DEF RuntimeInv, OpenPosts, OwnPost, Accounted
  <2>2. rt'.decided = rt.decided /\ rt'.stopped = TRUE /\ rt'.tainted = t
    BY <1>7, <1>10 DEF SameRun
  <2>3. seal = "clean" => ~rt.tainted
    BY <1>5, <1>8, <1>16
  <2>4. ev'.decided = rt'.decided
    BY <1>9, <2>2, Typed
  <2> QED
    BY <1>5, <1>9, <1>10, <2>1, <2>2, <2>3, <2>4 DEF OpenPosts, Ticking
<1>18. Chain'
  BY <1>10 DEF Chain
<1> QED
  BY <1>3, <1>11, <1>12, <1>14, <1>17, <1>18 DEF RuntimeInv

-----------------------------------------------------------------------------
(* A tick.                                                                 *)

\* Between two awaits of a tick that sent nothing new.
LEMMA TickBase ==
  ASSUME RuntimeInv, rt.pc \in Ticking \ {"reply"}, UNCHANGED <<hostVars, hist>>
  PROVE  /\ HostInv' /\ HostCalm
         /\ ~rt.tainted /\ ~rt.stopped
         /\ \A n \in 1..MaxDecisions : OwnPost(n) => n \in ev.receipts
         /\ rt.pc # "successor" => Credit(rt)
         /\ rt.pc # "capabilities" => rt.game > 0
BY HostUnchanged, TickFacts DEF RuntimeInv, OwnLeases

LEMMA ObserveKeeps ==
  ASSUME RuntimeInv, Observe
  PROVE  RuntimeInv'
<1>1. /\ ops # <<>> /\ rt.pc = "observe" /\ UNCHANGED <<hostVars, ev, hist>>
  BY DEF Observe, At
<1>2. /\ HostInv' /\ HostCalm /\ ~rt.tainted /\ ~rt.stopped /\ Credit(rt)
      /\ rt.game > 0 /\ EvGrows /\ ev' \in EvType /\ ev'.decided = rt.decided
      /\ ev' = ev
  BY <1>1, TickBase, EvSame DEF Ticking
<1>3. Accounted(rt, ev.receipts)
  BY <1>1, TickBase DEF Accounted, Ticking
<1>4. CASE Goto([rt EXCEPT !.aim = snap], "score") /\ UNCHANGED sess
  <2> DEFINE r == [rt EXCEPT !.aim = snap]
  <2>1. snap \in Nat
    BY DEF RuntimeInv, HostInv, HostTypeOK
  <2>2. /\ r \in RuntimeType /\ r.opened = rt.opened /\ r.game = rt.game
        /\ r.stopped = rt.stopped /\ r.decided = rt.decided /\ r.held = rt.held
        /\ r.tainted = rt.tainted /\ r.mode = rt.mode
    BY <2>1, Typed DEF RuntimeType
  <2>3. Goto(r, "score") /\ SessOwn
    BY <1>4, Typed DEF SessOwn
  <2> HIDE DEF r
  <2>4. Accounted(r, ev'.receipts) /\ r.decided >= rt.decided
    BY <1>2, <1>3, <2>2, Typed DEF Accounted
  <2>5. "score" \in (Ticking \ {"reply"}) /\ ev'.decided = r.decided
    BY <1>2, <2>2 DEF Ticking
  <2> QED
    BY <1>1, <1>2, <2>2, <2>3, <2>4, <2>5, Typed, GotoKeeps DEF EvGrows
<1>5. CASE FailClosed(rt)
  BY <1>1, <1>2, <1>3, <1>5, FailClosedKeeps
<1>6. CASE Finish(rt) /\ UNCHANGED sess
  BY <1>1, <1>2, <1>3, <1>6, EndKeeps
<1>7. CASE GiveUp(rt, "human")
  BY <1>1, <1>2, <1>3, <1>7, Typed, GiveUpKeeps
<1> QED
  BY <1>4, <1>5, <1>6, <1>7 DEF Observe

LEMMA ScoreKeeps ==
  ASSUME RuntimeInv, Score
  PROVE  RuntimeInv'
<1>1. /\ ops # <<>> /\ rt.pc = "score" /\ UNCHANGED <<hostVars, hist>>
  BY DEF Score, At
<1>2. /\ HostInv' /\ HostCalm /\ ~rt.tainted /\ ~rt.stopped /\ Credit(rt)
      /\ rt.game > 0
      /\ \A n \in 1..MaxDecisions : OwnPost(n) => n \in ev.receipts
  BY <1>1, TickBase DEF Ticking
<1>3. Accounted(rt, ev.receipts)
  BY <1>2 DEF Accounted
<1>4. CASE FailClosed(rt) /\ UNCHANGED ev
  BY <1>1, <1>2, <1>3, <1>4, EvSame, FailClosedKeeps
<1>5. CASE Finish(rt) /\ UNCHANGED <<sess, ev>>
  BY <1>1, <1>2, <1>3, <1>5, EndKeeps
<1>6. CASE GiveUp(rt, "human") /\ UNCHANGED ev
  BY <1>1, <1>2, <1>3, <1>6, EvSame, Typed, GiveUpKeeps
<1>7. CASE /\ rt.decided < hist.scene.decisions
           /\ ev' = [ev EXCEPT !.decided = rt.decided + 1]
           /\ LET r == [rt EXCEPT !.decided = @ + 1] IN
                IF Cancelled THEN Finish(r)
                ELSE Goto(r, IF rt.held THEN "submit" ELSE "register")
           /\ UNCHANGED sess
  <2> DEFINE d == rt.decided + 1
             r == [rt EXCEPT !.decided = d]
  <2>1. d \in 1..MaxDecisions /\ d = rt.decided + 1 /\ d \in Nat
    <3>1. hist.scene \in Scenes
      BY DEF RuntimeInv, TypeOK
    <3>2. hist.scene.decisions \in 0..MaxDecisions
      BY <3>1
    <3> QED
      BY <1>7, <3>2, Typed
  <2>2. ~OwnPost(d)
    BY <2>1, Typed DEF RuntimeInv, OpenPosts
  <2>3. CASE Cancelled
    <3>1. Finish(r)
      BY <1>7, <2>3
    <3> HIDE DEF d
    <3>2. /\ r \in RuntimeType /\ r.opened = rt.opened /\ r.game = rt.game
          /\ r.stopped = rt.stopped /\ r.decided = d /\ r.held = rt.held
          /\ r.tainted = rt.tainted /\ r.mode = rt.mode
      BY <2>1, Typed DEF RuntimeType
    <3>3. /\ ev' \in EvType /\ ev'.decided = d /\ ev'.sealed = ev.sealed
          /\ ev'.receipts = ev.receipts
      BY <1>7, <2>1, Typed DEF EvType
    <3> HIDE DEF r
    <3>4. Accounted(r, ev'.receipts) /\ Credit(r) /\ r.decided >= rt.decided
      BY <1>2, <2>1, <3>2, <3>3, Typed DEF Accounted, Credit
    <3> QED
      BY <1>1, <1>2, <1>7, <3>1, <3>2, <3>3, <3>4, FinishKeeps
  <2>4. CASE ~Cancelled
    <3> DEFINE pc == IF rt.held THEN "submit" ELSE "register"
    <3>1. Goto(r, pc)
      BY <1>7, <2>4
    <3>a. pc \in {"submit", "register"} /\ (pc = "submit" => rt.held)
      OBVIOUS
    <3> HIDE DEF d, pc
    <3>2. /\ r \in RuntimeType /\ r.opened = rt.opened /\ r.game = rt.game
          /\ r.stopped = rt.stopped /\ r.decided = d /\ r.held = rt.held
          /\ r.tainted = rt.tainted /\ r.mode = rt.mode
      BY <2>1, Typed DEF RuntimeType
    <3>3. /\ ev' \in EvType /\ ev'.decided = d /\ ev'.sealed = ev.sealed
          /\ ev'.receipts = ev.receipts
      BY <1>7, <2>1, Typed DEF EvType
    <3> HIDE DEF r
    <3>4. Accounted(r, ev'.receipts) /\ r.decided >= rt.decided
      BY <1>2, <2>1, <3>2, <3>3, Typed DEF Accounted
    <3>5. SessOwn /\ pc \in (Ticking \ {"reply"}) /\ pc \notin {"acquire", "credentials"}
      BY <1>7, <3>a, Typed DEF SessOwn, Ticking
    <3>6. pc \in {"acquire", "submit", "credentials"} => rt.opened > 0
      BY <3>a, <3>5, Typed
    <3> QED
      BY <1>1, <1>2, <2>1, <2>2, <3>1, <3>2, <3>3, <3>4, <3>5, <3>6, Typed,
         GotoKeeps
  <2> QED
    BY <2>3, <2>4
<1> QED
  BY <1>4, <1>5, <1>6, <1>7 DEF Score

LEMMA SuccessorKeeps ==
  ASSUME RuntimeInv, Successor
  PROVE  RuntimeInv'
<1>1. /\ ops # <<>> /\ rt.pc = "successor" /\ UNCHANGED <<hostVars, ev, hist>>
  BY DEF Successor, At
<1>2. /\ HostInv' /\ HostCalm /\ EvGrows /\ ev' = ev /\ ~rt.stopped
  BY <1>1, TickBase, EvSame DEF Ticking
<1>3. Accounted(rt, ev.receipts)
  BY <1>1, TickBase DEF Accounted, Ticking
<1>4. CASE rt.mode = "one_step" /\ GiveUp(rt, "human")
  BY <1>1, <1>2, <1>3, <1>4, Typed, GiveUpKeeps
<1>5. CASE rt.mode # "one_step" /\ Finish(rt) /\ UNCHANGED sess
  BY <1>1, <1>2, <1>3, <1>5, EndKeeps DEF Credit
<1>6. CASE Taint(rt)
  BY <1>1, <1>2, <1>6, TaintKeeps
<1> QED
  BY <1>4, <1>5, <1>6 DEF Successor

LEMMA NoReplyKeeps ==
  ASSUME RuntimeInv, NoReply
  PROVE  RuntimeInv'
<1>1. ops # <<>> /\ Taint(rt) /\ UNCHANGED <<hostVars, ev, hist>>
  BY DEF NoReply, At
<1>2. HostInv' /\ HostCalm /\ EvGrows
  BY <1>1, HostUnchanged, EvSame
<1> QED
  BY <1>1, <1>2, TaintKeeps

\* A recorded receipt accounts for the post that was waited for.
LEMMA ReplyKeeps ==
  ASSUME RuntimeInv, Reply
  PROVE  RuntimeInv'
<1>1. /\ ops # <<>> /\ rt.pc = "reply" /\ UNCHANGED <<hostVars, hist>>
  BY DEF Reply, At
<1>2. /\ HostInv' /\ HostCalm /\ ~rt.tainted /\ ~rt.stopped /\ rt.game > 0
      /\ rt.decided \in 1..MaxDecisions
  BY <1>1, HostUnchanged, TickFacts DEF RuntimeInv, OwnLeases, OpenPosts, Ticking
<1>3. CASE Taint(rt) /\ UNCHANGED ev
  BY <1>1, <1>2, <1>3, EvSame, TaintKeeps
<1>4. CASE /\ ev' = [ev EXCEPT !.receipts = @ \cup {rt.decided}]
           /\ \/ Goto(rt, "successor") /\ UNCHANGED sess
              \/ Taint(rt)
              \/ GiveUp(rt, "human")
  <2>1. /\ EvGrows /\ ev' \in EvType /\ ev'.decided = rt.decided
        /\ ev'.receipts = ev.receipts \cup {rt.decided}
    BY <1>2, <1>4, Typed DEF EvGrows, EvType
  <2>2. Accounted(rt, ev'.receipts)
    BY <2>1 DEF RuntimeInv, OpenPosts, Accounted
  <2>3. CASE Goto(rt, "successor") /\ UNCHANGED sess
    <3>1. SessOwn /\ rt.decided >= rt.decided
          /\ "successor" \in (Ticking \ {"reply"})
      BY <2>3, Typed DEF SessOwn, Ticking
    <3> QED
      BY <1>1, <1>2, <2>1, <2>2, <2>3, <3>1, Typed, GotoKeeps DEF EvGrows
  <2>4. CASE Taint(rt)
    BY <1>1, <1>2, <2>1, <2>4, TaintKeeps
  <2>5. CASE GiveUp(rt, "human")
    BY <1>1, <1>2, <2>1, <2>2, <2>5, Typed, GiveUpKeeps
  <2> QED
    BY <1>4, <2>3, <2>4, <2>5
<1>5. receipt[rt.decided] \in Delivery
  BY <1>2 DEF RuntimeInv, HostInv, HostTypeOK
<1> QED
  BY <1>3, <1>4, <1>5 DEF Reply, Delivery

-----------------------------------------------------------------------------
(* A tick takes control.                                                   *)

\* The game of the run is the game of the first capabilities.
LEMMA CapabilitiesKeeps ==
  ASSUME RuntimeInv, Capabilities
  PROVE  RuntimeInv'
<1>1. /\ ops # <<>> /\ rt.pc = "capabilities"
      /\ UNCHANGED <<hostVars, ev, hist>>
  BY DEF Capabilities, At
<1>2. /\ HostInv' /\ HostCalm /\ ~rt.tainted /\ ~rt.stopped /\ Credit(rt)
      /\ EvGrows /\ ev' \in EvType /\ ev'.decided = rt.decided /\ ev' = ev
  BY <1>1, TickBase, EvSame DEF Ticking
<1>3. Accounted(rt, ev.receipts)
  BY <1>1, TickBase DEF Accounted, Ticking
<1>4. CASE FailClosed(rt)
  BY <1>1, <1>2, <1>3, <1>4, FailClosedKeeps
<1>5. CASE /\ Goto([rt EXCEPT !.game = IF @ = 0 THEN host.inst ELSE @], "observe")
           /\ UNCHANGED sess
  <2> DEFINE g == IF rt.game = 0 THEN host.inst ELSE rt.game
             r == [rt EXCEPT !.game = g]
  <2>1. host.inst \in Nat /\ host.inst > 0 /\ rt.game \in Nat
        /\ rt.game <= host.inst /\ g \in Nat
    BY Typed DEF RuntimeInv, HostInv, HostTypeOK, RuntimeType, OwnLeases
  <2>2. Goto(r, "observe")
    BY <1>5
  <2>3. g > 0 /\ g <= host.inst /\ (rt.game > 0 => g = rt.game)
    BY <2>1
  <2> HIDE DEF g
  <2>4. /\ r \in RuntimeType /\ r.opened = rt.opened /\ r.game = g
        /\ r.stopped = rt.stopped /\ r.decided = rt.decided /\ r.held = rt.held
        /\ r.tainted = rt.tainted /\ r.mode = rt.mode
    BY <2>1, Typed DEF RuntimeType
  <2> HIDE DEF r
  <2>5. /\ "observe" \in (Ticking \ {"reply"}) \cup {"checking"}
        /\ r.decided >= rt.decided /\ Accounted(r, ev'.receipts)
    BY <1>2, <1>3, <2>4, Typed DEF Ticking, Accounted
  <2>6. LocalStep
    BY <1>1, <1>2, <1>5, <2>2, <2>4, <2>5, Typed, PostsSame, GotoLocal
       DEF EvGrows
  <2>7. /\ rt'.pc = "observe" /\ rt'.game = g /\ rt'.opened = rt.opened
        /\ rt'.held = rt.held
    BY <2>2, <2>4, GotoIs DEF SameRun, Ticking
  <2>8. UNCHANGED <<host, granted, posted, queue, exec, inputs, sess>>
    BY <1>1, <1>5 DEF hostVars, control, thread
  <2>9. PostsAreOwn'
    BY <2>3, <2>7, <2>8 DEF RuntimeInv, PostsAreOwn
  <2>10. OwnLeases'
    <3>1. rt.opened > 0 => rt.game > 0
      BY DEF RuntimeInv, OwnLeases
    <3>2. \A c \in 1..rt.opened : c \in host.sessions => g = host.inst
      <4> SUFFICES ASSUME NEW c \in 1..rt.opened, c \in host.sessions
                   PROVE  g = host.inst
        OBVIOUS
      <4>1. rt.game = host.inst
        BY DEF RuntimeInv, OwnLeases
      <4> QED
        BY <2>1, <2>3, <4>1
    <3>3. \A l \in granted : l.client \notin Rivals => l.inst = g /\ g > 0
      BY <2>3 DEF RuntimeInv, OwnLeases
    <3> QED
      BY <2>1, <2>3, <2>7, <2>8, <3>1, <3>2, <3>3
         DEF RuntimeInv, OwnLeases, Ticking
  <2> QED
    BY <2>6, <2>9, <2>10, LocalStepKeeps
<1> QED
  BY <1>4, <1>5 DEF Capabilities

LEMMA RegisterCalm ==
  ASSUME RuntimeInv, NEW k \in Clients, Register(k), k \notin 1..rt.opened
  PROVE  HostInv' /\ HostCalm
<1>1. HostInv'
  BY RegisterKeeps DEF RuntimeInv
<1>2. UNCHANGED <<granted, posted, queue, exec, inputs>>
  BY DEF Register, game, thread
<1>3. host \in HostType /\ host' = [host EXCEPT !.sessions = host.sessions \cup {k}]
  BY DEF RuntimeInv, HostInv, HostTypeOK, Register, HostType
<1>4. host'.inst = host.inst /\ host'.sessions = host.sessions \cup {k}
      /\ host.inst \in Nat
  BY <1>3 DEF HostType
<1> QED
  BY <1>1, <1>2, <1>4 DEF RuntimeInv, PostsAreOwn, HostCalm

LEMMA RegisterSessionKeeps ==
  ASSUME RuntimeInv, RegisterSession
  PROVE  RuntimeInv'
<1> DEFINE k == rt.opened + 1
<1>1. ops # <<>> /\ rt.pc = "register" /\ UNCHANGED <<ev, hist>>
  BY DEF RegisterSession, At
<1>2. /\ ~rt.tainted /\ ~rt.stopped /\ Credit(rt) /\ rt.game > 0
      /\ EvGrows /\ ev' \in EvType /\ ev'.decided = rt.decided /\ ev' = ev
      /\ rt.decided \in 1..MaxDecisions /\ ~OwnPost(rt.decided)
  BY <1>1, TickFacts, EvSame DEF Ticking, RuntimeInv, OwnLeases, OpenPosts
<1>3. Accounted(rt, ev.receipts)
  BY <1>1, TickFacts DEF Accounted, Ticking
<1>4. CASE FailClosed(rt) /\ UNCHANGED hostVars
  <2>1. HostInv' /\ HostCalm
    BY <1>4, HostUnchanged
  <2> QED
    BY <1>1, <1>2, <1>3, <1>4, <2>1, FailClosedKeeps
<1>5. CASE k <= MaxOwn /\ Register(k)
  <2>1. k \in 1..MaxOwn /\ k \in Clients /\ k \notin 1..rt.opened
        /\ k > rt.opened /\ k \in Nat /\ k \in 0..MaxOwn
    BY <1>5, Typed
  <2>2. HostInv' /\ HostCalm
    BY <1>5, <2>1, RegisterCalm
  <2>3. CASE FailClosed(rt)
    BY <1>1, <1>2, <1>3, <2>2, <2>3, FailClosedKeeps
  <2>4. CASE /\ rt.game = host.inst /\ UNCHANGED sess
             /\ Goto([rt EXCEPT !.opened = k], "acquire")
    <3> DEFINE r == [rt EXCEPT !.opened = k]
    <3>1. Goto(r, "acquire")
      BY <2>4
    <3> HIDE DEF k
    <3>2. /\ r \in RuntimeType /\ r.opened = k /\ r.game = rt.game
          /\ r.stopped = rt.stopped /\ r.decided = rt.decided
          /\ r.held = rt.held /\ r.tainted = rt.tainted /\ r.mode = rt.mode
      BY <2>1, Typed DEF RuntimeType
    <3> HIDE DEF r
    <3>3. /\ "acquire" \in (Ticking \ {"reply"}) \cup {"checking"}
          /\ r.decided >= rt.decided /\ Accounted(r, ev'.receipts)
      BY <1>2, <1>3, <3>2, Typed DEF Ticking, Accounted
    <3>4. LocalStep
      BY <1>1, <1>2, <2>2, <2>4, <3>1, <3>2, <3>3, Typed, PostsSame, GotoLocal
         DEF EvGrows
    <3>5. /\ rt'.pc = "acquire" /\ rt'.game = rt.game /\ rt'.opened = k
      BY <3>1, <3>2, GotoIs DEF SameRun, Ticking
    <3>6. PostsAreOwn'
      BY <2>2, <3>5 DEF RuntimeInv, PostsAreOwn, HostCalm
    <3>7. OwnLeases'
      <4>1. /\ host.inst \in Nat /\ host \in HostType
            /\ host' = [host EXCEPT !.sessions = host.sessions \cup {k}]
            /\ granted' = granted /\ sess' = sess
        BY <1>5, <2>4 DEF RuntimeInv, HostInv, HostTypeOK, HostType, Register, k
      <4>2. host'.inst = host.inst
        BY <4>1 DEF HostType
      <4>3. \A j \in 1..MaxOwn : j > k => sess[j] = Idle
        BY <2>1, Typed DEF RuntimeInv, OwnLeases
      <4>4. \A l \in granted : l.client \notin Rivals
                               => l.inst = rt.game /\ rt.game > 0
        BY DEF RuntimeInv, OwnLeases
      <4> QED
        BY <1>2, <2>1, <2>4, <3>5, <4>1, <4>2, <4>3, <4>4
           DEF RuntimeInv, OwnLeases
    <3> QED
      BY <3>4, <3>6, <3>7, LocalStepKeeps
  <2> QED
    BY <1>5, <2>3, <2>4 DEF RegisterSession
<1> QED
  BY <1>4, <1>5 DEF RegisterSession

\* A lease that a session of the runtime is granted is one of its game.
LEMMA AcquireCalm ==
  ASSUME RuntimeInv, NEW k \in Clients, k \in Rivals \/ k \in 1..rt.opened,
         Acquire(k)
  PROVE  /\ HostInv' /\ HostCalm
         /\ NextLease(k) \in Lease /\ NextLease(k) # NoLease
         /\ NextLease(k) \in granted' /\ NextLease(k).client = k
<1>1. HostInv /\ HostInv'
  BY AcquireKeeps DEF RuntimeInv
<1>2. UNCHANGED <<posted, queue, exec, inputs>>
      /\ granted' = granted \cup {NextLease(k)} /\ AcquireOK(k)
  BY DEF Acquire, game, thread
<1>3. NextLease(k) \in Lease /\ NextLease(k).inst = host.inst
      /\ NextLease(k).gen \in Nat
  BY <1>1, NextLeaseIs DEF Lease
<1>4. NextLease(k).client = k
  BY <1>2 DEF NextLease, AcquireOK, Lease
<1>5. host'.inst = host.inst /\ host'.sessions = host.sessions /\ host.inst \in Nat
  <2> DEFINE l == NextLease(k)
             life == IF host.lease = NoLease THEN LeaseTicks ELSE host.life
  <2>1. host' = [host EXCEPT !.lease = l, !.gen = l.gen, !.life = life]
    BY DEF Acquire
  <2>2. host \in HostType
    BY <1>1 DEF HostInv, HostTypeOK, HostType
  <2> HIDE DEF l, life
  <2> QED
    BY <2>1, <2>2 DEF HostType
<1>6. k \in Rivals \/ (host.inst = rt.game /\ rt.game > 0)
  <2>1. k \in host.sessions
    BY <1>2 DEF AcquireOK
  <2> QED
    BY <2>1, Typed DEF RuntimeInv, OwnLeases
<1>7. HostCalm
  BY <1>2, <1>3, <1>4, <1>5, <1>6 DEF RuntimeInv, PostsAreOwn, HostCalm
<1> QED
  BY <1>1, <1>2, <1>3, <1>4, <1>7, NothingOK

LEMMA AcquireControlKeeps ==
  ASSUME RuntimeInv, AcquireControl
  PROVE  RuntimeInv'
<1> DEFINE k == rt.opened
<1>1. ops # <<>> /\ rt.pc = "acquire" /\ UNCHANGED <<ev, hist>>
  BY DEF AcquireControl, At
<1>2. /\ ~rt.tainted /\ ~rt.stopped /\ Credit(rt) /\ rt.game > 0
      /\ EvGrows /\ ev' \in EvType /\ ev'.decided = rt.decided /\ ev' = ev
      /\ rt.decided \in 1..MaxDecisions /\ ~OwnPost(rt.decided)
      /\ rt.opened > 0
  BY <1>1, TickFacts, EvSame DEF Ticking, RuntimeInv, OwnLeases, OpenPosts
<1>3. Accounted(rt, ev.receipts)
  BY <1>1, TickFacts DEF Accounted, Ticking
<1>4. k \in 1..MaxOwn /\ k \in Clients /\ k \in 1..rt.opened /\ ~(k > rt.opened)
  BY <1>2, Typed
<1>5. sess[k] \in Session
  BY <1>4, Typed
<1>6. CASE /\ Acquire(k) /\ Goto([rt EXCEPT !.held = TRUE], "submit")
           /\ sess' = [sess EXCEPT ![k].lease = NextLease(k)]
  <2> DEFINE r == [rt EXCEPT !.held = TRUE]
             l == NextLease(k)
  <2>1. HostInv' /\ HostCalm /\ l \in Lease /\ l \in granted' /\ l.client = k
    BY <1>4, <1>6, AcquireCalm
  <2>2. Goto(r, "submit") /\ sess' = [sess EXCEPT ![k].lease = l]
    BY <1>6
  <2>3. /\ r \in RuntimeType /\ r.opened = rt.opened /\ r.game = rt.game
        /\ r.stopped = rt.stopped /\ r.decided = rt.decided
        /\ r.tainted = rt.tainted /\ r.mode = rt.mode
    BY Typed DEF RuntimeType
  <2> HIDE DEF r, l, k
  <2>4. SessOwn
    BY <1>4, <1>5, <2>1, <2>2, Typed DEF SessOwn, Session
  <2>5. /\ "submit" \in (Ticking \ {"reply"}) \cup {"checking"}
        /\ r.decided >= rt.decided /\ Accounted(r, ev'.receipts)
    BY <1>2, <1>3, <2>3, Typed DEF Ticking, Accounted
  <2> QED
    BY <1>1, <1>2, <2>1, <2>2, <2>3, <2>4, <2>5, GotoKeeps DEF EvGrows
<1>7. ASSUME NEW m \in {rt.mode, "human"}, Acquire(k),
             Goto([[rt EXCEPT !.held = TRUE] EXCEPT !.mode = m, !.after = "end",
                             !.giving = NextLease(k)], "releasing"),
             sess' = [sess EXCEPT ![k].lease = NextLease(k),
                                  ![k].closed = TRUE]
      PROVE  RuntimeInv'
  <2> DEFINE l == NextLease(k)
             r == [[rt EXCEPT !.held = TRUE] EXCEPT !.mode = m, !.after = "end",
                             !.giving = l]
  <2>1. HostInv' /\ HostCalm /\ l \in Lease /\ l \in granted' /\ l.client = k
    BY <1>4, <1>7, AcquireCalm
  <2>2. Goto(r, "releasing")
        /\ sess' = [sess EXCEPT ![k].lease = l, ![k].closed = TRUE]
    BY <1>7
  <2> HIDE DEF l
  <2>3. /\ r \in RuntimeType /\ r.opened = rt.opened /\ r.game = rt.game
        /\ r.stopped = rt.stopped /\ r.decided = rt.decided /\ r.held = TRUE
        /\ r.tainted = rt.tainted /\ r.mode = m /\ r.after = "end"
    BY <2>1, Typed DEF RuntimeType, Modes
  <2> HIDE DEF r, k
  <2> DEFINE a == [sess EXCEPT ![k].lease = l]
  <2>4. /\ a \in [1..MaxOwn -> Session] /\ a[k].lease = l
        /\ \A j \in 1..MaxOwn : j # k => a[j] = sess[j]
    BY <1>4, <1>5, <2>1, Typed DEF Session
  <2>5. sess' = [a EXCEPT ![k].closed = TRUE]
    BY <2>2
  <2> HIDE DEF a
  <2>b. /\ sess' \in [1..MaxOwn -> Session] /\ sess'[k].lease = l
        /\ \A j \in 1..MaxOwn : j # k => sess'[j] = sess[j]
    <3>1. a[k] \in Session /\ k \in 1..MaxOwn
      BY <1>4, <2>4
    <3>2. sess' = [a EXCEPT ![k] = [a[k] EXCEPT !.closed = TRUE]]
      BY <2>5
    <3>3. [a[k] EXCEPT !.closed = TRUE] \in Session
          /\ [a[k] EXCEPT !.closed = TRUE].lease = l
      BY <2>4, <3>1 DEF Session
    <3> QED
      BY <2>4, <3>1, <3>2, <3>3
  <2>6. SessOwn
    BY <1>4, <2>1, <2>b, Typed DEF SessOwn
  <2>7. Rest(r, "end")
    <3>1. /\ rt' \in RuntimeType /\ rt'.pc = "releasing" /\ ops' = ops
          /\ SameRun(r) /\ rt'.held = r.held /\ rt'.mode = r.mode
          /\ rt'.after = r.after
      BY <2>2, <2>3, GotoIs DEF Pausing
    <3> QED
      BY <2>3, <3>1, Typed DEF Rest, Pausing
  <2>8. Accounted(r, ev'.receipts) /\ Credit(r) /\ r.decided >= rt.decided
    BY <1>2, <1>3, <2>3, Typed DEF Accounted, Credit
  <2> QED
    BY <1>1, <1>2, <2>1, <2>3, <2>6, <2>7, <2>8, RestKeeps
<1>8. CASE /\ Acquire(k) \/ UNCHANGED hostVars
           /\ Finish([rt EXCEPT !.mode = "human"])
           /\ sess' = [sess EXCEPT ![k].closed = TRUE]
  <2> DEFINE r == [rt EXCEPT !.mode = "human"]
  <2>1. HostInv' /\ HostCalm
    BY <1>4, <1>8, AcquireCalm, HostUnchanged
  <2>2. Finish(r) /\ sess' = [sess EXCEPT ![k].closed = TRUE]
    BY <1>8
  <2>3. /\ r \in RuntimeType /\ r.opened = rt.opened /\ r.game = rt.game
        /\ r.stopped = rt.stopped /\ r.decided = rt.decided /\ r.held = rt.held
        /\ r.tainted = rt.tainted /\ r.mode = "human"
    BY Typed DEF RuntimeType, Modes
  <2> HIDE DEF r, k
  <2>4. SessOwn
    BY <1>4, <1>5, <2>2, Typed DEF SessOwn, Session
  <2>5. Rest(r, "end")
    BY <1>1, <2>2, <2>3, Typed, FinishIs DEF Rest, Pausing, SameRun
  <2>6. Accounted(r, ev'.receipts) /\ Credit(r) /\ r.decided >= rt.decided
        /\ (r.held => rt.opened > 0)
    BY <1>2, <1>3, <2>3, Typed DEF Accounted, Credit
  <2> QED
    BY <1>1, <1>2, <2>1, <2>3, <2>4, <2>5, <2>6, RestKeeps
<1> QED
  BY <1>6, <1>7, <1>8 DEF AcquireControl

-----------------------------------------------------------------------------
(* Controller sessions.                                                    *)

LEMMA SessionKeeps ==
  ASSUME RuntimeInv, HostInv', HostCalm, SessOwn, UNCHANGED besides
  PROVE  RuntimeInv'
<1>1. UNCHANGED <<rt, ops, ev, hist>>
  BY DEF besides
<1>2. Chain' /\ StepCredit' /\ OpenPosts'
  <2>1. \A n \in 1..MaxDecisions : OwnPost(n)' <=> OwnPost(n)
    BY PostsSame
  <2>2. rt.decided \in 1..MaxDecisions /\ ~OwnPost(rt.decided)
          => ~OwnPost(rt.decided)'
    BY <1>1, <2>1 DEF OwnPost
  <2> QED
    BY <1>1, <2>1, <2>2 DEF RuntimeInv, Chain, op, StepCredit, OpenPosts
<1>3. OwnLeases' /\ PostsAreOwn'
  BY <1>1, Typed, CalmKeeps DEF RuntimeInv, OwnLeases
<1>4. TypeOK'
  BY <1>1 DEF RuntimeInv, TypeOK, HostInv, SessOwn
<1> QED
  BY <1>2, <1>3, <1>4 DEF RuntimeInv

\* One session with a call in flight, or that starts one.
LEMMA OneSessionKeeps ==
  ASSUME RuntimeInv, HostInv', HostCalm, NEW k \in 1..MaxOwn, k <= rt.opened,
         sess' \in [1..MaxOwn -> Session],
         \A j \in 1..MaxOwn : j # k => sess'[j] = sess[j],
         \/ sess'[k].lease \in {NoLease, sess[k].lease}
         \/ sess'[k].lease \in granted' /\ sess'[k].lease.client = k,
         UNCHANGED besides
  PROVE  RuntimeInv'
<1>1. SessOwn
  BY Typed DEF SessOwn
<1> QED
  BY <1>1, SessionKeeps

LEMMA Opened ==
  ASSUME RuntimeInv, NEW k \in 1..MaxOwn,
         sess[k].call # "none" \/ sess[k].lease # NoLease
  PROVE  k <= rt.opened /\ k \in 1..rt.opened /\ k \in Clients
         /\ sess[k] \in Session
<1>1. ~(k > rt.opened)
  <2>1. k > rt.opened => sess[k] = Idle
    BY DEF RuntimeInv, OwnLeases
  <2> QED
    BY <2>1 DEF Idle
<1> QED
  BY <1>1, Typed

LEMMA TimerKeeps ==
  ASSUME RuntimeInv, NEW k \in 1..MaxOwn, RenewalTimer(k)
  PROVE  RuntimeInv'
<1>1. k <= rt.opened /\ sess[k] \in Session /\ UNCHANGED <<hostVars, besides>>
  BY Opened DEF RenewalTimer
<1>2. sess' = [sess EXCEPT ![k].call = "renew"]
  BY DEF RenewalTimer
<1>3. /\ sess' \in [1..MaxOwn -> Session] /\ sess'[k].lease = sess[k].lease
      /\ \A j \in 1..MaxOwn : j # k => sess'[j] = sess[j]
  BY <1>1, <1>2, Typed DEF Session
<1>4. HostInv' /\ HostCalm
  BY <1>1, HostUnchanged
<1> QED
  BY <1>1, <1>2, <1>3, <1>4, OneSessionKeeps

LEMMA RenewReturnsKeeps ==
  ASSUME RuntimeInv, NEW k \in 1..MaxOwn, RenewReturns(k)
  PROVE  RuntimeInv'
<1>1. k <= rt.opened /\ sess[k] \in Session /\ UNCHANGED besides
  BY Opened DEF RenewReturns
<1>2. HostInv' /\ HostCalm
  BY HostUnchanged, ReleaseCalm DEF RenewReturns
<1>3. CASE sess' = [sess EXCEPT ![k].call = "none"]
  <2>1. /\ sess' \in [1..MaxOwn -> Session] /\ sess'[k].lease = sess[k].lease
        /\ \A j \in 1..MaxOwn : j # k => sess'[j] = sess[j]
    BY <1>1, <1>3, Typed DEF Session
  <2> QED
    BY <1>1, <1>2, <2>1, OneSessionKeeps
<1>4. CASE sess' = [sess EXCEPT ![k].call = "acquire", ![k].lease = NoLease]
  <2> DEFINE a == [sess EXCEPT ![k].call = "acquire"]
  <2>1. /\ a \in [1..MaxOwn -> Session]
        /\ \A j \in 1..MaxOwn : j # k => a[j] = sess[j]
    BY <1>1, Typed DEF Session
  <2>2. sess' = [a EXCEPT ![k].lease = NoLease]
    BY <1>4
  <2> HIDE DEF a
  <2>3. /\ sess' \in [1..MaxOwn -> Session] /\ sess'[k].lease = NoLease
        /\ \A j \in 1..MaxOwn : j # k => sess'[j] = sess[j]
    BY <2>1, <2>2 DEF Session
  <2> QED
    BY <1>1, <1>2, <2>3, OneSessionKeeps
<1> QED
  BY <1>3, <1>4 DEF RenewReturns

LEMMA AcquireReturnsKeeps ==
  ASSUME RuntimeInv, NEW k \in 1..MaxOwn, AcquireReturns(k)
  PROVE  RuntimeInv'
<1>1. /\ k <= rt.opened /\ k \in 1..rt.opened /\ k \in Clients
      /\ sess[k] \in Session /\ UNCHANGED besides
  BY Opened DEF AcquireReturns
<1>2. HostInv' /\ HostCalm
  BY <1>1, HostUnchanged, AcquireCalm DEF AcquireReturns
<1>3. CASE sess' = [sess EXCEPT ![k].call = "none"]
  <2>1. /\ sess' \in [1..MaxOwn -> Session] /\ sess'[k].lease = sess[k].lease
        /\ \A j \in 1..MaxOwn : j # k => sess'[j] = sess[j]
    BY <1>1, <1>3, Typed DEF Session
  <2> QED
    BY <1>1, <1>2, <2>1, OneSessionKeeps
<1>4. CASE /\ Acquire(k)
           /\ sess' = [sess EXCEPT ![k].call = "none", ![k].lease = NextLease(k)]
  <2> DEFINE l == NextLease(k)
             a == [sess EXCEPT ![k].call = "none"]
  <2>1. l \in Lease /\ l \in granted' /\ l.client = k
    BY <1>1, <1>4, AcquireCalm
  <2>2. sess' = [a EXCEPT ![k].lease = l]
    BY <1>4
  <2> HIDE DEF l
  <2>3. /\ a \in [1..MaxOwn -> Session]
        /\ \A j \in 1..MaxOwn : j # k => a[j] = sess[j]
    BY <1>1, Typed DEF Session
  <2> HIDE DEF a
  <2>4. /\ sess' \in [1..MaxOwn -> Session] /\ sess'[k].lease = l
        /\ \A j \in 1..MaxOwn : j # k => sess'[j] = sess[j]
    BY <2>1, <2>2, <2>3 DEF Session
  <2> QED
    BY <1>1, <1>2, <2>1, <2>4, OneSessionKeeps
<1> QED
  BY <1>3, <1>4 DEF AcquireReturns

-----------------------------------------------------------------------------
(* A decision is sent.                                                     *)

LEMMA SendKeeps ==
  ASSUME RuntimeInv, ops # <<>>, rt.pc \in {"submit", "credentials"},
         sess[own].lease # NoLease, Send
  PROVE  RuntimeInv'
<1> DEFINE l == sess[own].lease
           c == [req |-> rt.decided, snap |-> rt.aim, lease |-> l]
           d == IF rt.mode = "one_step" THEN 1 ELSE 0
<1>1. /\ ~rt.tainted /\ ~rt.stopped /\ Credit(rt) /\ rt.game > 0
      /\ rt.decided \in 1..MaxDecisions /\ ~OwnPost(rt.decided)
      /\ rt.opened > 0
      /\ \A n \in 1..MaxDecisions : OwnPost(n) => n \in ev.receipts
  BY TickFacts DEF Ticking, RuntimeInv, OwnLeases, OpenPosts
<1>2. own \in 1..MaxOwn /\ own \notin Rivals
  BY <1>1, Typed DEF own
<1>3. l \in granted /\ l.client = own /\ l \in Lease /\ l.inst = rt.game
  <2>1. l \in granted /\ l.client = own
    BY <1>2 DEF RuntimeInv, OwnLeases
  <2> QED
    BY <1>2, <2>1 DEF RuntimeInv, OwnLeases, HostInv, HostTypeOK
<1>4. Post(c) /\ Goto(rt, "reply") /\ UNCHANGED <<sess, ev>>
      /\ hist' = [hist EXCEPT !.stepPosts = hist.stepPosts + d]
  BY DEF Send
<1>5. c \in Command /\ c.req = rt.decided /\ c.lease = l
  <2>1. rt.decided \in Requests /\ rt.aim \in Nat
    BY <1>1, Typed DEF RuntimeType
  <2> QED
    BY <1>3, <2>1 DEF Command
<1> HIDE DEF c, l
<1>6. HostInv'
  BY <1>4, <1>5, PostKeeps DEF RuntimeInv
<1>7. /\ rt' \in RuntimeType /\ rt'.pc = "reply" /\ ops' = ops /\ SameRun(rt)
      /\ rt'.held = rt.held /\ rt'.mode = rt.mode
  BY <1>4, Typed, GotoIs DEF Ticking
<1>8. /\ posted' = posted \cup {c} /\ UNCHANGED <<host, granted, exec, inputs>>
      /\ queue' = Append(queue, c)
  BY <1>4 DEF Post, control
<1>9. \A n : OwnPost(n)' <=> OwnPost(n) \/ n = rt.decided
  BY <1>5, <1>8 DEF OwnPost
<1>10. /\ hist.steps \in Nat /\ hist.stepPosts \in Nat /\ d \in {0, 1}
       /\ hist.stepPosts <= hist.steps
       /\ hist \in [asks : Nat, handed : BOOLEAN, legacy : BOOLEAN,
                    steps : Nat, stepPosts : Nat, scene : Scenes]
  BY DEF RuntimeInv, TypeOK, StepCredit
<1>11. /\ hist' \in [asks : Nat, handed : BOOLEAN, legacy : BOOLEAN,
                     steps : Nat, stepPosts : Nat, scene : Scenes]
       /\ hist'.steps = hist.steps /\ hist'.stepPosts = hist.stepPosts + d
  BY <1>4, <1>10
<1>12. TypeOK'
  BY <1>4, <1>6, <1>7, <1>11, Typed DEF TypeOK, HostInv, EvType
<1>13. StepCredit'
  <2>1. rt.mode = "one_step" => hist.stepPosts < hist.steps
    BY <1>1 DEF Credit
  <2>2. hist'.stepPosts <= hist'.steps
    BY <1>10, <1>11, <2>1
  <2> QED
    BY <1>7, <2>2 DEF StepCredit
<1>14. Chain'
  BY <1>7 DEF Chain
<1>15. OpenPosts'
  BY <1>1, <1>4, <1>7, <1>9, Typed
     DEF RuntimeInv, OpenPosts, SameRun, Ticking
<1>16. OwnLeases'
  BY <1>1, <1>4, <1>7, <1>8 DEF RuntimeInv, OwnLeases, SameRun
<1>17. PostsAreOwn'
  <2>1. \A i \in 1..Len(queue') : queue'[i] \in posted'
    <3>1. queue \in Seq(Command) /\ \A i \in 1..Len(queue) : queue[i] \in posted
      BY DEF RuntimeInv, HostInv, HostTypeOK, PostsAreOwn
    <3> QED
      BY <1>5, <1>8, <3>1
  <2>2. \A p \in posted' : p.req \in 1..MaxDecisions =>
                             p.lease.inst = rt'.game /\ rt'.game > 0
    BY <1>1, <1>3, <1>5, <1>7, <1>8 DEF RuntimeInv, PostsAreOwn, SameRun
  <2> QED
    BY <1>8, <2>1, <2>2 DEF RuntimeInv, PostsAreOwn
<1> QED
  BY <1>6, <1>12, <1>13, <1>14, <1>15, <1>16, <1>17 DEF RuntimeInv

LEMMA SubmitKeeps ==
  ASSUME RuntimeInv, Submit
  PROVE  RuntimeInv'
<1>1. ops # <<>> /\ rt.pc = "submit"
  BY DEF Submit, At
<1>2. CASE sess[own].lease # NoLease /\ Send
  BY <1>1, <1>2, SendKeeps
<1>3. CASE /\ Goto(rt, "credentials") /\ UNCHANGED <<hostVars, ev, hist>>
           /\ sess' = [sess EXCEPT ![own].call =
                         IF @ = "none" /\ sess[own].lease # NoLease
                         THEN "renew" ELSE "acquire"]
  <2> DEFINE call == IF sess[own].call = "none" /\ sess[own].lease # NoLease
                     THEN "renew" ELSE "acquire"
  <2>1. /\ ~rt.tainted /\ ~rt.stopped /\ Credit(rt) /\ rt.game > 0
        /\ EvGrows /\ ev' \in EvType /\ ev'.decided = rt.decided /\ ev' = ev
        /\ rt.decided \in 1..MaxDecisions /\ ~OwnPost(rt.decided)
        /\ rt.opened > 0 /\ HostInv' /\ HostCalm
    BY <1>1, <1>3, TickFacts, EvSame, HostUnchanged
       DEF Ticking, RuntimeInv, OwnLeases, OpenPosts
  <2>2. own \in 1..MaxOwn /\ own = rt.opened
    BY <2>1, Typed DEF own
  <2>3. sess' = [sess EXCEPT ![own].call = call] /\ call \in {"renew", "acquire"}
    BY <1>3
  <2> HIDE DEF call
  <2>a. call \in {"none", "renew", "acquire"} /\ sess[own] \in Session
    BY <2>2, <2>3, Typed
  <2>b. [sess[own] EXCEPT !.call = call] \in Session
        /\ [sess[own] EXCEPT !.call = call].lease = sess[own].lease
    BY <2>a DEF Session
  <2>4. SessOwn
    <3>1. /\ sess' \in [1..MaxOwn -> Session] /\ sess'[own].lease = sess[own].lease
          /\ \A j \in 1..MaxOwn : j # own => sess'[j] = sess[j]
      BY <2>2, <2>3, <2>b, Typed
    <3>2. \A j \in 1..MaxOwn : j > rt.opened => j # own
      BY <2>2, Typed
    <3> QED
      BY <2>2, <3>1, <3>2 DEF SessOwn
  <2>5. /\ "credentials" \in (Ticking \ {"reply"}) \cup {"checking"}
        /\ rt.decided >= rt.decided /\ Accounted(rt, ev'.receipts)
    BY <1>1, <2>1, TickFacts, Typed DEF Ticking, Accounted
  <2> QED
    BY <1>1, <1>3, <2>1, <2>4, <2>5, Typed, GotoKeeps DEF EvGrows
<1> QED
  BY <1>2, <1>3 DEF Submit

LEMMA SubmitRenewedKeeps ==
  ASSUME RuntimeInv, SubmitRenewed
  PROVE  RuntimeInv'
<1>1. ops # <<>> /\ rt.pc = "credentials"
  BY DEF SubmitRenewed, At
<1>2. CASE sess[own].lease # NoLease /\ Send
  BY <1>1, <1>2, SendKeeps
<1>3. CASE Taint(rt) /\ UNCHANGED <<hostVars, ev, hist>>
  <2>1. HostInv' /\ HostCalm /\ EvGrows
    BY <1>3, HostUnchanged, EvSame
  <2> QED
    BY <1>1, <1>3, <2>1, TaintKeeps
<1> QED
  BY <1>2, <1>3 DEF SubmitRenewed

LEMMA RunningKeeps ==
  ASSUME RuntimeInv, Running
  PROVE  RuntimeInv'
BY StartKeeps, RecordKeeps, StopKeeps, ReleasingKeeps, CapabilitiesKeeps,
   ObserveKeeps, ScoreKeeps, RegisterSessionKeeps, AcquireControlKeeps,
   SubmitKeeps, SubmitRenewedKeeps, ReplyKeeps, NoReplyKeeps, SuccessorKeeps
   DEF Running

-----------------------------------------------------------------------------
(* People, rivals and the Host.                                            *)

\* A command joins the chain; the running one stays where it is.
LEMMA AskKeeps ==
  ASSUME RuntimeInv, Ask
  PROVE  RuntimeInv'
<1> DEFINE HistType == [asks : Nat, handed : BOOLEAN, legacy : BOOLEAN,
                        steps : Nat, stepPosts : Nat, scene : Scenes]
<1>1. /\ rt \in RuntimeType /\ ops \in Seq(Op) /\ hist \in HistType
      /\ rt.epoch \in Nat /\ rt.epoch + 1 \in Nat /\ host.inst \in Nat
  <2>1. host.inst \in Nat
    BY DEF RuntimeInv, HostInv, HostTypeOK
  <2>2. rt.epoch \in Nat /\ rt.epoch + 1 \in Nat
    BY Typed DEF RuntimeType
  <2> QED
    BY <2>1, <2>2, Typed DEF RuntimeInv, TypeOK
<1>2. \A g \in Bindings : g \in Guards
  BY <1>1 DEF Bindings, Guards, NoGuard
<1>3. NoGuard \in Guards
  BY DEF NoGuard, Guards
<1> DEFINE SamePlace ==
      /\ rt' \in RuntimeType /\ SameRun(rt)
      /\ rt'.pc = rt.pc /\ rt'.after = rt.after /\ rt'.held = rt.held
      /\ rt'.mode = rt.mode
<1> DEFINE Joins == \E o \in Op : ops' = Append(ops, o)
<1> DEFINE SameSteps == /\ hist' \in HistType /\ hist'.steps = hist.steps
                        /\ hist'.stepPosts = hist.stepPosts
<1>4. ASSUME NEW o \in Op, Enqueue(o) PROVE Joins
  BY <1>4 DEF Enqueue
<1>5. Handed => SameSteps
  <2> DEFINE l == \E i \in 1..Len(ops) : /\ ops[i].kind = "mode"
                                         /\ ops[i].mode # "human"
                                         /\ ops[i].guard = NoGuard
             a == hist.asks + 1
  <2>1. l \in BOOLEAN /\ a \in Nat /\ TRUE \in BOOLEAN
    BY <1>1
  <2>2. Handed => hist' = [hist EXCEPT !.asks = a, !.handed = TRUE, !.legacy = l]
    BY DEF Handed
  <2> HIDE DEF l, a
  <2> DEFINE h == [hist EXCEPT !.asks = a, !.handed = TRUE]
  <2>3. h \in HistType /\ h.steps = hist.steps /\ h.stepPosts = hist.stepPosts
    BY <1>1, <2>1
  <2>4. [h EXCEPT !.legacy = l] \in HistType
        /\ [h EXCEPT !.legacy = l].steps = h.steps
        /\ [h EXCEPT !.legacy = l].stepPosts = h.stepPosts
    BY <2>1, <2>3
  <2>5. Handed => hist' = [h EXCEPT !.legacy = l]
    BY <2>2
  <2> HIDE DEF h
  <2> QED
    BY <2>3, <2>4, <2>5
<1>6. SamePlace /\ Joins /\ SameSteps /\ UNCHANGED <<hostVars, sess, ev>>
  <2>1. CASE AskHuman
    <3>1. [kind |-> "mode", mode |-> "human", guard |-> NoGuard] \in Op
      BY <1>3 DEF Op, Modes
    <3>2. SamePlace
      BY <1>1, <2>1 DEF AskHuman, RuntimeType, SameRun, Modes
    <3> QED
      BY <1>4, <1>5, <2>1, <3>1, <3>2 DEF AskHuman, asked
  <2>2. CASE AskStop
    <3>1. [kind |-> "stop", mode |-> "none", guard |-> NoGuard] \in Op
      BY <1>3 DEF Op, Modes
    <3>2. SamePlace
      BY <1>1, <2>2 DEF AskStop, RuntimeType, SameRun
    <3> QED
      BY <1>4, <1>5, <2>2, <3>1, <3>2 DEF AskStop, asked
  <2>3. ASSUME NEW g \in Bindings, AskTick(g)
        PROVE  SamePlace /\ Joins /\ UNCHANGED <<hostVars, sess, ev>>
    <3>1. [kind |-> "tick", mode |-> "none", guard |-> g] \in Op
      BY <1>2 DEF Op, Modes
    <3>2. SamePlace
      BY <1>1, <2>3 DEF AskTick, RuntimeType, SameRun
    <3> QED
      BY <1>4, <2>3, <3>1, <3>2 DEF AskTick, asked
  <2>4. CASE WorkerTick
    <3>1. NoGuard \in Bindings /\ AskTick(NoGuard) /\ hist' = hist
      BY <2>4 DEF WorkerTick, Bindings
    <3> QED
      BY <1>1, <2>3, <3>1
  <2>5. ASSUME NEW g \in Bindings, UserTick(g)
        PROVE  SamePlace /\ Joins /\ SameSteps /\ UNCHANGED <<hostVars, sess, ev>>
    <3>1. SameSteps
      <4>1. hist' = [hist EXCEPT !.asks = hist.asks + 1]
        BY <2>5 DEF UserTick
      <4>2. hist.asks + 1 \in Nat
        BY <1>1
      <4> QED
        BY <1>1, <4>1, <4>2
    <3> QED
      BY <2>3, <2>5, <3>1 DEF UserTick
  <2>6. ASSUME NEW g \in Bindings, NEW m \in hist.scene.modes, AskMode(m, g)
        PROVE  SamePlace /\ Joins /\ SameSteps /\ UNCHANGED <<hostVars, sess, ev>>
    <3>1. m \in {"shadow", "one_step", "auto"}
      BY <1>1
    <3>2. [kind |-> "mode", mode |-> m, guard |-> g] \in Op
      BY <1>2, <3>1 DEF Op, Modes
    <3>3. SamePlace
      BY <1>1, <2>6, <3>1 DEF AskMode, RuntimeType, SameRun, Modes
    <3>4. SameSteps
      <4> DEFINE a == hist.asks + 1
                 h == hist.handed /\ g # NoGuard /\ g.epoch < rt.epoch
      <4>1. hist' = [hist EXCEPT !.asks = a, !.handed = h]
        BY <2>6 DEF AskMode
      <4>2. a \in Nat /\ h \in BOOLEAN
        BY <1>1
      <4> HIDE DEF a, h
      <4> QED
        BY <1>1, <4>1, <4>2
    <3> QED
      BY <1>4, <2>6, <3>2, <3>3, <3>4 DEF AskMode, asked
  <2> QED
    BY <2>1, <2>2, <2>4, <2>5, <2>6 DEF Ask
<1> HIDE DEF SamePlace
<1>7. /\ rt' \in RuntimeType /\ SameRun(rt)
      /\ rt'.pc = rt.pc /\ rt'.after = rt.after /\ rt'.held = rt.held
      /\ rt'.mode = rt.mode
  BY <1>6 DEF SamePlace
<1>8. PICK o \in Op : ops' = Append(ops, o)
  BY <1>6
<1>9. /\ ops' \in Seq(Op) /\ ops' # <<>>
      /\ ops # <<>> => Head(ops') = Head(ops)
  BY <1>1, <1>8
<1>10. HostInv' /\ HostCalm
  BY <1>6, HostUnchanged
<1>11. SessOwn
  BY <1>6, Typed DEF SessOwn
<1>12. Chain'
  BY <1>7, <1>9 DEF RuntimeInv, Chain, op
<1>13. OwnLeases' /\ PostsAreOwn'
  BY <1>7, <1>10, <1>11, Typed, CalmKeeps DEF SameRun, RuntimeInv, OwnLeases
<1>14. OpenPosts'
  <2>1. posted' = posted /\ ev' = ev
    BY <1>6 DEF hostVars
  <2> QED
    BY <1>7, <2>1 DEF RuntimeInv, OpenPosts, OwnPost, SameRun
<1>15. StepCredit'
  BY <1>6, <1>7 DEF RuntimeInv, StepCredit
<1>16. TypeOK'
  BY <1>6, <1>7, <1>9, <1>10, Typed DEF TypeOK, HostInv, EvType
<1> QED
  BY <1>10, <1>12, <1>13, <1>14, <1>15, <1>16 DEF RuntimeInv

\* Whatever the Host does by itself is calm.
LEMMA TakeCalm ==
  ASSUME RuntimeInv, TakeNext, exec' \in {NoCommand, Head(queue)}
  PROVE  HostCalm
<1>1. /\ queue \in Seq(Command) /\ queue # <<>> /\ queue' = Tail(queue)
      /\ UNCHANGED <<host, granted, posted, inputs>> /\ host.inst \in Nat
  BY DEF RuntimeInv, HostInv, HostTypeOK, TakeNext, Ready, control
<1>2. \A i \in 1..Len(queue) : queue[i] \in posted
  BY DEF RuntimeInv, PostsAreOwn
<1>3. Head(queue) \in posted
  BY <1>1, <1>2
<1>4. \A i \in 1..Len(queue') : queue'[i] \in posted
  BY <1>1, <1>2
<1> QED
  BY <1>1, <1>3, <1>4 DEF RuntimeInv, PostsAreOwn, HostCalm

LEMMA LandedPosted ==
  ASSUME RuntimeInv, exec # NoCommand, NEW acted \in BOOLEAN, Landed(acted)
  PROVE  \A i \in 1..Len(inputs') : inputs'[i].cmd \in posted
<1>1. /\ Len(inputs') = IF acted THEN Len(inputs) + 1 ELSE Len(inputs)
      /\ \A i \in 1..Len(inputs) : inputs'[i] = inputs[i]
      /\ acted => inputs'[Len(inputs) + 1] = [cmd |-> exec, at |-> snap]
      /\ Len(inputs) \in Nat
  BY LandedIs DEF RuntimeInv, HostInv, HostTypeOK
<1>2. exec \in posted /\ \A i \in 1..Len(inputs) : inputs[i].cmd \in posted
  BY DEF RuntimeInv, PostsAreOwn
<1> SUFFICES ASSUME NEW i \in 1..Len(inputs') PROVE inputs'[i].cmd \in posted
  OBVIOUS
<1>3. CASE i \in 1..Len(inputs)
  BY <1>1, <1>2, <1>3
<1>4. CASE i \notin 1..Len(inputs)
  <2>1. acted /\ i = Len(inputs) + 1
    BY <1>1, <1>4
  <2> QED
    BY <1>1, <1>2, <2>1
<1> QED
  BY <1>3, <1>4

LEMMA MainThreadCalm ==
  ASSUME RuntimeInv, MainThread
  PROVE  HostInv' /\ HostCalm
<1>1. HostInv'
  BY MainThreadKeeps DEF RuntimeInv
<1>2. CASE Replay \/ SnapshotUnavailable \/ Fail \/ Admit
  <2>1. TakeNext /\ exec' \in {exec, Head(queue)}
    BY <1>2 DEF Replay, SnapshotUnavailable, Fail, Admit
  <2>2. exec = NoCommand
    BY <2>1 DEF TakeNext, Ready
  <2> QED
    BY <1>1, <2>1, <2>2, TakeCalm
<1>3. ASSUME NEW o \in Outcomes, NativeInput(o) PROVE HostCalm
  <2>a. o.acted \in BOOLEAN
    <3>1. CASE o = [acted |-> TRUE, delivery |-> "delivered"]
      BY <3>1
    <3>2. CASE o = [acted |-> FALSE, delivery |-> "not_delivered"]
      BY <3>2
    <3>3. CASE o = [acted |-> TRUE, delivery |-> "unknown"]
      BY <3>3
    <3>4. CASE o = [acted |-> FALSE, delivery |-> "unknown"]
      BY <3>4
    <3> QED
      BY <3>1, <3>2, <3>3, <3>4 DEF Outcomes
  <2>1. /\ UNCHANGED <<host, granted, queue, posted>> /\ exec' = NoCommand
        /\ exec # NoCommand /\ Landed(o.acted) /\ o.acted \in BOOLEAN
        /\ host.inst \in Nat
    BY <1>3, <2>a DEF NativeInput, control, RuntimeInv, HostInv, HostTypeOK
  <2>2. \A i \in 1..Len(inputs') : inputs'[i].cmd \in posted
    BY <2>1, LandedPosted
  <2> QED
    BY <2>1, <2>2 DEF RuntimeInv, PostsAreOwn, HostCalm
<1>4. CASE DropAfterBatch \/ FrameEnds
  <2>1. /\ UNCHANGED <<host, granted, exec, posted, inputs>>
        /\ queue \in Seq(Command) /\ host.inst \in Nat
        /\ queue' \in {queue, Tail(queue)}
        /\ (queue' # queue => queue # <<>>)
    BY <1>4 DEF DropAfterBatch, FrameEnds, control,
                RuntimeInv, HostInv, HostTypeOK
  <2>2. \A i \in 1..Len(queue) : queue[i] \in posted
    BY DEF RuntimeInv, PostsAreOwn
  <2>3. \A i \in 1..Len(queue') : queue'[i] \in posted
    <3>1. CASE queue' = queue
      BY <2>2, <3>1
    <3>2. CASE queue' = Tail(queue) /\ queue # <<>>
      BY <2>1, <2>2, <3>2
    <3> QED
      BY <2>1, <3>1, <3>2
  <2> QED
    BY <1>1, <2>1, <2>3 DEF RuntimeInv, PostsAreOwn, HostCalm
<1> QED
  BY <1>1, <1>2, <1>3, <1>4 DEF MainThread

LEMMA RestartCalm ==
  ASSUME RuntimeInv, HostRestarts
  PROVE  HostInv' /\ HostCalm
<1>1. HostInv'
  BY HostRestartsKeeps DEF RuntimeInv
<1>2. /\ host' = NewHost(host.inst + 1) /\ queue' = <<>> /\ exec' = NoCommand
      /\ UNCHANGED <<granted, posted>> /\ host.inst \in Nat
  BY DEF HostRestarts, RuntimeInv, HostInv, HostTypeOK
<1>3. host'.inst = host.inst + 1 /\ host'.sessions = {}
  BY <1>2 DEF NewHost
<1>4. \A i \in 1..Len(inputs') : inputs'[i].cmd \in posted
  <2>1. PICK acted \in IF exec = NoCommand THEN {FALSE} ELSE BOOLEAN : Landed(acted)
    BY DEF HostRestarts
  <2>2. CASE exec = NoCommand
    BY <2>1, <2>2 DEF Landed, RuntimeInv, PostsAreOwn
  <2>3. CASE exec # NoCommand
    BY <2>1, <2>3, LandedPosted
  <2> QED
    BY <2>2, <2>3
<1> QED
  BY <1>1, <1>2, <1>3, <1>4 DEF HostCalm

\* A command is sent by a rival, or once more.
LEMMA OtherPostCalm ==
  ASSUME RuntimeInv, NEW c \in Command, Post(c),
         c \in posted \/ c.req \notin 1..MaxDecisions
  PROVE  HostInv' /\ HostCalm
<1>1. HostInv'
  BY PostKeeps DEF RuntimeInv
<1>2. /\ posted' = posted \cup {c} /\ UNCHANGED <<host, granted, exec, inputs>>
      /\ queue' = Append(queue, c) /\ host.inst \in Nat
      /\ queue \in Seq(Command)
  BY DEF Post, control, RuntimeInv, HostInv, HostTypeOK
<1>3. \A i \in 1..Len(queue) : queue[i] \in posted
  BY DEF RuntimeInv, PostsAreOwn
<1>4. \A i \in 1..Len(queue') : queue'[i] \in posted'
  BY <1>2, <1>3
<1> QED
  BY <1>1, <1>2, <1>4 DEF RuntimeInv, PostsAreOwn, HostCalm

LEMMA CalmHostKeeps ==
  ASSUME RuntimeInv, HostInv', HostCalm, UNCHANGED <<runtime, hist>>
  PROVE  RuntimeInv'
<1>1. UNCHANGED besides /\ sess' = sess
  BY DEF runtime, besides
<1>2. SessOwn
  BY <1>1, Typed DEF SessOwn
<1> QED
  BY <1>1, <1>2, SessionKeeps

LEMMA OthersCalm ==
  ASSUME RuntimeInv, Others
  PROVE  HostInv' /\ HostCalm
<1>2. ASSUME NEW c \in Rivals, Register(c) PROVE HostInv' /\ HostCalm
  <2>1. c \in Clients /\ c \notin 1..rt.opened
    BY Typed
  <2> QED
    BY <1>2, <2>1, RegisterCalm
<1>3. ASSUME NEW c \in Rivals, Acquire(c) PROVE HostInv' /\ HostCalm
  BY <1>3, AcquireCalm
<1>4. ASSUME NEW l \in granted, Release(l) PROVE HostInv' /\ HostCalm
  BY <1>4, ReleaseCalm
<1>5. ASSUME NEW c \in Rivals, NEW r \in Requests \ (1..MaxDecisions),
             NEW l \in granted, Post([req |-> r, snap |-> snap, lease |-> l])
      PROVE  HostInv' /\ HostCalm
  <2> DEFINE p == [req |-> r, snap |-> snap, lease |-> l]
  <2>1. p \in Command /\ p.req \notin 1..MaxDecisions
    BY DEF RuntimeInv, HostInv, HostTypeOK, Command
  <2>2. Post(p)
    BY <1>5
  <2> HIDE DEF p
  <2> QED
    BY <2>1, <2>2, OtherPostCalm
<1>6. ASSUME NEW c \in posted, Post(c) PROVE HostInv' /\ HostCalm
  <2>1. c \in Command
    BY DEF RuntimeInv, HostInv, HostTypeOK
  <2> QED
    BY <1>6, <2>1, OtherPostCalm
<1> QED
  BY <1>2, <1>3, <1>4, <1>5, <1>6 DEF Others

LEMMA OthersKeep ==
  ASSUME RuntimeInv, Others
  PROVE  RuntimeInv'
BY OthersCalm, CalmHostKeeps DEF Others

LEMMA HostCalms ==
  ASSUME RuntimeInv, Host
  PROVE  HostInv' /\ HostCalm
<1>2. GameMoves => HostInv' /\ HostCalm
  <2> SUFFICES ASSUME GameMoves PROVE HostInv' /\ HostCalm
    OBVIOUS
  <2>1. HostInv'
    BY FramesKeep DEF RuntimeInv
  <2>2. UNCHANGED <<host, granted, queue, exec, posted, inputs>>
        /\ host.inst \in Nat
    BY DEF GameMoves, control, thread, RuntimeInv, HostInv, HostTypeOK
  <2> QED
    BY <2>1, <2>2 DEF RuntimeInv, PostsAreOwn, HostCalm
<1> QED
  BY <1>2, ReleaseCalm, MainThreadCalm, RestartCalm DEF Host

LEMMA HostKeeps ==
  ASSUME RuntimeInv, Host
  PROVE  RuntimeInv'
BY HostCalms, CalmHostKeeps DEF Host

LEMMA StutterKeepsRuntime ==
  ASSUME RuntimeInv, UNCHANGED vars
  PROVE  RuntimeInv'
<1>1. UNCHANGED hostVars /\ UNCHANGED <<runtime, hist>>
  BY DEF vars
<1> QED
  BY <1>1, HostUnchanged, CalmHostKeeps

LEMMA NextKeeps ==
  ASSUME RuntimeInv, [Next]_vars
  PROVE  RuntimeInv'
<1>1. CASE Returns
  BY <1>1, RenewReturnsKeeps, AcquireReturnsKeeps DEF Returns
<1>2. CASE Timers
  BY <1>2, TimerKeeps DEF Timers
<1> QED
  BY <1>1, <1>2, AskKeeps, RunningKeeps, OthersKeep, HostKeeps,
     StutterKeepsRuntime DEF Next

LEMMA InitRuntimeInv == Init => RuntimeInv
<1> SUFFICES ASSUME Init PROVE RuntimeInv
  OBVIOUS
<1>1. HostInv /\ HostInit
  BY InitHostInv DEF Init
<1>2. PICK scene \in Scenes :
        /\ rt = Runtime(scene.start)
        /\ hist = [asks |-> 0, handed |-> FALSE, legacy |-> FALSE,
                   steps |-> IF scene.start = "one_step" THEN 1 ELSE 0,
                   stepPosts |-> 0, scene |-> scene]
  BY DEF Init
<1>3. scene.start \in Modes
  BY DEF Modes
<1>4. /\ rt \in RuntimeType /\ rt.pc = "idle" /\ rt.game = 0 /\ rt.decided = 0
      /\ rt.opened = 0 /\ rt.held = FALSE /\ rt.mode = scene.start
      /\ rt.tainted = FALSE /\ rt.stopped = FALSE
  BY <1>2, <1>3 DEF Runtime, RuntimeType, Pausing
<1>5. /\ hist \in [asks : Nat, handed : BOOLEAN, legacy : BOOLEAN, steps : Nat,
                   stepPosts : Nat, scene : Scenes]
      /\ hist.stepPosts = 0
      /\ hist.steps = IF scene.start = "one_step" THEN 1 ELSE 0
  BY <1>2
<1>6. /\ ops = <<>> /\ sess = [k \in 1..MaxOwn |-> Idle]
      /\ ev = [decided |-> 0, receipts |-> {}, sealed |-> "no"]
  BY DEF Init
<1>7. TypeOK
  <2>1. Idle \in Session
    BY DEF Idle, Session
  <2> QED
    BY <1>1, <1>4, <1>5, <1>6, <2>1 DEF TypeOK, HostInv
<1>8. /\ host.inst = 1 /\ host.sessions = {} /\ granted = {} /\ queue = <<>>
      /\ exec = NoCommand /\ posted = {} /\ inputs = <<>>
  BY <1>1 DEF HostInit, NewHost
<1>9. Chain /\ StepCredit
  BY <1>4, <1>5, <1>6 DEF Chain, StepCredit
<1>10. OpenPosts
  BY <1>4, <1>6, <1>8 DEF OpenPosts, OwnPost, Ticking
<1>11. OwnLeases
  BY <1>4, <1>6, <1>8 DEF OwnLeases, Ticking, Idle
<1>12. PostsAreOwn
  BY <1>8 DEF PostsAreOwn
<1> QED
  BY <1>1, <1>7, <1>9, <1>10, <1>11, <1>12 DEF RuntimeInv

-----------------------------------------------------------------------------
(* Theorems.                                                               *)

\* RuntimeInv is inductive: it holds in every reachable state of the runtime,
\* its Host, a rival and the people who ask (PolicyRuntime, submission).
THEOREM RuntimeInvariance == Spec => []RuntimeInv
<1>1. Init => RuntimeInv
  BY InitRuntimeInv
<1>2. RuntimeInv /\ [Next]_vars => RuntimeInv'
  BY NextKeeps
<1> QED
  BY <1>1, <1>2, PTL DEF Spec

\* Types of the runtime's state and of its Host's.
THEOREM RuntimeTypes == Spec => []TypeOK
<1>1. RuntimeInv => TypeOK
  BY DEF RuntimeInv
<1> QED
  BY <1>1, RuntimeInvariance, PTL

\* Driven by this runtime and a rival, with requests repeated, a command acts
\* once, inputs land in the order of the leases and on the snapshot they were
\* decided on, and receipts tell the truth (executeBoundAction).
THEOREM PlayedOnce ==
  Spec => [](AtMostOnce /\ InputsInOrder /\ LandsWhereAimed /\ ReceiptsTrue)
<1>1. RuntimeInv => AtMostOnce /\ InputsInOrder /\ LandsWhereAimed /\ ReceiptsTrue
  BY DEF RuntimeInv, HostInv
<1> QED
  BY <1>1, RuntimeInvariance, PTL

\* What was sent was decided in the evidence first, and a clean seal has the
\* receipt of everything that was sent (AgentRunEvidence, stop).
THEOREM EvidenceIsComplete == Spec => []EvidenceComplete
<1>1. RuntimeInv => EvidenceComplete
  <2> SUFFICES ASSUME RuntimeInv PROVE EvidenceComplete
    OBVIOUS
  <2> QED
    BY Typed DEF RuntimeInv, OpenPosts, EvidenceComplete
<1> QED
  BY <1>1, RuntimeInvariance, PTL

\* A request for one step is worth one submission (completeOneStep).
THEOREM OneStepActsOnce == Spec => []OneStepOnce
<1>1. RuntimeInv => OneStepOnce
  BY DEF RuntimeInv, StepCredit, OneStepOnce
<1> QED
  BY <1>1, RuntimeInvariance, PTL

\* A run acts on the game of its first capabilities, also when the Host is
\* restarted (assertBoundGame).
THEOREM OneGameActs == Spec => []OneGame
<1>1. RuntimeInv => OneGame
  <2> SUFFICES ASSUME RuntimeInv, NEW i \in 1..Len(inputs),
                      inputs[i].cmd.req \in 1..MaxDecisions
               PROVE  inputs[i].cmd.lease.inst = rt.game
    BY DEF OneGame
  <2> QED
    BY DEF RuntimeInv, PostsAreOwn
<1> QED
  BY <1>1, RuntimeInvariance, PTL

\* The model never acts while it does not know what its last action did
\* (PolicyRuntime, taint).
THEOREM NeverBlind == Spec => NeverActsBlind
<1> DEFINE Blind == \A n \in 1..MaxDecisions :
                      ~OwnPost(n) /\ OwnPost(n)' =>
                        \A m \in 1..(n - 1) : OwnPost(m) => m \in ev.receipts
<1>1. ASSUME RuntimeInv, Next PROVE Blind
  <2>1. CASE rt.pc \in {"submit", "credentials"}
    <3>1. \A m \in 1..MaxDecisions : OwnPost(m) => m \in ev.receipts
      BY <1>1, <2>1, TickFacts DEF Ticking
    <3> QED
      BY <3>1
  <2>2. CASE posted' = posted
    BY <2>2 DEF OwnPost
  <2>3. CASE HostCalm
    BY <2>3, PostsSame
  <2>4. CASE Ask
    BY <2>2, <2>4 DEF Ask, AskHuman, AskStop, WorkerTick, UserTick, AskTick,
                      AskMode, asked, hostVars
  <2>5. CASE Running
    <3>1. CASE Submit \/ SubmitRenewed
      BY <2>1, <3>1 DEF Submit, SubmitRenewed, At
    <3>2. CASE Releasing \/ RegisterSession \/ AcquireControl
      BY <2>2, <3>2 DEF Releasing, RegisterSession, AcquireControl, Release,
                        Register, Acquire, game, hostVars
    <3>3. CASE ~(Submit \/ SubmitRenewed \/ Releasing \/ RegisterSession
                   \/ AcquireControl)
      BY <2>2, <2>5, <3>3 DEF Running, Start, Check, Record, Stop, Capabilities,
           Observe, Score, Reply, NoReply, Successor, hostVars
    <3> QED
      BY <3>1, <3>2, <3>3
  <2>6. CASE Returns \/ Timers
    BY <2>2, <2>6 DEF Returns, Timers, RenewReturns, AcquireReturns,
                      RenewalTimer, Renew, Acquire, game, hostVars
  <2>7. CASE Others
    BY <1>1, <2>3, <2>7, OthersCalm
  <2>8. CASE Host
    BY <1>1, <2>3, <2>8, HostCalms
  <2> QED
    BY <1>1, <2>4, <2>5, <2>6, <2>7, <2>8 DEF Next
<1>2. ASSUME UNCHANGED vars PROVE Blind
  BY <1>2 DEF vars, hostVars, OwnPost
<1>3. RuntimeInv /\ [Next]_vars => [Blind]_vars
  BY <1>1
<1> QED
  BY <1>3, RuntimeInvariance, PTL DEF Spec, NeverActsBlind

-----------------------------------------------------------------------------
(* A person takes over, and what is closed stays closed: ControlInv.       *)

\* The last request of a person stands, if a command got as far as r.
Fit(r) ==
  /\ r \in RuntimeType /\ r.epoch = rt.epoch
  /\ hist.handed /\ ~hist.legacy
       => r.stopReq \/ r.requested = "human" \/ r.mode = "human" \/ r.stopped

\* The session in use is open.
InUse(r) == r.held => ~sess'[r.opened].closed

SameHands == hist'.handed = hist.handed /\ hist'.legacy = hist.legacy

Control == HandOver /\ OpenInUse

LEMMA ChainTypes ==
  ASSUME RuntimeInv
  PROVE  /\ ops \in Seq(Op) /\ \A i \in 1..Len(ops) : ops[i] \in Op
         /\ ops # <<>> => op \in Op /\ op = ops[1] /\ 1 \in 1..Len(ops)
         /\ \A o \in Op : o.guard.epoch \in Nat /\ o.guard \in Guards
         /\ rt.epoch \in Nat
<1>1. ops \in Seq(Op) /\ rt.epoch \in Nat
  BY Typed DEF RuntimeType
<1> QED
  BY <1>1 DEF op, Op, Guards

LEMMA FitsNow ==
  ASSUME RuntimeInv, Control
  PROVE  Fit(rt) /\ (rt.pc # "releasing" => (rt.held => ~sess[rt.opened].closed))
BY Typed DEF Control, HandOver, OpenInUse, Fit, Overtaken

LEMMA GotoFits ==
  ASSUME RuntimeInv, Control, SameHands, NEW r, Fit(r),
         NEW pc \in Pausing \cup Ticking \cup {"checking"}, Goto(r, pc),
         pc \in Ticking => op.kind = "tick" /\ r.mode # "human",
         pc = "checking" => op.guard # NoGuard,
         pc = "releasing" /\ r.after = "end" /\ op.kind = "mode"
           => r.mode = "human",
         pc \in {"register", "acquire"} => ~r.held,
         pc # "releasing" => InUse(r),
         pc \in {"acquire", "submit", "credentials"} => ~sess'[r.opened].closed
  PROVE  Control' /\ rt'.pc = pc
<1>1. /\ r \in RuntimeType /\ rt' = [r EXCEPT !.pc = pc] /\ ops' = ops
  BY DEF Fit, Goto
<1>2. /\ rt'.pc = pc /\ rt'.epoch = r.epoch /\ rt'.stopReq = r.stopReq
      /\ rt'.requested = r.requested /\ rt'.mode = r.mode
      /\ rt'.stopped = r.stopped /\ rt'.held = r.held /\ rt'.after = r.after
      /\ rt'.opened = r.opened
  BY <1>1 DEF RuntimeType
<1>3. OpenInUse'
  BY <1>2 DEF OpenInUse, InUse
<1>4. HandOver'
  <2>1. op' = op /\ r.epoch = rt.epoch
    BY <1>1 DEF op, Fit
  <2> QED
    BY <1>1, <1>2, <2>1 DEF Control, HandOver, Overtaken, Fit, SameHands
<1> QED
  BY <1>2, <1>3, <1>4 DEF Control

LEMMA FinishFits ==
  ASSUME RuntimeInv, Control, SameHands, NEW r, Fit(r), ops # <<>>, Finish(r),
         op.kind = "mode" /\ op.mode = "human" => r.mode = "human" \/ r.stopped,
         InUse(r)
  PROVE  Control' /\ rt'.pc = "idle"
<1>1. r \in RuntimeType /\ r.epoch = rt.epoch
  BY DEF Fit
<1>2. /\ rt' \in RuntimeType /\ rt'.pc = "idle" /\ ops' \in Seq(Op)
      /\ SameRun(r) /\ rt'.held = r.held /\ rt'.mode = r.mode
  BY <1>1, Typed, FinishIs
<1>3. /\ rt'.epoch = r.epoch /\ rt'.stopReq = r.stopReq
      /\ \/ rt'.requested = r.requested
         \/ op.kind = "mode" /\ op.mode = r.requested
      /\ ops' = Tail(ops)
  BY <1>1 DEF Finish, RuntimeType
<1>4. \A i \in 1..Len(ops') : i + 1 \in 1..Len(ops) /\ ops'[i] = ops[i + 1]
  BY <1>3, Typed
<1>5. OpenInUse'
  BY <1>2 DEF OpenInUse, InUse, SameRun
<1>6. ASSUME hist'.handed, ~hist'.legacy PROVE Overtaken'
  <2>1. Overtaken /\ hist.handed /\ ~hist.legacy
    BY <1>6 DEF Control, HandOver, SameHands
  <2>2. rt'.stopReq \/ rt'.requested = "human" \/ rt'.mode = "human"
        \/ rt'.stopped
    BY <1>2, <1>3, <2>1 DEF Fit, SameRun
  <2> QED
    BY <1>1, <1>3, <1>4, <2>1, <2>2 DEF Overtaken
<1>7. HandOver'
  BY <1>1, <1>2, <1>3, <1>4, <1>6 DEF Control, HandOver, Ticking
<1> QED
  BY <1>2, <1>5, <1>7 DEF Control

LEMMA ResumeFits ==
  ASSUME RuntimeInv, Control, SameHands, NEW r, Fit(r), ops # <<>>,
         NEW after \in {"end", "human", "stop", "mode"}, Resume(r, after),
         after = "mode" => op.kind = "mode",
         after = "end" => op.kind # "mode" \/ r.mode = "human",
         InUse(r)
  PROVE  Control' /\ rt'.pc \in Pausing
<1>1. r \in RuntimeType /\ op \in Op /\ op = ops[1] /\ 1 \in 1..Len(ops)
      /\ op.guard.epoch \in Nat /\ rt.epoch \in Nat
  BY ChainTypes DEF Fit
<1>2. CASE after = "end"
  BY <1>2, FinishFits DEF Resume, Pausing
<1>3. CASE after = "human"
  <2> DEFINE q == [r EXCEPT !.mode = "human"]
  <2>1. Finish(q)
    BY <1>3 DEF Resume
  <2>2. /\ q \in RuntimeType /\ q.mode = "human" /\ q.epoch = r.epoch
        /\ q.held = r.held /\ q.opened = r.opened
    BY <1>1 DEF RuntimeType, Modes
  <2> HIDE DEF q
  <2>3. Fit(q) /\ InUse(q)
    BY <2>2 DEF Fit, InUse
  <2> QED
    BY <2>1, <2>2, <2>3, FinishFits DEF Pausing
<1>4. CASE after = "stop"
  <2>1. Goto(r, "stopping")
    BY <1>4 DEF Resume
  <2> QED
    BY <2>1, GotoFits DEF Pausing, Ticking
<1>5. CASE after = "mode"
  <2>1. CASE op.mode # "human" /\ ~Fresh(op.guard)
    <3>1. Finish(r)
      BY <1>5, <2>1 DEF Resume
    <3> QED
      BY <2>1, <3>1, FinishFits DEF Pausing
  <2>2. CASE op.mode = "human" \/ Fresh(op.guard)
    <3> DEFINE q == [r EXCEPT !.mode = op.mode]
    <3>1. Goto(q, "recording")
      BY <1>5, <2>2 DEF Resume
    <3>2. op.mode \in Modes
      BY <1>1, <1>5 DEF Op
    <3>3. /\ q \in RuntimeType /\ q.mode = op.mode /\ q.epoch = r.epoch
          /\ q.held = r.held /\ q.opened = r.opened
      BY <1>1, <3>2 DEF RuntimeType
    <3> HIDE DEF q
    <3>4. hist.handed /\ ~hist.legacy => op.mode = "human"
      <4> SUFFICES ASSUME hist.handed, ~hist.legacy, op.mode # "human"
                   PROVE  FALSE
        OBVIOUS
      <4>1. op.guard # NoGuard /\ op.guard.epoch < rt.epoch
        BY <1>1, <1>5 DEF Control, HandOver, Overtaken
      <4>2. op.guard.epoch = rt.epoch
        BY <2>2, <4>1 DEF Fresh
      <4> QED
        BY <1>1, <4>1, <4>2
    <3>5. Fit(q) /\ InUse(q)
      BY <3>3, <3>4 DEF Fit, InUse
    <3> QED
      BY <3>1, <3>5, GotoFits DEF Pausing, Ticking
  <2> QED
    BY <2>1, <2>2
<1> QED
  BY <1>2, <1>3, <1>4, <1>5

LEMMA GiveUpFits ==
  ASSUME RuntimeInv, Control, SameHands, NEW r, Fit(r), ops # <<>>,
         NEW after \in {"end", "human", "stop", "mode"}, GiveUp(r, after),
         r.held => r.opened \in 1..MaxOwn,
         after = "mode" => op.kind = "mode",
         after = "end" => op.kind # "mode" \/ r.mode = "human"
  PROVE  Control' /\ rt'.pc \in Pausing
<1>1. CASE r.held
  <2> DEFINE g == sess[r.opened].lease
             q == [r EXCEPT !.after = after, !.giving = g]
  <2>1. Goto(q, "releasing")
    BY <1>1 DEF GiveUp
  <2>2. g \in Lease \cup {NoLease} /\ r \in RuntimeType
    BY <1>1, Typed DEF Session, Fit
  <2> HIDE DEF g
  <2>3. /\ q \in RuntimeType /\ q.mode = r.mode /\ q.epoch = r.epoch
        /\ q.after = after /\ q.stopReq = r.stopReq /\ q.stopped = r.stopped
        /\ q.requested = r.requested
    BY <2>2 DEF RuntimeType
  <2> HIDE DEF q
  <2>4. Fit(q)
    BY <2>3 DEF Fit
  <2> QED
    BY <2>1, <2>3, <2>4, GotoFits DEF Pausing, Ticking
<1>2. CASE ~r.held
  <2>1. Resume(r, after)
    BY <1>2 DEF GiveUp
  <2> QED
    BY <1>2, <2>1, ResumeFits DEF InUse, Pausing
<1> QED
  BY <1>1, <1>2

\* A command fails closed, tainting the run or not.
LEMMA FailClosedFits ==
  ASSUME RuntimeInv, Control, SameHands, ops # <<>>, FailClosed(rt) \/ Taint(rt)
  PROVE  Control' /\ rt'.pc \in Pausing
<1>1. PICK t \in {rt.tainted, TRUE} :
        GiveUp([[rt EXCEPT !.tainted = t] EXCEPT !.mode = "human"], "end")
  <2>1. CASE FailClosed(rt)
    <3>1. [rt EXCEPT !.tainted = rt.tainted] = rt
      BY Typed DEF RuntimeType
    <3> QED
      BY <2>1, <3>1 DEF FailClosed
  <2>2. CASE Taint(rt)
    BY <2>2 DEF Taint, FailClosed
  <2> QED
    BY <2>1, <2>2
<1> DEFINE r == [[rt EXCEPT !.tainted = t] EXCEPT !.mode = "human"]
<1>2. t \in BOOLEAN
  BY Typed DEF RuntimeType
<1>3. /\ r \in RuntimeType /\ r.mode = "human" /\ r.epoch = rt.epoch
      /\ r.held = rt.held /\ r.opened = rt.opened
  BY <1>2, Typed DEF RuntimeType, Modes
<1>4. GiveUp(r, "end")
  BY <1>1
<1> HIDE DEF r
<1>5. Fit(r) /\ (r.held => r.opened \in 1..MaxOwn)
  BY <1>3, Typed DEF Fit
<1> QED
  BY <1>3, <1>4, <1>5, GiveUpFits

LEMMA BeginFits ==
  ASSUME RuntimeInv, Control, SameHands, ops # <<>>, Begin(rt),
         rt.pc \in {"idle", "checking"}, Fresh(op.guard)
  PROVE  Control' /\ rt'.pc \in Pausing \cup {"capabilities"}
<1>1. op \in Op /\ op = ops[1] /\ 1 \in 1..Len(ops) /\ rt \in RuntimeType
      /\ op.guard.epoch \in Nat /\ rt.epoch \in Nat
  BY ChainTypes, Typed
<1>2. /\ Fit(rt) /\ (rt.held => ~sess[rt.opened].closed)
      /\ (rt.held => rt.opened \in 1..MaxOwn)
  BY FitsNow, Typed
<1>3. CASE op.kind = "stop"
  <2>1. CASE Finish(rt) /\ UNCHANGED sess
    BY <1>2, <1>3, <2>1, FinishFits DEF InUse, Pausing
  <2>2. CASE GiveUp(rt, "stop")
    BY <1>2, <2>2, GiveUpFits
  <2> QED
    BY <1>3, <2>1, <2>2 DEF Begin, BeginStop
<1>4. CASE op.kind = "tick"
  <2>1. sess' = sess /\ InUse(rt)
    BY <1>2, <1>4 DEF Begin, BeginTick, InUse
  <2>2. CASE Finish(rt)
    BY <1>2, <1>4, <2>1, <2>2, FinishFits DEF Pausing
  <2>3. CASE Goto(rt, "capabilities") /\ rt.mode # "human"
    BY <1>2, <1>4, <2>1, <2>3, GotoFits DEF Ticking, Pausing
  <2> QED
    BY <1>4, <2>2, <2>3 DEF Begin, BeginTick
<1>5. CASE op.kind = "mode"
  <2> DEFINE q == IF op.mode = "human" THEN rt
                  ELSE [rt EXCEPT !.requested = op.mode]
  <2>1. BeginMode(q)
    BY <1>5 DEF Begin
  <2>2. op.mode \in Modes
    BY <1>1, <1>5 DEF Op
  <2>3. /\ q \in RuntimeType /\ q.epoch = rt.epoch /\ q.held = rt.held
        /\ q.opened = rt.opened /\ q.mode = rt.mode /\ q.stopped = rt.stopped
        /\ q.stopReq = rt.stopReq /\ q.tainted = rt.tainted
        /\ op.mode = "human" => q = rt
    BY <1>1, <2>2 DEF RuntimeType
  <2> HIDE DEF q
  <2>4. hist.handed /\ ~hist.legacy => op.mode = "human"
    <3> SUFFICES ASSUME hist.handed, ~hist.legacy, op.mode # "human"
                 PROVE  FALSE
      OBVIOUS
    <3>1. op.guard # NoGuard /\ op.guard.epoch < rt.epoch
      BY <1>1, <1>5 DEF Control, HandOver, Overtaken
    <3> QED
      BY <1>1, <3>1 DEF Fresh
  <2>5. Fit(q) /\ (q.held => q.opened \in 1..MaxOwn)
    BY <1>2, <2>3, <2>4 DEF Fit
  <2>6. UNCHANGED sess => InUse(q)
    BY <1>2, <2>3 DEF InUse
  <2>7. CASE Refused(q) /\ Finish(q) /\ UNCHANGED sess
    BY <2>5, <2>6, <2>7, FinishFits DEF Refused, Pausing
  <2>8. CASE Resume(q, "mode") /\ UNCHANGED sess
    BY <1>5, <2>5, <2>6, <2>8, ResumeFits DEF Pausing
  <2>9. CASE GiveUp(q, "mode")
    BY <1>5, <2>5, <2>9, GiveUpFits
  <2> QED
    BY <2>1, <2>7, <2>8, <2>9 DEF BeginMode
<1> QED
  BY <1>1, <1>3, <1>4, <1>5 DEF Op

LEMMA StopControl ==
  ASSUME RuntimeInv, Control, Stop
  PROVE  Control' /\ rt'.pc = "idle"
<1>1. /\ ops # <<>> /\ rt.pc = "stopping"
      /\ UNCHANGED <<hostVars, sess, hist>>
  BY DEF Stop, At
<1>2. /\ Fit(rt) /\ (rt.held => ~sess[rt.opened].closed) /\ rt \in RuntimeType
  BY <1>1, FitsNow, Typed
<1>3. PICK written \in BOOLEAN, sealed \in BOOLEAN :
        LET r == [rt EXCEPT !.mode = "human", !.stopped = TRUE,
                            !.tainted = @ \/ ~written] IN
        /\ Finish(r)
        /\ ev' = [ev EXCEPT !.sealed = IF ~sealed THEN @
                                       ELSE IF r.tainted THEN "tainted"
                                                         ELSE "clean"]
  BY DEF Stop
<1> DEFINE t == rt.tainted \/ ~written
           r == [rt EXCEPT !.mode = "human", !.stopped = TRUE, !.tainted = t]
<1>4. Finish(r) /\ t \in BOOLEAN
  BY <1>2, <1>3 DEF RuntimeType
<1> HIDE DEF t
<1>5. /\ r \in RuntimeType /\ r.mode = "human" /\ r.epoch = rt.epoch
      /\ r.held = rt.held /\ r.opened = rt.opened
  BY <1>2, <1>4 DEF RuntimeType, Modes
<1> HIDE DEF r
<1>6. SameHands /\ Fit(r) /\ InUse(r)
  BY <1>1, <1>2, <1>5 DEF Fit, InUse, SameHands
<1> QED
  BY <1>1, <1>4, <1>5, <1>6, FinishFits DEF Pausing

LEMMA CommandsControl ==
  ASSUME RuntimeInv, Control, Start \/ Check \/ Record \/ Stop \/ Releasing
  PROVE  Control' /\ rt'.pc # "submit"
<1>a. ops # <<>>
  BY DEF Start, Check, Record, Stop, Releasing, At
<1>1. /\ ops # <<>> /\ rt \in RuntimeType /\ op = ops[1] /\ 1 \in 1..Len(ops)
      /\ Fit(rt) /\ (rt.pc # "releasing" => (rt.held => ~sess[rt.opened].closed))
  BY <1>a, ChainTypes, FitsNow, Typed
<1>2. op.guard # NoGuard => op.mode # "human"
  BY <1>1 DEF Control, HandOver
<1>3. CASE Start \/ Check
  <2>1. SameHands /\ rt.pc \in {"idle", "checking"}
    BY <1>3 DEF Start, Check, At, SameHands
  <2>2. CASE Begin(rt) /\ Fresh(op.guard)
    BY <1>1, <2>1, <2>2, BeginFits DEF Pausing
  <2>3. CASE Finish(rt) /\ UNCHANGED sess /\ op.guard # NoGuard
    BY <1>1, <1>2, <2>1, <2>3, FinishFits DEF InUse, Pausing
  <2>4. CASE Goto(rt, "checking") /\ UNCHANGED sess /\ op.guard # NoGuard
    BY <1>1, <2>1, <2>4, GotoFits DEF InUse, Ticking, Pausing
  <2>5. rt.pc = "checking" => op.guard # NoGuard
    BY DEF Control, HandOver
  <2> QED
    BY <1>3, <2>2, <2>3, <2>4, <2>5 DEF Start, Check, Fresh, At
<1>4. CASE Record
  <2>1. rt.pc = "recording" /\ rt.mode = op.mode /\ SameHands
    <3>1. rt.pc = "recording" /\ rt.mode = op.mode
      BY <1>4 DEF Record, At, RuntimeInv, Chain
    <3>2. SameHands
      BY <1>4 DEF Record, SameHands, RuntimeInv, TypeOK
    <3> QED
      BY <3>1, <3>2
  <2>2. CASE Finish(rt) /\ UNCHANGED sess
    BY <1>1, <2>1, <2>2, FinishFits DEF InUse, Pausing
  <2>3. CASE FailClosed(rt)
    BY <1>1, <2>1, <2>3, FailClosedFits DEF Pausing
  <2> QED
    BY <1>4, <2>2, <2>3 DEF Record
<1>5. CASE Stop
  BY <1>5, StopControl
<1>6. CASE Releasing
  <2> DEFINE r == [rt EXCEPT !.held = FALSE, !.giving = NoLease]
  <2>1. Resume(r, rt.after) /\ SameHands /\ rt.pc = "releasing"
    BY <1>6 DEF Releasing, At, SameHands
  <2>2. /\ r \in RuntimeType /\ r.mode = rt.mode /\ r.epoch = rt.epoch
        /\ r.held = FALSE /\ r.requested = rt.requested
        /\ r.stopReq = rt.stopReq /\ r.stopped = rt.stopped
        /\ rt.after \in {"end", "human", "stop", "mode"}
    BY <1>1 DEF RuntimeType
  <2> HIDE DEF r
  <2>3. Fit(r) /\ InUse(r)
    BY <1>1, <2>2 DEF Fit, InUse
  <2>4. rt.after = "mode" => op.kind = "mode"
    BY <2>1 DEF RuntimeInv, Chain
  <2>5. rt.after = "end" => op.kind # "mode" \/ r.mode = "human"
    BY <2>1, <2>2 DEF Control, HandOver
  <2> QED
    BY <1>1, <2>1, <2>2, <2>3, <2>4, <2>5, ResumeFits DEF Pausing
<1> QED
  BY <1>3, <1>4, <1>5, <1>6

\* A tick that goes on, ends or gives up.
LEMMA TickFits ==
  ASSUME RuntimeInv, Control, rt.pc \in Ticking
  PROVE  /\ Fit(rt) /\ (rt.held => ~sess[rt.opened].closed)
         /\ (rt.held => rt.opened \in 1..MaxOwn)
         /\ op.kind = "tick" /\ rt.mode # "human" /\ ~rt.stopped
         /\ hist.handed /\ ~hist.legacy => Cancelled
<1>1. Fit(rt) /\ (rt.held => ~sess[rt.opened].closed)
  BY FitsNow DEF Ticking
<1>2. op.kind = "tick" /\ rt.mode # "human" /\ ~rt.stopped
  BY TickFacts DEF Control, HandOver
<1> QED
  BY <1>1, <1>2, Typed DEF Fit, Cancelled

LEMMA TicksControl ==
  ASSUME RuntimeInv, Control,
         Capabilities \/ Observe \/ Score \/ Reply \/ NoReply \/ Successor
  PROVE  Control' /\ (rt'.pc = "submit" => ~Cancelled)
<1>1. /\ ops # <<>> /\ rt \in RuntimeType /\ SameHands
      /\ rt.pc \in {"capabilities", "observe", "score", "reply", "successor"}
  BY Typed DEF Capabilities, Observe, Score, Reply, NoReply, Successor, At,
               SameHands
<1>2. /\ Fit(rt) /\ (rt.held => ~sess[rt.opened].closed)
      /\ (rt.held => rt.opened \in 1..MaxOwn)
      /\ op.kind = "tick" /\ rt.mode # "human"
  BY <1>1, TickFits DEF Ticking
<1>3. CASE FailClosed(rt) \/ Taint(rt)
  BY <1>1, <1>3, FailClosedFits DEF Pausing
<1>4. CASE GiveUp(rt, "human")
  BY <1>1, <1>2, <1>4, GiveUpFits DEF Pausing
<1>5. CASE Finish(rt) /\ UNCHANGED sess
  BY <1>1, <1>2, <1>5, FinishFits DEF InUse
<1>6. ASSUME NEW g \in Nat, Goto([rt EXCEPT !.game = g], "observe"), UNCHANGED sess
      PROVE  Control' /\ rt'.pc # "submit"
  <2> DEFINE r == [rt EXCEPT !.game = g]
  <2>1. /\ r \in RuntimeType /\ r.mode = rt.mode /\ r.epoch = rt.epoch
        /\ r.held = rt.held /\ r.requested = rt.requested
        /\ r.stopReq = rt.stopReq /\ r.stopped = rt.stopped
        /\ r.opened = rt.opened
    BY <1>1, <1>6 DEF RuntimeType
  <2>2. Goto(r, "observe")
    BY <1>6
  <2> HIDE DEF r
  <2>3. Fit(r) /\ InUse(r)
    BY <1>2, <1>6, <2>1 DEF Fit, InUse
  <2> QED
    BY <1>1, <1>2, <2>1, <2>2, <2>3, GotoFits DEF Ticking
<1>7. ASSUME NEW s \in Nat, Goto([rt EXCEPT !.aim = s], "score"), UNCHANGED sess
      PROVE  Control' /\ rt'.pc # "submit"
  <2> DEFINE r == [rt EXCEPT !.aim = s]
  <2>1. /\ r \in RuntimeType /\ r.mode = rt.mode /\ r.epoch = rt.epoch
        /\ r.held = rt.held /\ r.requested = rt.requested
        /\ r.stopReq = rt.stopReq /\ r.stopped = rt.stopped
        /\ r.opened = rt.opened
    BY <1>1, <1>7 DEF RuntimeType
  <2>2. Goto(r, "score")
    BY <1>7
  <2> HIDE DEF r
  <2>3. Fit(r) /\ InUse(r)
    BY <1>2, <1>7, <2>1 DEF Fit, InUse
  <2> QED
    BY <1>1, <1>2, <2>1, <2>2, <2>3, GotoFits DEF Ticking
<1>8. CASE Goto(rt, "successor") /\ UNCHANGED sess
  BY <1>1, <1>2, <1>8, GotoFits DEF Ticking, InUse
<1>9. CASE Capabilities
  <2>2. (IF rt.game = 0 THEN host.inst ELSE rt.game) \in Nat
    BY <1>1 DEF RuntimeInv, HostInv, HostTypeOK, RuntimeType
  <2> QED
    BY <1>3, <1>6, <1>9, <2>2 DEF Capabilities
<1>10. CASE Observe
  <2>1. snap \in Nat
    BY DEF RuntimeInv, HostInv, HostTypeOK
  <2> QED
    BY <1>3, <1>4, <1>5, <1>7, <1>10, <2>1 DEF Observe
<1>11. ASSUME Score, rt.decided < hist.scene.decisions, UNCHANGED sess,
              LET r == [rt EXCEPT !.decided = @ + 1] IN
                IF Cancelled THEN Finish(r)
                ELSE Goto(r, IF rt.held THEN "submit" ELSE "register")
       PROVE  Control' /\ (rt'.pc = "submit" => ~Cancelled)
  <2> DEFINE n == rt.decided + 1
             r == [rt EXCEPT !.decided = n]
  <2>1. n \in 0..MaxDecisions
    <3>1. hist.scene.decisions \in 0..MaxDecisions
      BY DEF RuntimeInv, TypeOK
    <3> QED
      BY <1>11, <3>1, Typed
  <2>2. IF Cancelled THEN Finish(r)
        ELSE Goto(r, IF rt.held THEN "submit" ELSE "register")
    BY <1>11
  <2> HIDE DEF n
  <2>3. /\ r \in RuntimeType /\ r.mode = rt.mode /\ r.epoch = rt.epoch
        /\ r.held = rt.held /\ r.requested = rt.requested
        /\ r.stopReq = rt.stopReq /\ r.stopped = rt.stopped
        /\ r.opened = rt.opened
    BY <1>1, <2>1 DEF RuntimeType
  <2> HIDE DEF r
  <2>4. Fit(r) /\ InUse(r)
    BY <1>2, <1>11, <2>3 DEF Fit, InUse
  <2>5. CASE Cancelled
    BY <1>1, <1>2, <2>2, <2>3, <2>4, <2>5, FinishFits
  <2>6. CASE ~Cancelled /\ rt.held
    <3>1. Goto(r, "submit") /\ ~sess'[r.opened].closed
      BY <1>2, <1>11, <2>2, <2>3, <2>6
    <3> QED
      BY <1>1, <1>2, <2>3, <2>4, <2>6, <3>1, GotoFits DEF Ticking
  <2>7. CASE ~Cancelled /\ ~rt.held
    BY <1>1, <1>2, <2>2, <2>3, <2>4, <2>7, GotoFits DEF Ticking
  <2> QED
    BY <2>5, <2>6, <2>7
<1>12. CASE Score
  BY <1>3, <1>4, <1>5, <1>11, <1>12 DEF Score
<1>13. CASE Reply
  <2>1. receipt[rt.decided] # "none" => receipt[rt.decided]
                                    \in {"delivered", "unknown", "not_delivered"}
    <3>1. rt.decided \in Requests
      BY <1>13 DEF Reply, At, RuntimeInv, OpenPosts
    <3> QED
      BY <3>1 DEF RuntimeInv, HostInv, HostTypeOK, Delivery
  <2> QED
    BY <1>3, <1>4, <1>8, <1>13, <2>1 DEF Reply
<1>14. CASE NoReply \/ Successor
  BY <1>3, <1>4, <1>5, <1>14 DEF NoReply, Successor
<1> QED
  BY <1>9, <1>10, <1>12, <1>13, <1>14

LEMMA RegisterControl ==
  ASSUME RuntimeInv, Control, RegisterSession
  PROVE  Control' /\ rt'.pc # "submit"
<1> DEFINE k == rt.opened + 1
<1>1. ops # <<>> /\ rt.pc = "register" /\ SameHands /\ rt \in RuntimeType
  BY Typed DEF RegisterSession, At, SameHands
<1>2. /\ Fit(rt) /\ op.kind = "tick" /\ rt.mode # "human" /\ ~rt.held
  BY <1>1, TickFits DEF Ticking, Control, OpenInUse
<1>3. CASE FailClosed(rt)
  BY <1>1, <1>3, FailClosedFits DEF Pausing
<1>4. CASE k <= MaxOwn /\ Goto([rt EXCEPT !.opened = k], "acquire") /\ UNCHANGED sess
  <2> DEFINE r == [rt EXCEPT !.opened = k]
  <2>1. k \in 1..MaxOwn /\ k > rt.opened /\ k \in 0..MaxOwn
    BY <1>4, Typed
  <2>2. ~sess'[k].closed
    BY <1>4, <2>1 DEF RuntimeInv, OwnLeases, Idle
  <2>3. Goto(r, "acquire")
    BY <1>4
  <2> HIDE DEF k
  <2>4. /\ r \in RuntimeType /\ r.mode = rt.mode /\ r.epoch = rt.epoch
        /\ r.held = rt.held /\ r.requested = rt.requested
        /\ r.stopReq = rt.stopReq /\ r.stopped = rt.stopped /\ r.opened = k
    BY <1>1, <2>1 DEF RuntimeType
  <2> HIDE DEF r
  <2>5. Fit(r) /\ InUse(r)
    BY <1>2, <2>4 DEF Fit, InUse
  <2> QED
    BY <1>1, <1>2, <2>2, <2>3, <2>4, <2>5, GotoFits DEF Ticking
<1> QED
  BY <1>3, <1>4 DEF RegisterSession

LEMMA AcquireControlControl ==
  ASSUME RuntimeInv, Control, AcquireControl
  PROVE  Control' /\ (rt'.pc = "submit" => ~Cancelled)
<1> DEFINE k == rt.opened
<1>1. ops # <<>> /\ rt.pc = "acquire" /\ SameHands /\ rt \in RuntimeType
  BY Typed DEF AcquireControl, At, SameHands
<1>2. /\ Fit(rt) /\ op.kind = "tick" /\ rt.mode # "human" /\ ~rt.held
      /\ ~sess[k].closed /\ k \in 1..MaxOwn
  BY <1>1, TickFits, Typed DEF Ticking, Control, OpenInUse, RuntimeInv, OwnLeases
<1>3. sess[k] \in Session
  BY <1>2, Typed
<1>4. Acquire(k) => NextLease(k) \in Lease
  BY <1>2, AcquireCalm
<1> DEFINE l == NextLease(k)
<1>6. CASE /\ Acquire(k) /\ ~Cancelled /\ Goto([rt EXCEPT !.held = TRUE], "submit")
           /\ sess' = [sess EXCEPT ![k].lease = l]
  <2> DEFINE r == [rt EXCEPT !.held = TRUE]
  <2>1. Goto(r, "submit") /\ sess' = [sess EXCEPT ![k].lease = l]
    BY <1>6
  <2> HIDE DEF l
  <2>2. /\ r \in RuntimeType /\ r.mode = rt.mode /\ r.epoch = rt.epoch
        /\ r.requested = rt.requested /\ r.opened = k
        /\ r.stopReq = rt.stopReq /\ r.stopped = rt.stopped
    BY <1>1 DEF RuntimeType
  <2> HIDE DEF r, k
  <2>3. ~sess'[k].closed
    BY <1>2, <1>3, <2>1, Typed DEF Session
  <2>4. Fit(r) /\ InUse(r)
    BY <1>2, <2>2, <2>3 DEF Fit, InUse
  <2>5. Control'
    BY <1>1, <1>2, <2>1, <2>2, <2>3, <2>4, GotoFits DEF Ticking
  <2> QED
    BY <1>6, <2>5
<1>7. ASSUME NEW m \in {rt.mode, "human"}, Acquire(k),
             Goto([[rt EXCEPT !.held = TRUE] EXCEPT !.mode = m, !.after = "end",
                             !.giving = l], "releasing")
      PROVE  Control' /\ rt'.pc = "releasing"
  <2> DEFINE r == [[rt EXCEPT !.held = TRUE] EXCEPT !.mode = m, !.after = "end",
                             !.giving = l]
  <2>1. Goto(r, "releasing") /\ l \in Lease
    BY <1>4, <1>7
  <2> HIDE DEF l
  <2>2. /\ r \in RuntimeType /\ r.mode = m /\ r.epoch = rt.epoch
        /\ r.requested = rt.requested /\ r.opened = k
        /\ r.stopReq = rt.stopReq /\ r.stopped = rt.stopped
    BY <1>1, <2>1 DEF RuntimeType, Modes
  <2> HIDE DEF r, k
  <2>3. Fit(r)
    BY <1>2, <2>2 DEF Fit
  <2> QED
    BY <1>1, <1>2, <2>1, <2>2, <2>3, GotoFits DEF Ticking, Pausing
<1>8. CASE Finish([rt EXCEPT !.mode = "human"])
  <2> DEFINE r == [rt EXCEPT !.mode = "human"]
  <2>1. Finish(r)
    BY <1>8
  <2>2. /\ r \in RuntimeType /\ r.mode = "human" /\ r.epoch = rt.epoch
        /\ r.held = rt.held
    BY <1>1 DEF RuntimeType, Modes
  <2> HIDE DEF r
  <2>3. Fit(r) /\ InUse(r)
    BY <1>2, <2>2 DEF Fit, InUse
  <2> QED
    BY <1>1, <1>2, <2>1, <2>2, <2>3, FinishFits
<1> QED
  BY <1>6, <1>7, <1>8 DEF AcquireControl

LEMMA SubmitControl ==
  ASSUME RuntimeInv, Control, Submit \/ SubmitRenewed
  PROVE  Control' /\ (rt.pc # "submit" => rt'.pc # "submit")
<1> DEFINE k == rt.opened
<1>1. ops # <<>> /\ rt.pc \in {"submit", "credentials"} /\ rt \in RuntimeType
  BY Typed DEF Submit, SubmitRenewed, At
<1>2. /\ Fit(rt) /\ op.kind = "tick" /\ rt.mode # "human"
      /\ ~sess[k].closed /\ k \in 1..MaxOwn /\ own = k
  BY <1>1, TickFits, Typed DEF Ticking, Control, OpenInUse, RuntimeInv, OwnLeases, own
<1>3. sess[k] \in Session
  BY <1>2, Typed
<1>4. CASE Send
  <2>1. SameHands /\ UNCHANGED sess /\ Goto(rt, "reply")
    BY <1>4 DEF Send, SameHands, RuntimeInv, TypeOK
  <2> QED
    BY <1>1, <1>2, <2>1, GotoFits DEF Ticking, InUse
<1>5. ASSUME NEW c \in {"renew", "acquire"}, Goto(rt, "credentials"), UNCHANGED hist,
             sess' = [sess EXCEPT ![k].call = c]
      PROVE  Control' /\ rt'.pc = "credentials"
  <2> HIDE DEF k
  <2>1. ~sess'[k].closed
    BY <1>2, <1>3, <1>5, Typed DEF Session
  <2>2. SameHands /\ InUse(rt) /\ ~sess'[rt.opened].closed
    BY <1>5, <2>1 DEF SameHands, InUse, k
  <2> QED
    BY <1>1, <1>2, <1>5, <2>1, <2>2, GotoFits DEF Ticking
<1>6. CASE Taint(rt) /\ UNCHANGED hist
  BY <1>1, <1>6, FailClosedFits DEF Pausing, SameHands
<1> QED
  BY <1>2, <1>4, <1>5, <1>6 DEF Submit, SubmitRenewed

\* Sessions, rivals and the Host close no session and hand nothing over.
LEMMA AsideControl ==
  ASSUME RuntimeInv, Control, UNCHANGED <<rt, ops, hist>>,
         \A j \in 1..MaxOwn : sess'[j].closed = sess[j].closed
  PROVE  Control'
<1>1. OpenInUse'
  <2>1. rt.held \/ rt.pc \in {"acquire", "submit", "credentials"}
          => rt.opened \in 1..MaxOwn
    BY Typed DEF RuntimeInv, OwnLeases
  <2> QED
    BY <2>1 DEF Control, OpenInUse
<1>2. HandOver'
  BY DEF Control, HandOver, Overtaken, op
<1> QED
  BY <1>1, <1>2 DEF Control

\* A call of session k ends or goes on, and its lease changes.
LEMMA TwoEdits ==
  ASSUME RuntimeInv, NEW k \in 1..MaxOwn, NEW l,
         NEW c \in {"none", "renew", "acquire"},
         sess' = [sess EXCEPT ![k].call = c, ![k].lease = l]
  PROVE  /\ \A j \in 1..MaxOwn : sess'[j].closed = sess[j].closed
         /\ \A j \in 1..MaxOwn : j # k => sess'[j] = sess[j]
<1> DEFINE a == [sess EXCEPT ![k].call = c]
<1>1. sess[k] \in Session
  BY Typed
<1>2. /\ a \in [1..MaxOwn -> Session] /\ a[k].closed = sess[k].closed
      /\ \A j \in 1..MaxOwn : j # k => a[j] = sess[j]
  BY <1>1, Typed DEF Session
<1>3. sess' = [a EXCEPT ![k].lease = l]
  OBVIOUS
<1> HIDE DEF a
<1>4. /\ sess'[k].closed = a[k].closed
      /\ \A j \in 1..MaxOwn : j # k => sess'[j] = a[j]
  BY <1>2, <1>3 DEF Session
<1> QED
  BY <1>2, <1>4

LEMMA ClosedKept ==
  ASSUME RuntimeInv, Returns \/ Timers
  PROVE  \A j \in 1..MaxOwn : sess'[j].closed = sess[j].closed
<1>1. ASSUME NEW k \in 1..MaxOwn,
             RenewReturns(k) \/ AcquireReturns(k) \/ RenewalTimer(k)
      PROVE  \A j \in 1..MaxOwn : sess'[j].closed = sess[j].closed
  <2>1. sess[k] \in Session
    BY Typed
  <2>2. CASE RenewalTimer(k)
    BY <2>1, <2>2, Typed DEF RenewalTimer, Session
  <2>3. CASE RenewReturns(k)
    <3>1. \/ sess' = [sess EXCEPT ![k].call = "acquire", ![k].lease = NoLease]
          \/ sess' = [sess EXCEPT ![k].call = "none"]
      BY <2>3 DEF RenewReturns
    <3>2. CASE sess' = [sess EXCEPT ![k].call = "none"]
      BY <2>1, <3>2, Typed DEF Session
    <3> QED
      BY <3>1, <3>2, TwoEdits
  <2>4. CASE AcquireReturns(k)
    <3> DEFINE l == NextLease(k)
    <3>1. \/ sess' = [sess EXCEPT ![k].call = "none", ![k].lease = l]
          \/ sess' = [sess EXCEPT ![k].call = "none"]
      BY <2>4 DEF AcquireReturns
    <3> HIDE DEF l
    <3>2. CASE sess' = [sess EXCEPT ![k].call = "none"]
      BY <2>1, <3>2, Typed DEF Session
    <3> QED
      BY <3>1, <3>2, TwoEdits
  <2> QED
    BY <1>1, <2>2, <2>3, <2>4
<1> QED
  BY <1>1 DEF Returns, Timers

LEMMA AsidesControl ==
  ASSUME RuntimeInv, Control,
         Returns \/ Timers \/ Others \/ Host \/ UNCHANGED vars
  PROVE  Control' /\ rt' = rt
<1>1. UNCHANGED <<rt, ops, hist>>
  BY DEF Returns, Timers, RenewReturns, AcquireReturns, RenewalTimer, besides,
         Others, Host, runtime, vars
<1>2. CASE Returns \/ Timers
  BY <1>1, <1>2, ClosedKept, AsideControl
<1>3. CASE Others \/ Host \/ UNCHANGED vars
  <2>1. sess' = sess
    BY <1>3 DEF Others, Host, runtime, vars
  <2> QED
    BY <1>1, <2>1, AsideControl
<1> QED
  BY <1>2, <1>3

\* A command joins the chain.
LEMMA JoinControl ==
  ASSUME RuntimeInv, Control, NEW o \in Op, Enqueue(o), sess' = sess,
         rt' \in RuntimeType, rt'.pc = rt.pc, rt'.mode = rt.mode,
         rt'.held = rt.held, rt'.after = rt.after, rt'.opened = rt.opened,
         rt'.epoch >= rt.epoch, o.guard.epoch <= rt'.epoch,
         o.mode = "human" => o.guard = NoGuard,
         hist'.handed /\ ~hist'.legacy => Overtaken'
  PROVE  Control'
<1>1. OpenInUse'
  BY DEF Control, OpenInUse
<1>2. ops # <<>> => op' = op
  BY ChainTypes DEF Enqueue, op
<1>3. ops = <<>> => rt.pc = "idle"
  BY DEF RuntimeInv, Chain
<1>4. \A i \in 1..Len(ops') :
        /\ ops'[i].guard.epoch <= rt'.epoch
        /\ ops'[i].mode = "human" => ops'[i].guard = NoGuard
  <2>1. rt.epoch \in Nat /\ rt'.epoch \in Nat
    BY ChainTypes DEF RuntimeType
  <2> SUFFICES ASSUME NEW i \in 1..Len(ops')
               PROVE  /\ ops'[i].guard.epoch <= rt'.epoch
                      /\ ops'[i].mode = "human" => ops'[i].guard = NoGuard
    OBVIOUS
  <2>2. CASE i \in 1..Len(ops)
    <3>1. ops'[i] = ops[i] /\ ops[i] \in Op /\ ops[i].guard.epoch \in Nat
      BY <2>2, ChainTypes DEF Enqueue
    <3>2. /\ ops[i].guard.epoch <= rt.epoch
          /\ ops[i].mode = "human" => ops[i].guard = NoGuard
      BY <2>2 DEF Control, HandOver
    <3>3. ops[i].guard.epoch <= rt'.epoch
      BY <2>1, <3>1, <3>2
    <3> QED
      BY <3>1, <3>2, <3>3
  <2>3. CASE i \notin 1..Len(ops)
    <3>1. ops'[i] = o
      BY <2>3, ChainTypes DEF Enqueue
    <3> QED
      BY <3>1
  <2> QED
    BY <2>2, <2>3
<1>5. HandOver'
  BY <1>2, <1>3, <1>4 DEF Control, HandOver, Ticking
<1> QED
  BY <1>1, <1>5 DEF Control

\* What a waiting command means does not change when another one joins.
LEMMA JoinOvertaken ==
  ASSUME RuntimeInv, NEW o \in Op, Enqueue(o), rt'.epoch \in Nat,
         \A i \in 1..Len(ops) :
           ops[i].kind = "mode" /\ ops[i].mode # "human"
             => ops[i].guard # NoGuard /\ ops[i].guard.epoch < rt'.epoch,
         o.kind = "mode" /\ o.mode # "human"
           => o.guard # NoGuard /\ o.guard.epoch < rt'.epoch,
         \/ rt'.stopReq \/ rt'.requested = "human" \/ rt'.mode = "human"
         \/ rt'.stopped
  PROVE  Overtaken'
<1>1. \A i \in 1..Len(ops') : ops'[i] = o \/ (i \in 1..Len(ops) /\ ops'[i] = ops[i])
  BY ChainTypes DEF Enqueue
<1> QED
  BY <1>1 DEF Overtaken

LEMMA AskControl ==
  ASSUME RuntimeInv, Control, Ask
  PROVE  Control' /\ rt'.pc = rt.pc
<1>1. /\ rt \in RuntimeType /\ rt.epoch \in Nat /\ rt.epoch + 1 \in Nat
      /\ host.inst \in Nat
      /\ hist \in [asks : Nat, handed : BOOLEAN, legacy : BOOLEAN,
                   steps : Nat, stepPosts : Nat, scene : Scenes]
  <2>1. host.inst \in Nat
    BY DEF RuntimeInv, HostInv, HostTypeOK
  <2> QED
    BY <2>1, ChainTypes, Typed DEF RuntimeInv, TypeOK
<1>2. \A g \in Bindings : g \in Guards /\ g.epoch <= rt.epoch
  BY <1>1 DEF Bindings, Guards, NoGuard
<1>3. NoGuard \in Guards /\ NoGuard.epoch = 0
  BY DEF NoGuard, Guards
<1>4. \A i \in 1..Len(ops) : /\ ops[i].guard.epoch \in Nat
                             /\ ops[i].guard.epoch <= rt.epoch
  BY ChainTypes DEF Control, HandOver
<1>5. hist.handed /\ ~hist.legacy =>
        /\ Overtaken
        /\ \A i \in 1..Len(ops) :
             ops[i].kind = "mode" /\ ops[i].mode # "human"
               => ops[i].guard # NoGuard /\ ops[i].guard.epoch < rt.epoch
  BY DEF Control, HandOver, Overtaken
<1>6. ASSUME Handed, ~hist'.legacy, rt'.epoch = rt.epoch + 1
      PROVE  \A i \in 1..Len(ops) :
               ops[i].kind = "mode" /\ ops[i].mode # "human"
                 => ops[i].guard # NoGuard /\ ops[i].guard.epoch < rt'.epoch
  <2> DEFINE l == \E i \in 1..Len(ops) : /\ ops[i].kind = "mode"
                                         /\ ops[i].mode # "human"
                                         /\ ops[i].guard = NoGuard
             a == hist.asks + 1
  <2>1. hist' = [hist EXCEPT !.asks = a, !.handed = TRUE, !.legacy = l]
    BY <1>6 DEF Handed
  <2> HIDE DEF l, a
  <2>2. ~l
    BY <1>1, <1>6, <2>1
  <2> SUFFICES ASSUME NEW i \in 1..Len(ops),
                      ops[i].kind = "mode", ops[i].mode # "human"
               PROVE  ops[i].guard # NoGuard /\ ops[i].guard.epoch < rt'.epoch
    OBVIOUS
  <2>3. ops[i].guard # NoGuard
    BY <2>2 DEF l
  <2>4. ops[i].guard.epoch \in Nat /\ ops[i].guard.epoch <= rt.epoch
    BY <1>4
  <2> QED
    BY <1>1, <1>6, <2>3, <2>4
<1>7. CASE AskHuman
  <2> DEFINE o == [kind |-> "mode", mode |-> "human", guard |-> NoGuard]
  <2>1. o \in Op /\ Enqueue(o) /\ sess' = sess /\ Handed
    BY <1>3, <1>7 DEF AskHuman, asked, Op, Modes
  <2>2. /\ rt' \in RuntimeType /\ rt'.pc = rt.pc /\ rt'.mode = rt.mode
        /\ rt'.held = rt.held /\ rt'.after = rt.after /\ rt'.opened = rt.opened
        /\ rt'.epoch = rt.epoch + 1 /\ rt'.requested = "human"
    BY <1>1, <1>7 DEF AskHuman, RuntimeType, Modes
  <2>3. o.guard = NoGuard /\ o.mode = "human"
    OBVIOUS
  <2> HIDE DEF o
  <2>4. ~hist'.legacy => Overtaken'
    BY <1>1, <1>6, <2>1, <2>2, <2>3, JoinOvertaken
  <2> QED
    BY <1>1, <1>3, <2>1, <2>2, <2>3, <2>4, JoinControl
<1>8. CASE AskStop
  <2> DEFINE o == [kind |-> "stop", mode |-> "none", guard |-> NoGuard]
  <2>1. o \in Op /\ Enqueue(o) /\ sess' = sess /\ Handed
    BY <1>3, <1>8 DEF AskStop, asked, Op, Modes
  <2>2. /\ rt' \in RuntimeType /\ rt'.pc = rt.pc /\ rt'.mode = rt.mode
        /\ rt'.held = rt.held /\ rt'.after = rt.after /\ rt'.opened = rt.opened
        /\ rt'.epoch = rt.epoch + 1 /\ rt'.stopReq
    BY <1>1, <1>8 DEF AskStop, RuntimeType
  <2>3. o.guard = NoGuard /\ o.kind = "stop"
    OBVIOUS
  <2> HIDE DEF o
  <2>4. ~hist'.legacy => Overtaken'
    BY <1>1, <1>6, <2>1, <2>2, <2>3, JoinOvertaken
  <2> QED
    BY <1>1, <1>3, <2>1, <2>2, <2>3, <2>4, JoinControl
<1>9. ASSUME NEW g \in Bindings, AskTick(g), SameHands
      PROVE  Control' /\ rt'.pc = rt.pc
  <2> DEFINE o == [kind |-> "tick", mode |-> "none", guard |-> g]
  <2>1. o \in Op /\ Enqueue(o) /\ sess' = sess
    BY <1>2, <1>9 DEF AskTick, asked, Op, Modes
  <2>2. /\ rt' \in RuntimeType /\ rt'.pc = rt.pc /\ rt'.mode = rt.mode
        /\ rt'.held = rt.held /\ rt'.after = rt.after /\ rt'.opened = rt.opened
        /\ rt'.epoch = rt.epoch /\ rt'.requested = rt.requested
        /\ rt'.stopReq = rt.stopReq /\ rt'.stopped = rt.stopped
    BY <1>1, <1>9 DEF AskTick, RuntimeType
  <2>3. o.guard = g /\ o.kind = "tick" /\ o.mode = "none"
    OBVIOUS
  <2> HIDE DEF o
  <2>4. hist'.handed /\ ~hist'.legacy => Overtaken'
    <3> SUFFICES ASSUME hist'.handed, ~hist'.legacy PROVE Overtaken'
      OBVIOUS
    <3>1. Overtaken /\ hist.handed /\ ~hist.legacy
      BY <1>5, <1>9 DEF SameHands
    <3>2. \/ rt'.stopReq \/ rt'.requested = "human" \/ rt'.mode = "human"
          \/ rt'.stopped
      BY <2>2, <3>1 DEF Overtaken
    <3> QED
      BY <1>1, <1>5, <2>1, <2>2, <2>3, <3>1, <3>2, JoinOvertaken
  <2>5. rt'.epoch >= rt.epoch /\ o.guard.epoch <= rt'.epoch
    BY <1>1, <1>2, <2>2, <2>3
  <2> QED
    BY <2>1, <2>2, <2>3, <2>4, <2>5, JoinControl
<1>10. ASSUME NEW g \in Bindings, NEW m \in hist.scene.modes, AskMode(m, g)
       PROVE  Control' /\ rt'.pc = rt.pc
  <2> DEFINE o == [kind |-> "mode", mode |-> m, guard |-> g]
             a == hist.asks + 1
             h == hist.handed /\ g # NoGuard /\ g.epoch < rt.epoch
  <2>1. m \in {"shadow", "one_step", "auto"}
    BY <1>1
  <2>2. o \in Op /\ Enqueue(o) /\ sess' = sess
        /\ hist' = [hist EXCEPT !.asks = a, !.handed = h]
    BY <1>2, <1>10, <2>1 DEF AskMode, asked, Op, Modes
  <2>3. /\ rt' \in RuntimeType /\ rt'.pc = rt.pc /\ rt'.mode = rt.mode
        /\ rt'.held = rt.held /\ rt'.after = rt.after /\ rt'.opened = rt.opened
        /\ rt'.epoch = rt.epoch /\ rt'.stopReq = rt.stopReq
        /\ rt'.stopped = rt.stopped
        /\ g # NoGuard => rt'.requested = rt.requested
    BY <1>1, <1>10, <2>1 DEF AskMode, RuntimeType, Modes
  <2>4. o.guard = g /\ o.kind = "mode" /\ o.mode = m
    OBVIOUS
  <2> HIDE DEF o, a
  <2>a. hist'.handed = h /\ hist'.legacy = hist.legacy
    BY <1>1, <2>2
  <2>5. hist'.handed /\ ~hist'.legacy => Overtaken'
    <3> SUFFICES ASSUME hist'.handed, ~hist'.legacy PROVE Overtaken'
      OBVIOUS
    <3>1. Overtaken /\ hist.handed /\ ~hist.legacy
          /\ g # NoGuard /\ g.epoch < rt.epoch
      BY <1>5, <2>a
    <3>2. \/ rt'.stopReq \/ rt'.requested = "human" \/ rt'.mode = "human"
          \/ rt'.stopped
      BY <2>3, <3>1 DEF Overtaken
    <3> QED
      BY <1>1, <1>5, <2>2, <2>3, <2>4, <3>1, <3>2, JoinOvertaken
  <2>6. rt'.epoch >= rt.epoch /\ o.guard.epoch <= rt'.epoch
    BY <1>1, <1>2, <2>3, <2>4
  <2> QED
    BY <2>1, <2>2, <2>3, <2>4, <2>5, <2>6, JoinControl
<1>11. CASE WorkerTick
  <2>1. NoGuard \in Bindings /\ AskTick(NoGuard) /\ SameHands
    BY <1>11 DEF WorkerTick, Bindings, SameHands
  <2> QED
    BY <1>9, <2>1
<1>12. ASSUME NEW g \in Bindings, UserTick(g)
       PROVE  AskTick(g) /\ SameHands
  <2>1. hist' = [hist EXCEPT !.asks = hist.asks + 1] /\ AskTick(g)
    BY <1>12 DEF UserTick
  <2> QED
    BY <1>1, <2>1 DEF SameHands
<1> QED
  BY <1>7, <1>8, <1>9, <1>10, <1>11, <1>12 DEF Ask

LEMMA NextKeepsControl ==
  ASSUME RuntimeInv, Control, [Next]_vars
  PROVE  /\ Control'
         /\ rt'.pc = "submit" /\ rt.pc # "submit" => ~hist.handed \/ hist.legacy
<1>1. CASE Ask \/ Returns \/ Timers \/ Others \/ Host \/ UNCHANGED vars
  BY <1>1, AskControl, AsidesControl
<1>2. CASE Start \/ Check \/ Record \/ Stop \/ Releasing
  BY <1>2, CommandsControl
<1>3. CASE Capabilities \/ Observe \/ Score \/ Reply \/ NoReply \/ Successor
           \/ RegisterSession \/ AcquireControl
  <2>1. rt.pc \in Ticking
    BY <1>3 DEF Capabilities, Observe, Score, Reply, NoReply, Successor,
                RegisterSession, AcquireControl, At, Ticking
  <2>2. hist.handed /\ ~hist.legacy => Cancelled
    BY <2>1, TickFits
  <2>3. hist.handed \in BOOLEAN /\ hist.legacy \in BOOLEAN
    BY DEF RuntimeInv, TypeOK
  <2> QED
    BY <1>3, <2>2, <2>3, TicksControl, RegisterControl, AcquireControlControl
<1>4. CASE Submit \/ SubmitRenewed
  BY <1>4, SubmitControl
<1> QED
  BY <1>1, <1>2, <1>3, <1>4 DEF Next, Running

LEMMA InitControl == Init => Control
<1> SUFFICES ASSUME Init PROVE Control
  OBVIOUS
<1>1. PICK scene \in Scenes :
        /\ rt = Runtime(scene.start)
        /\ hist = [asks |-> 0, handed |-> FALSE, legacy |-> FALSE,
                   steps |-> IF scene.start = "one_step" THEN 1 ELSE 0,
                   stepPosts |-> 0, scene |-> scene]
  BY DEF Init
<1>2. rt.pc = "idle" /\ rt.held = FALSE /\ hist.handed = FALSE /\ ops = <<>>
  BY <1>1 DEF Runtime, Init
<1> QED
  BY <1>2 DEF Control, HandOver, OpenInUse, Ticking

\* ControlInv is inductive: whose turn it is and which session is in use is
\* known in every reachable state of the runtime.
THEOREM ControlInvariance == Spec => []ControlInv
<1>1. Init => ControlInv
  BY InitRuntimeInv, InitControl DEF ControlInv, Control
<1>2. ControlInv /\ [Next]_vars => ControlInv'
  BY NextKeeps, NextKeepsControl DEF ControlInv, Control
<1> QED
  BY <1>1, <1>2, PTL DEF Spec

\* Once a person asked for Human or Stop no submission begins until someone
\* asks for another mode (PolicyRuntime, setMode, stop and tick).
THEOREM HumanHasControl == Spec => HumanTakesOver
<1>1. ControlInv /\ [Next]_vars =>
        [rt'.pc = "submit" /\ rt.pc # "submit" => ~hist.handed \/ hist.legacy]_vars
  BY NextKeepsControl DEF ControlInv, Control
<1> QED
  BY <1>1, ControlInvariance, PTL DEF Spec, HumanTakesOver

-----------------------------------------------------------------------------
(* What a closed session can still do.                                     *)

\* The lease of client k is not prolonged and none is granted to it.
LeaseKept(k) ==
  host'.lease # NoLease /\ host'.lease.client = k =>
    host'.lease = host.lease /\ host'.life <= host.life

LEMMA HostLeaves ==
  ASSUME RuntimeInv, NEW k, NEW c,
         \/ UNCHANGED host
         \/ Release(c) \/ Register(c) \/ ClockTick \/ HostRestarts
  PROVE  LeaseKept(k)
<1>1. host \in HostType /\ host.life \in Nat
  BY DEF RuntimeInv, HostInv, HostTypeOK, HostType
<1>2. CASE UNCHANGED host
  BY <1>1, <1>2 DEF LeaseKept
<1>3. CASE Release(c)
  BY <1>1, <1>3 DEF LeaseKept, Release, HostType
<1>4. CASE Register(c)
  <2>1. host'.lease = host.lease /\ host'.life = host.life
    BY <1>1, <1>4 DEF Register, HostType
  <2> QED
    BY <1>1, <2>1 DEF LeaseKept
<1>5. CASE ClockTick
  <2>1. \/ host'.lease = NoLease
        \/ host'.lease = host.lease /\ host'.life = host.life - 1
    BY <1>1, <1>5 DEF ClockTick, HostType
  <2> QED
    BY <1>1, <2>1 DEF LeaseKept
<1>6. CASE HostRestarts
  BY <1>6 DEF LeaseKept, HostRestarts, NewHost
<1> QED
  BY <1>2, <1>3, <1>4, <1>5, <1>6

LEMMA OtherAcquires ==
  ASSUME RuntimeInv, NEW c \in Clients, c \in Rivals \/ c \in 1..rt.opened,
         Acquire(c), NEW k, k # c
  PROVE  LeaseKept(k)
<1> DEFINE l == NextLease(c)
           life == IF host.lease = NoLease THEN LeaseTicks ELSE host.life
<1>1. l.client = c
  BY AcquireCalm
<1>2. host' = [host EXCEPT !.lease = l, !.gen = l.gen, !.life = life]
  BY DEF Acquire
<1>3. host \in HostType
  BY DEF RuntimeInv, HostInv, HostTypeOK, HostType
<1> HIDE DEF l, life
<1>4. host'.lease = l
  BY <1>2, <1>3 DEF HostType
<1> QED
  BY <1>1, <1>4 DEF LeaseKept

LEMMA OtherRenews ==
  ASSUME RuntimeInv, NEW j \in 1..MaxOwn, Renew(sess[j].lease), NEW k, k # j
  PROVE  LeaseKept(k)
<1>1. sess[j].lease # NoLease /\ host.lease = sess[j].lease
  BY DEF Renew, MatchesCurrentLease
<1>2. sess[j].lease.client = j
  BY <1>1 DEF RuntimeInv, OwnLeases
<1>3. host \in HostType
  BY DEF RuntimeInv, HostInv, HostTypeOK, HostType
<1>4. host'.lease = host.lease
  BY <1>3 DEF Renew, HostType
<1> QED
  BY <1>1, <1>2, <1>4 DEF LeaseKept

\* Giving up control closes a session, at most.
Closes == UNCHANGED sess \/ \E j : sess' = [sess EXCEPT ![j].closed = TRUE]

LEMMA GiveUpCloses ==
  ASSUME NEW r, NEW after, GiveUp(r, after)
  PROVE  Closes
BY DEF GiveUp, Closes

LEMMA ClosesKeeps ==
  ASSUME RuntimeInv, Closes
  PROVE  \A j \in 1..MaxOwn : sess'[j].call = sess[j].call
<1>1. ASSUME NEW i, sess' = [sess EXCEPT ![i].closed = TRUE]
      PROVE  \A j \in 1..MaxOwn : sess'[j].call = sess[j].call
  <2>1. \A j \in 1..MaxOwn : j # i => sess'[j] = sess[j]
    BY <1>1, Typed
  <2>2. ASSUME i \in 1..MaxOwn PROVE sess'[i].call = sess[i].call
    BY <1>1, <2>2, Typed DEF Session
  <2> QED
    BY <2>1, <2>2
<1> QED
  BY <1>1 DEF Closes

LEMMA CallsKept ==
  ASSUME RuntimeInv, Running, ~Submit, ~SubmitRenewed
  PROVE  \A j \in 1..MaxOwn : sess'[j].call = sess[j].call
<1>1. Closes => \A j \in 1..MaxOwn : sess'[j].call = sess[j].call
  BY ClosesKeeps
<1>2. FailClosed(rt) \/ Taint(rt) => Closes
  BY GiveUpCloses DEF FailClosed, Taint
<1>3. Begin(rt) => Closes
  <2>1. UNCHANGED sess => Closes
    BY DEF Closes
  <2> QED
    BY <2>1, GiveUpCloses DEF Begin, BeginStop, BeginTick, BeginMode
<1>4. CASE AcquireControl
  <2> DEFINE k == rt.opened
             l == NextLease(k)
  <2>1. \/ sess' = [sess EXCEPT ![k].lease = l]
        \/ sess' = [sess EXCEPT ![k].lease = l, ![k].closed = TRUE]
        \/ sess' = [sess EXCEPT ![k].closed = TRUE]
    BY <1>4 DEF AcquireControl
  <2>2. k \in 1..MaxOwn
    BY <1>4, Typed DEF AcquireControl, At, RuntimeInv, OwnLeases
  <2> HIDE DEF k, l
  <2>3. sess[k] \in Session
    BY <2>2, Typed
  <2> DEFINE a == [sess EXCEPT ![k].lease = l]
  <2>4. /\ a[k] = [sess[k] EXCEPT !.lease = l] /\ DOMAIN a = 1..MaxOwn
        /\ \A j \in 1..MaxOwn : a[j].call = sess[j].call
    BY <2>2, <2>3, Typed DEF Session
  <2>5. CASE sess' = [sess EXCEPT ![k].lease = l, ![k].closed = TRUE]
    <3>1. sess' = [a EXCEPT ![k].closed = TRUE]
      BY <2>5
    <3> HIDE DEF a
    <3>2. \A j \in 1..MaxOwn : j # k => sess'[j] = a[j]
      BY <3>1
    <3>3. sess'[k] = [a[k] EXCEPT !.closed = TRUE]
      BY <2>2, <2>4, <3>1
    <3>4. sess'[k].call = a[k].call
      BY <2>3, <2>4, <3>3 DEF Session
    <3> QED
      BY <2>4, <3>2, <3>4
  <2> QED
    BY <1>1, <2>1, <2>4, <2>5 DEF Closes
<1>5. UNCHANGED sess => Closes
  BY DEF Closes
<1>6. CASE Start \/ Check \/ Record \/ Stop \/ Releasing
  BY <1>1, <1>2, <1>3, <1>5, <1>6 DEF Start, Check, Record, Stop, Releasing
<1>7. CASE Capabilities \/ Observe \/ Score \/ RegisterSession
  BY <1>1, <1>2, <1>5, <1>7, GiveUpCloses
     DEF Capabilities, Observe, Score, RegisterSession
<1>8. CASE Reply \/ NoReply \/ Successor
  <2>1. CASE NoReply \/ Successor
    BY <1>1, <1>2, <1>5, <2>1, GiveUpCloses DEF NoReply, Successor
  <2>2. CASE Reply
    <3>1. receipt[rt.decided] \in {"delivered", "unknown", "not_delivered"}
      <4>1. rt.decided \in Requests /\ receipt[rt.decided] # "none"
        BY <2>2 DEF Reply, At, RuntimeInv, OpenPosts
      <4> QED
        BY <4>1 DEF RuntimeInv, HostInv, HostTypeOK, Delivery
    <3> QED
      BY <1>1, <1>2, <1>5, <2>2, <3>1, GiveUpCloses DEF Reply
  <2> QED
    BY <1>8, <2>1, <2>2
<1> QED
  BY <1>4, <1>6, <1>7, <1>8 DEF Running

LEMMA ClosedStep ==
  ASSUME RuntimeInv, Control, [Next]_vars, NEW k \in 1..MaxOwn,
         sess[k].closed, sess[k].call = "none"
  PROVE  sess'[k].call = "none" /\ LeaseKept(k)
<1>1. /\ sess[k] \in Session /\ k \in Clients
      /\ rt.pc \in {"acquire", "submit", "credentials"}
           => k # rt.opened /\ rt.opened \in 1..MaxOwn
              /\ rt.opened \in 1..rt.opened /\ rt.opened \in Clients
  BY Typed DEF Control, OpenInUse, RuntimeInv, OwnLeases
<1>2. UNCHANGED host => LeaseKept(k)
  BY HostLeaves
<1>3. CASE Ask \/ UNCHANGED vars
  BY <1>2, <1>3 DEF Ask, AskHuman, AskStop, WorkerTick, UserTick, AskTick,
                    AskMode, asked, hostVars, control, vars, runtime
<1>4. CASE Timers
  <2>1. PICK j \in 1..MaxOwn : RenewalTimer(j)
    BY <1>4 DEF Timers
  <2>2. j # k /\ UNCHANGED host /\ sess' = [sess EXCEPT ![j].call = "renew"]
    BY <2>1 DEF RenewalTimer, hostVars, control
  <2>3. sess'[k] = sess[k]
    BY <2>2, Typed
  <2> QED
    BY <1>2, <2>2, <2>3
<1>5. CASE Returns
  <2>1. PICK j \in 1..MaxOwn : RenewReturns(j) \/ AcquireReturns(j)
    BY <1>5 DEF Returns
  <2>2. j # k
    BY <2>1 DEF RenewReturns, AcquireReturns
  <2>3. CASE RenewReturns(j)
    <3>1. Renew(sess[j].lease) \/ UNCHANGED host
      BY <2>3 DEF RenewReturns, hostVars, control
    <3>2. sess'[k] = sess[k]
      <4>1. \/ sess' = [sess EXCEPT ![j].call = "none"]
            \/ sess' = [sess EXCEPT ![j].call = "acquire", ![j].lease = NoLease]
        BY <2>3 DEF RenewReturns
      <4>2. sess' = [sess EXCEPT ![j].call = "none"] => sess'[k] = sess[k]
        BY <2>2, Typed
      <4> QED
        BY <2>2, <4>1, <4>2, TwoEdits
    <3> QED
      BY <1>2, <2>2, <3>1, <3>2, OtherRenews
  <2>4. CASE AcquireReturns(j)
    <3> DEFINE l == NextLease(j)
    <3>1. Acquire(j) \/ UNCHANGED host
      BY <2>4 DEF AcquireReturns, hostVars, control
    <3>2. \/ sess' = [sess EXCEPT ![j].call = "none"]
          \/ sess' = [sess EXCEPT ![j].call = "none", ![j].lease = l]
      BY <2>4 DEF AcquireReturns
    <3>3. j \in 1..rt.opened /\ j \in Clients
      BY <2>4, Opened DEF AcquireReturns
    <3> HIDE DEF l
    <3>4. sess'[k] = sess[k]
      <4>1. sess' = [sess EXCEPT ![j].call = "none"] => sess'[k] = sess[k]
        BY <2>2, Typed
      <4> QED
        BY <2>2, <3>2, <4>1, TwoEdits
    <3> QED
      BY <1>2, <2>2, <3>1, <3>3, <3>4, OtherAcquires
  <2> QED
    BY <2>1, <2>3, <2>4
<1>6. CASE Others
  <2>1. sess' = sess
    BY <1>6 DEF Others, runtime
  <2>2. \A c \in Rivals : c # k /\ c \in Clients
    BY <1>1
  <2>3. \A c : Post(c) => UNCHANGED host
    BY DEF Post, control
  <2>4. \/ \E c \in Rivals : Register(c) \/ Acquire(c)
        \/ \E c : Release(c) \/ Post(c)
    BY <1>6 DEF Others
  <2>5. CASE \E c : Register(c) \/ Release(c) \/ Post(c)
    BY <1>2, <2>1, <2>3, <2>5, HostLeaves
  <2>6. CASE \E c \in Rivals : Acquire(c)
    BY <2>1, <2>2, <2>6, OtherAcquires
  <2> QED
    BY <2>4, <2>5, <2>6
<1>7. CASE Host
  <2>1. sess' = sess
    BY <1>7 DEF Host, runtime
  <2>2. MainThread => UNCHANGED host
    BY DEF MainThread, Replay, SnapshotUnavailable, Fail, Admit, TakeNext,
           NativeInput, DropAfterBatch, FrameEnds, control
  <2>3. GameMoves => UNCHANGED host
    BY DEF GameMoves, control
  <2>4. ClockTick \/ MainThread \/ GameMoves \/ HostRestarts
    BY <1>7 DEF Host
  <2> QED
    BY <1>2, <2>1, <2>2, <2>3, <2>4, HostLeaves
<1>8. CASE Submit \/ SubmitRenewed
  <2>1. k # own /\ own \in 1..MaxOwn
    BY <1>1, <1>8 DEF Submit, SubmitRenewed, At, own
  <2>2. CASE Send
    BY <1>2, <2>2 DEF Send, Post, control
  <2>3. CASE Submit /\ ~Send
    <3>1. /\ UNCHANGED host
          /\ \E c \in {"renew", "acquire"} : sess' = [sess EXCEPT ![own].call = c]
      BY <2>3 DEF Submit, hostVars, control
    <3> HIDE DEF own
    <3>2. sess'[k] = sess[k]
      BY <2>1, <3>1, Typed
    <3> QED
      BY <1>2, <3>1, <3>2
  <2>4. CASE SubmitRenewed /\ ~Send
    <3>1. UNCHANGED host /\ Taint(rt)
      BY <2>4 DEF SubmitRenewed, hostVars, control
    <3>2. Closes
      BY <3>1, GiveUpCloses DEF Taint, FailClosed
    <3> QED
      BY <1>2, <3>1, <3>2, ClosesKeeps
  <2> QED
    BY <1>8, <2>2, <2>3, <2>4
<1>9. CASE Running /\ ~Submit /\ ~SubmitRenewed
  <2>1. sess'[k].call = "none"
    BY <1>9, CallsKept
  <2>2. CASE AcquireControl
    <3>1. rt.pc = "acquire" /\ (Acquire(rt.opened) \/ UNCHANGED host)
      BY <2>2 DEF AcquireControl, At, hostVars, control
    <3> QED
      BY <1>1, <1>2, <2>1, <3>1, OtherAcquires
  <2>3. CASE RegisterSession \/ Releasing
    <3>1. (\E c : Register(c) \/ Release(c)) \/ UNCHANGED host
      BY <2>3 DEF RegisterSession, Releasing, hostVars, control
    <3> QED
      BY <1>2, <2>1, <3>1, HostLeaves
  <2>4. CASE Start \/ Check \/ Record \/ Stop
    <3>1. UNCHANGED host
      BY <2>4 DEF Start, Check, Record, Stop, hostVars, control
    <3> QED
      BY <1>2, <2>1, <3>1
  <2>5. CASE Capabilities \/ Observe \/ Score \/ Reply \/ NoReply \/ Successor
    <3>1. UNCHANGED host
      BY <2>5 DEF Capabilities, Observe, Score, Reply, NoReply, Successor,
                  hostVars, control
    <3> QED
      BY <1>2, <2>1, <3>1
  <2> QED
    BY <1>9, <2>2, <2>3, <2>4, <2>5 DEF Running
<1> QED
  BY <1>3, <1>4, <1>5, <1>6, <1>7, <1>8, <1>9 DEF Next

\* A closed session whose last call has returned neither renews its lease nor
\* asks for another (controllerSession.ts, close).
THEOREM ClosedForGood == Spec => ClosedSessionsEnd
<1> DEFINE End == \A k \in 1..MaxOwn :
                    sess[k].closed /\ sess[k].call = "none" =>
                      /\ sess'[k].call = "none"
                      /\ host'.lease # NoLease /\ host'.lease.client = k =>
                           host'.lease = host.lease /\ host'.life <= host.life
<1>1. ControlInv /\ [Next]_vars => [End]_vars
  <2> SUFFICES ASSUME ControlInv, [Next]_vars PROVE End
    OBVIOUS
  <2> QED
    BY ClosedStep DEF ControlInv, Control, LeaseKept
<1> QED
  BY <1>1, ControlInvariance, PTL DEF Spec, ClosedSessionsEnd
=============================================================================
