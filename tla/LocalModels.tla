----------------------------- MODULE LocalModels -----------------------------
(* The Workbench's local models (workbench/local_models.py): threads that   *)
(* start, command, stop and recover one policy runtime on a fixed port.     *)
(* Requests to the runtime may be served late, lost, or answered after the  *)
(* caller gave up; the Workbench may close or die with a runtime alive and  *)
(* finds the session it saved when it opens again.  Every request names the *)
(* run it is for, and one that changes the mode the recovery epoch it saw.  *)
EXTENDS Integers

CONSTANTS
  Runs,        \* runtime processes, each with a run id of its own
  MaxOps,      \* bound: operations begun
  MaxFaults,   \* bound: ends of the Workbench, deaths of its runtimes
  MaxOthers,   \* bound: recoveries asked in the game's own interface
  NoRun,       \* no runtime
  Unnamed      \* a session saved before its runtime named its run

ASSUME RunsAreNamed == NoRun \notin Runs /\ Unnamed \notin Runs /\ NoRun # Unnamed
ASSUME BoundsAreNat == MaxOps \in Nat /\ MaxFaults \in Nat /\ MaxOthers \in Nat

VARIABLES
  wb,      \* memory of the Workbench
  disk,    \* session.json
  th,      \* its threads; Closer is the main one
  sender,  \* holder of control_send_lock
  wire,    \* the request of each thread and its reply
  rt,      \* the runtime processes
  ops, faults, others

vars == <<wb, disk, th, sender, wire, rt, ops, faults, others>>

-----------------------------------------------------------------------------
Ops == 1..MaxOps
Closer == 0
Threads == Ops \cup {Closer}

Entries == {"auto", "one_step", "tick"}   \* commands that let the model act
Pending == {"probe", "launch", "await", "task", "observe", "environment",
            "prepare", "send", "reply", "settle", "kill", "handoff", "cancel",
            "identify", "adopt", "leave", "exit", "error", "save"}
Statuses == {"idle", "failed", "loading", "loaded", "stopped",
             "command_unknown", "recovery_required", "runtime_exited"}

Memory == [up : BOOLEAN, closed : BOOLEAN, status : Statuses, loaded : BOOLEAN,
           client  : Runs \cup {NoRun},           \* self.client
           process : Runs \cup {NoRun},           \* self.process
           prev    : Runs \cup {NoRun, Unnamed},  \* previous_session
           startup : Runs \cup {NoRun, Unnamed},
           op      : Threads,                     \* state["operation"]
           last    : Threads,                     \* self.thread
           intent  : Threads]                     \* intent_generation
Session == [status : Statuses, prev : Runs \cup {NoRun, Unnamed},
            startup : Runs \cup {NoRun, Unnamed}]
Thread  == [pc : {"none", "done"} \cup Pending,
            act : {"none", "start", "task", "human", "stop", "cancel", "close"}
                    \cup Entries,
            intent : Threads, run : Runs \cup {NoRun}, epoch : Nat,
            code : {"none", "unknown", "rejected", "other", "stopped"}]
Runtime == [life : {"none", "starting", "running", "stopped", "gone"},
            epoch : Nat,           \* recovery_epoch
            held : Threads,        \* history: the command the model acts under
            recovered : Threads,   \* history: last Human or Stop it applied
            doubt : SUBSET Ops]    \* history: commands of unknown outcome since
Request == [run : Runs, act : {"human", "stop"} \cup Entries, epoch : Nat,
            reply : {"none", "running", "stopped", "rejected", "lost"}]
NoRequest == [run |-> NoRun, act |-> "none", epoch |-> 0, reply |-> "none"]
NoThread  == [pc |-> "none", act |-> "none", intent |-> 0, run |-> NoRun,
              epoch |-> 0, code |-> "none"]
Done      == [NoThread EXCEPT !.pc = "done"]

\* What a Workbench knows when it opens with session s.
Opened(s) ==
  LET settled == s.status \in {"stopped", "idle", "failed"}
  IN  [up |-> TRUE, closed |-> FALSE, loaded |-> FALSE,
       status |-> IF settled THEN "idle" ELSE "recovery_required",
       prev |-> IF settled THEN NoRun ELSE IF s.prev # NoRun THEN s.prev
                ELSE s.startup,
       client |-> NoRun, process |-> NoRun, startup |-> Unnamed,
       op |-> 0, last |-> 0, intent |-> 0]

Saved(w) == [status |-> w.status, prev |-> w.prev, startup |-> w.startup]

Init ==
  /\ disk = [status |-> "idle", prev |-> NoRun, startup |-> Unnamed]
  /\ wb = Opened(disk)
  /\ th = [t \in Threads |-> NoThread]
  /\ sender = 0
  /\ wire = [t \in Threads |-> NoRequest]
  /\ rt = [r \in Runs |-> [life |-> "none", epoch |-> 0, held |-> 0,
                           recovered |-> 0, doubt |-> {}]]
  /\ ops = 0 /\ faults = 0 /\ others = 0

-----------------------------------------------------------------------------
(* Threads.                                                                *)

bounds == <<ops, faults, others>>

Running(t)  == th[t].pc \in Pending
Busy        == wb.last # 0 /\ Running(wb.last)
Alive(r)    == rt[r].life \in {"starting", "running", "stopped"}
Listening(r) == rt[r].life \in {"running", "stopped"}
Owned       == wb.process # NoRun /\ Alive(wb.process)
At(t, pc)   == wb.up /\ th[t].pc = pc
Goto(t, pc) == th' = [th EXCEPT ![t].pc = pc]
Raise(t, code) ==
  th' = [th EXCEPT ![t] = [NoThread EXCEPT !.pc = "error", !.act = th[t].act,
                                           !.code = code]]

\* Bug_... operators are wrong variants of the definition that follows them.
\* No specification uses them; they show that a property notices the bug.
Bug_Superseded(t) == wb.closed
Superseded(t) == wb.closed \/ th[t].intent # wb.intent
Gone(r, x)    == IF r = NoRun THEN x ELSE [x EXCEPT ![r].life = "gone"]

\* _begin, with w the memory that the caller leaves.
Begin(w, act, pc, intent, run) ==
  /\ wb.up /\ ~wb.closed /\ ops < MaxOps
  /\ ops' = ops + 1
  /\ wb' = [w EXCEPT !.op = ops + 1, !.last = ops + 1]
  /\ disk' = Saved(wb')
  /\ th' = [th EXCEPT ![ops + 1] =
              [NoThread EXCEPT !.pc = pc, !.act = act, !.intent = intent,
                               !.run = run]]
  /\ UNCHANGED <<sender, wire, rt, faults, others>>

Bug_Admitted == ~Busy
Admitted == ~Busy /\ wb.status \notin {"command_unknown", "recovery_required"}

\* What an operation that failed leaves behind, while it is the current one.
Failed(w, code) ==
  CASE code = "unknown" -> "command_unknown"
    [] code = "rejected" /\ w.client # NoRun -> "loaded"
    [] OTHER -> IF w.client # NoRun \/ w.prev # NoRun
                THEN "recovery_required" ELSE "failed"

Bug_HandleError(t) ==
  /\ At(t, "error")
  /\ wb' = IF ~wb.closed
           THEN [wb EXCEPT !.status = Failed(wb, th[t].code)] ELSE wb
  /\ Goto(t, "save")
  /\ UNCHANGED <<disk, sender, wire, rt, bounds>>

HandleError(t) ==
  /\ At(t, "error")
  /\ wb' = IF wb.op = t /\ ~wb.closed
           THEN [wb EXCEPT !.status = Failed(wb, th[t].code)] ELSE wb
  /\ Goto(t, "save")
  /\ UNCHANGED <<disk, sender, wire, rt, bounds>>

Save(t) ==
  /\ At(t, "save")
  /\ disk' = Saved(wb)
  /\ th' = [th EXCEPT ![t] = Done]
  /\ UNCHANGED <<wb, sender, wire, rt, bounds>>

-----------------------------------------------------------------------------
(* Preparation: downloads and installations, loading, cancelled loading.   *)

\* prepare, or install_runtime when nothing is loaded.
Prepare ==
  /\ Admitted
  /\ Begin(wb, "task", "task", wb.intent, NoRun)

Task(t) ==
  /\ At(t, "task")
  /\ \/ /\ wb' = IF wb.client = NoRun THEN [wb EXCEPT !.status = "idle"] ELSE wb
        /\ Goto(t, "save")
     \/ Raise(t, "other") /\ UNCHANGED wb
  /\ UNCHANGED <<disk, sender, wire, rt, bounds>>

\* start; prepare_and_load asks also that there is no client.
Start ==
  /\ ~Owned /\ Admitted
  /\ Begin(wb, "start", "probe", wb.intent, NoRun)

\* Readiness, then whether the port is free.
Probe(t) ==
  /\ At(t, "probe")
  /\ \/ ~Superseded(t) /\ (\A r \in Runs : ~Listening(r)) /\ Goto(t, "launch")
     \/ Raise(t, "other")
  /\ UNCHANGED <<wb, disk, sender, wire, rt, bounds>>

\* The process may also fail to start.
NextRun == CHOOSE r \in Runs : rt[r].life = "none"

Launch(t) ==
  /\ At(t, "launch")
  /\ \/ /\ ~Superseded(t)
        /\ \E r \in Runs : rt[r].life = "none"
        /\ rt' = [rt EXCEPT ![NextRun].life = "starting"]
        /\ wb' = [wb EXCEPT !.process = NextRun, !.status = "loading",
                            !.loaded = FALSE]
        /\ disk' = Saved(wb')
        /\ th' = [th EXCEPT ![t].pc = "await", ![t].run = NextRun]
     \/ Raise(t, "other") /\ UNCHANGED <<wb, disk, rt>>
  /\ UNCHANGED <<sender, wire, bounds>>

\* The startup line and a status are read; the person may have changed mind.
Load(t) ==
  /\ At(t, "await") /\ rt[th[t].run].life = "running"
  /\ ~Superseded(t)
  /\ wb' = [wb EXCEPT !.client = th[t].run, !.status = "loaded",
                      !.loaded = TRUE, !.startup = th[t].run]
  /\ Goto(t, "save")
  /\ UNCHANGED <<disk, sender, wire, rt, bounds>>

Abandon(t) ==
  /\ At(t, "await")
  /\ rt' = Gone(th[t].run, rt)
  /\ Raise(t, "other")
  /\ UNCHANGED <<wb, disk, sender, wire, bounds>>

Cancel(t) ==
  /\ At(t, "cancel") /\ sender = 0
  /\ IF Superseded(t) THEN Raise(t, "other") /\ UNCHANGED <<wb, rt>>
     ELSE /\ rt' = Gone(wb.process, rt)
          /\ wb' = [wb EXCEPT !.client = NoRun, !.status = "stopped",
                              !.loaded = FALSE]
          /\ Goto(t, "save")
  /\ UNCHANGED <<disk, sender, wire, bounds>>

-----------------------------------------------------------------------------
(* Commands.                                                               *)

Commanded == [wb EXCEPT !.intent = ops + 1]

\* Auto, Shadow (alike here) or One-Step.
Enter(act) ==
  /\ Admitted
  /\ wb.client # NoRun /\ wb.loaded
  /\ Begin(Commanded, act, "observe", ops + 1, wb.client)

\* Human or Stop: of a loaded runtime, of the one in the session, or of a load.
Recover(act) ==
  \/ /\ wb.client # NoRun /\ wb.loaded
     /\ Begin(Commanded, act, "observe", ops + 1, wb.client)
  \/ /\ ~(wb.client # NoRun /\ wb.loaded)
     /\ wb.prev # NoRun
     /\ Begin(Commanded, act, "identify", ops + 1, NoRun)
  \/ /\ ~(wb.client # NoRun /\ wb.loaded)
     /\ wb.prev = NoRun
     /\ Busy /\ th[wb.op].act = "start"
     /\ Begin(Commanded, "cancel", "cancel", ops + 1, NoRun)

\* A read of the runtime answers, unless it is gone or times out.
Observe(t) ==
  /\ At(t, "observe")
  /\ \/ /\ ~Superseded(t) /\ Listening(th[t].run)
        /\ Goto(t, IF th[t].act \in Entries THEN "environment" ELSE "send")
     \/ Raise(t, "other")
  /\ UNCHANGED <<wb, disk, sender, wire, rt, bounds>>

Bind(t) ==
  /\ At(t, "environment")
  /\ \/ /\ ~Superseded(t) /\ Listening(th[t].run)
        /\ th' = [th EXCEPT ![t].pc = "prepare",
                            ![t].epoch = rt[th[t].run].epoch]
     \/ ~Superseded(t) /\ Raise(t, "rejected")
     \/ Superseded(t) /\ Raise(t, "other")
  /\ UNCHANGED <<wb, disk, sender, wire, rt, bounds>>

\* The game closes its recording (external) and the runtime is read again.
PrepareGame(t) ==
  /\ At(t, "prepare")
  /\ \/ ~Superseded(t) /\ Listening(th[t].run) /\ Goto(t, "send")
     \/ ~Superseded(t) /\ \E code \in {"rejected", "unknown"} : Raise(t, code)
     \/ Raise(t, "other")
  /\ UNCHANGED <<wb, disk, sender, wire, rt, bounds>>

Post(t) ==
  wire' = [wire EXCEPT ![t] = [run |-> th[t].run, act |-> th[t].act,
                               epoch |-> th[t].epoch, reply |-> "none"]]

\* Commands that let the model act hold the lock until their reply.
Send(t) ==
  /\ At(t, "send")
  /\ th[t].act \in Entries => sender = 0
  /\ IF Superseded(t) THEN Raise(t, "other") /\ UNCHANGED <<sender, wire>>
     ELSE /\ Post(t)
          /\ sender' = IF th[t].act \in Entries THEN t ELSE sender
          /\ Goto(t, "reply")
  /\ UNCHANGED <<wb, disk, rt, bounds>>

Released(t) == IF sender = t THEN 0 ELSE sender

Receive(t) ==
  /\ At(t, "reply") /\ t # Closer
  /\ wire[t].reply \in {"running", "stopped", "rejected"}
  /\ wire' = [wire EXCEPT ![t] = NoRequest]
  /\ sender' = Released(t)
  /\ IF wire[t].reply = "rejected" THEN Raise(t, "rejected")
     ELSE IF Superseded(t) THEN Raise(t, "other")
     ELSE th' = [th EXCEPT
            ![t].pc = IF th[t].act = "one_step" THEN "send"
                      ELSE IF wb.prev # NoRun THEN "adopt" ELSE "settle",
            ![t].act = IF @ = "one_step" THEN "tick" ELSE @,
            ![t].code = IF wb.prev # NoRun /\ wire[t].reply = "stopped"
                        THEN "stopped" ELSE @]
  /\ UNCHANGED <<wb, disk, rt, bounds>>

\* Forty-five seconds without an answer, or an answer that is no status: the
\* request is not sent again, and may be served later.
Doubted(ts) ==
  [r \in Runs |-> [rt[r] EXCEPT !.doubt = @ \cup
     {t \in ts : /\ th[t].pc = "reply" /\ wire[t].act \in Entries
                 /\ wire[t].run = r /\ wire[t].reply # "rejected"
                 /\ t > rt[r].recovered}]]

Bug_TimeOut(t) ==
  /\ At(t, "reply") /\ t # Closer /\ wire[t].reply # "none"
  /\ rt' = Doubted({t})
  /\ wire' = [wire EXCEPT ![t] = NoRequest]
  /\ sender' = Released(t)
  /\ Raise(t, "unknown")
  /\ UNCHANGED <<wb, disk, bounds>>

TimeOut(t) ==
  /\ At(t, "reply") /\ t # Closer
  /\ rt' = Doubted({t})
  /\ wire' = [wire EXCEPT ![t] = IF @.reply = "none" THEN @ ELSE NoRequest]
  /\ sender' = Released(t)
  /\ Raise(t, "unknown")
  /\ UNCHANGED <<wb, disk, bounds>>

Settle(t) ==
  /\ At(t, "settle")
  /\ IF Superseded(t) THEN Raise(t, "other") /\ UNCHANGED wb
     ELSE /\ wb' = IF wb.status # "stopped"
                   THEN [wb EXCEPT !.status = "loaded"] ELSE wb
          /\ Goto(t, IF th[t].act = "stop" THEN "kill" ELSE "save")
  /\ UNCHANGED <<disk, sender, wire, rt, bounds>>

Stopped(w) == [w EXCEPT !.status = "stopped", !.loaded = FALSE, !.client = NoRun]

Kill(t) ==
  /\ At(t, "kill")
  /\ rt' = Gone(wb.process, rt)
  /\ Goto(t, IF t = Closer THEN "leave" ELSE "handoff")
  /\ UNCHANGED <<wb, disk, sender, wire, bounds>>

\* The evidence of the run is verified and its evaluation written, or not;
\* a stop that recovered an earlier session has already settled it.
Handoff(t) ==
  /\ At(t, "handoff")
  /\ \/ /\ wb' = IF th[t].code = "stopped" THEN wb ELSE Stopped(wb)
        /\ Goto(t, "save")
     \/ Raise(t, "other") /\ UNCHANGED wb
  /\ UNCHANGED <<disk, sender, wire, rt, bounds>>

-----------------------------------------------------------------------------
(* The session of an earlier Workbench.                                    *)

Identify(t) ==
  /\ At(t, "identify")
  /\ \/ /\ wb.prev \in Runs /\ Listening(wb.prev)
        /\ th' = [th EXCEPT ![t].run = wb.prev,
                     ![t].pc = IF rt[wb.prev].life = "running"
                               THEN "send" ELSE "adopt",
                     ![t].code = IF rt[wb.prev].life = "running"
                                 THEN "none" ELSE "stopped"]
     \/ wb.prev # NoRun /\ Raise(t, "other")
     \/ wb.prev = NoRun /\ Goto(t, "save")  \* a newer recovery was faster
  /\ UNCHANGED <<wb, disk, sender, wire, rt, bounds>>

\* code: "stopped" when the runtime answered that it has.
Adopt(t) ==
  /\ At(t, "adopt")
  /\ IF Superseded(t) THEN Raise(t, "other") /\ UNCHANGED wb
     ELSE LET stopped == th[t].code = "stopped"
          IN  /\ wb' = [wb EXCEPT
                   !.client = IF stopped THEN NoRun ELSE th[t].run,
                   !.loaded = ~stopped, !.startup = th[t].run, !.prev = NoRun,
                   !.status = IF stopped THEN "stopped" ELSE "loaded"]
              /\ Goto(t, IF stopped THEN "handoff" ELSE "save")
  /\ UNCHANGED <<disk, sender, wire, rt, bounds>>

-----------------------------------------------------------------------------
(* Between operations: the observer, and a page that reads the status.     *)

ObserveStop ==
  /\ wb.up /\ ~wb.closed /\ ~Busy /\ wb.client # NoRun
  /\ \/ wb.process # NoRun /\ ~Alive(wb.process)
     \/ rt[wb.client].life = "stopped"
  /\ rt' = Gone(wb.process, rt)
  /\ wb' = Stopped(wb)
  /\ disk' = Saved(wb')
  /\ UNCHANGED <<th, sender, wire, bounds>>

Poll ==
  /\ wb.up /\ wb.process # NoRun /\ ~Alive(wb.process) /\ wb.status # "stopped"
  /\ wb' = [wb EXCEPT !.status = "runtime_exited", !.loaded = FALSE]
  /\ UNCHANGED <<disk, th, sender, wire, rt, bounds>>

-----------------------------------------------------------------------------
(* The Workbench closes, dies and opens.                                   *)

Close ==
  /\ wb.up /\ ~wb.closed /\ faults < MaxFaults
  /\ faults' = faults + 1
  /\ wb' = [wb EXCEPT !.closed = TRUE]
  /\ th' = [th EXCEPT ![Closer] =
              [NoThread EXCEPT !.act = "close", !.run = wb.client,
                 !.pc = IF wb.client = NoRun THEN "kill" ELSE "reply"]]
  /\ wire' = IF wb.client = NoRun THEN wire
             ELSE [wire EXCEPT ![Closer] =
                     [run |-> wb.client, act |-> "stop", epoch |-> ops,
                      reply |-> "none"]]
  /\ UNCHANGED <<disk, sender, rt, ops, others>>

\* The runtime confirmed that it stopped, or the reply is given up.
CloserReply ==
  /\ At(Closer, "reply")
  /\ th' = [th EXCEPT ![Closer].pc = "kill",
              ![Closer].code = IF wire[Closer].reply = "stopped"
                               THEN "stopped" ELSE "other"]
  /\ wire' = [wire EXCEPT ![Closer] = IF @.reply = "none" THEN @ ELSE NoRequest]
  /\ UNCHANGED <<wb, disk, sender, rt, bounds>>

Leave ==
  /\ At(Closer, "leave")
  /\ wb' = IF wb.client = NoRun THEN wb
           ELSE IF th[Closer].code = "stopped" \/ wb.process # NoRun
           THEN Stopped(wb)
           ELSE [Stopped(wb) EXCEPT !.status = "command_unknown"]
  /\ disk' = Saved(wb')
  /\ Goto(Closer, "exit")
  /\ UNCHANGED <<sender, wire, rt, bounds>>

\* Every thread dies with the process; requests already sent do not.
Down ==
  /\ wb' = [Opened(disk) EXCEPT !.up = FALSE]
  /\ th' = [t \in Threads |-> IF th[t].pc = "none" THEN NoThread ELSE Done]
  /\ sender' = 0
  /\ wire' = [t \in Threads |-> IF wire[t].reply = "none" THEN wire[t]
                                                         ELSE NoRequest]

Exit ==
  /\ At(Closer, "exit")
  /\ Down
  /\ rt' = Doubted({t \in Ops : th[t].pc = "reply"})
  /\ UNCHANGED <<disk, bounds>>

Crash ==
  /\ wb.up /\ faults < MaxFaults
  /\ faults' = faults + 1
  /\ Down
  /\ rt' = Doubted({t \in Ops : th[t].pc = "reply"})
  /\ UNCHANGED <<disk, ops, others>>

\* The runtime is started, and nobody writes it down.
CrashInLaunch(t) ==
  /\ At(t, "launch") /\ ~Superseded(t) /\ faults < MaxFaults
  /\ \E r \in Runs : rt[r].life = "none"
  /\ faults' = faults + 1
  /\ Down
  /\ rt' = [Doubted({u \in Ops : th[u].pc = "reply"})
              EXCEPT ![NextRun].life = "starting"]
  /\ UNCHANGED <<disk, ops, others>>

Open ==
  /\ ~wb.up
  /\ wb' = Opened(disk)
  /\ th' = [th EXCEPT ![Closer] = NoThread]
  /\ UNCHANGED <<disk, sender, wire, rt, bounds>>

-----------------------------------------------------------------------------
(* The runtime processes (policy-runtime), as far as the Workbench sees     *)
(* them; PolicyRuntime models what they do inside.                          *)

\* One process listens on the port; a second one fails.
Ready(r) ==
  /\ rt[r].life = "starting"
  /\ rt' = [rt EXCEPT ![r].life =
              IF \A q \in Runs : ~Listening(q) THEN "running" ELSE "gone"]
  /\ UNCHANGED <<wb, disk, th, sender, wire, bounds>>

Dies(r) ==
  /\ Alive(r) /\ faults < MaxFaults
  /\ faults' = faults + 1
  /\ rt' = Gone(r, rt)
  /\ UNCHANGED <<wb, disk, th, sender, wire, ops, others>>

\* A runtime that was stopped seals its evidence and ends.
Ends(r) ==
  /\ rt[r].life = "stopped"
  /\ rt' = Gone(r, rt)
  /\ UNCHANGED <<wb, disk, th, sender, wire, bounds>>

\* Human and Stop advance the epoch as they arrive, whatever follows.
Latest(x, t) == IF t > x THEN t ELSE x
Advanced(x) == [x EXCEPT !.epoch = @ + 1, !.held = 0, !.doubt = {}]
\* A closing Workbench outranks all it began: the epoch of its request says.
Recovered(x, q, t) ==
  [Advanced(x) EXCEPT !.recovered = Latest(@, IF t = Closer THEN q.epoch ELSE t)]

Enters(r, q) == r.life = "running" /\ q.epoch = r.epoch

\* What request q of thread t does to the runtime r it is for, with a reply.
Effects(r, q, t) ==
  IF q.act \in Entries
  THEN {<<r, "rejected">>, <<r, "lost">>} \cup
       IF Enters(r, q) THEN {<<[r EXCEPT !.held = t], "running">>} ELSE {}
  ELSE {<<Recovered(r, q, t), "lost">>,
        IF q.act = "stop" THEN <<[Recovered(r, q, t) EXCEPT !.life = "stopped"], "stopped">>
        ELSE <<Recovered(r, q, t), IF r.life = "running" THEN "running" ELSE "lost">>}

Awaited(t) == wb.up /\ th[t].pc = "reply"

\* Another process on the port refuses the run id.
Serve(t) ==
  LET q == wire[t]
      Reply(answer) ==
        wire' = [wire EXCEPT ![t] = IF Awaited(t) THEN [q EXCEPT !.reply = answer]
                                                  ELSE NoRequest]
  IN  /\ q # NoRequest /\ q.reply = "none"
      /\ \/ /\ Listening(q.run)
            /\ \E e \in Effects(rt[q.run], q, t) :
                 rt' = [rt EXCEPT ![q.run] = e[1]] /\ Reply(e[2])
         \/ ~Listening(q.run) /\ Reply("lost") /\ UNCHANGED rt
      /\ UNCHANGED <<wb, disk, th, sender, bounds>>

\* Human or Stop in the game's own interface.
OtherRecovers(r) ==
  /\ others < MaxOthers /\ rt[r].life = "running"
  /\ others' = others + 1
  /\ \E life \in {"running", "stopped"} :
       rt' = [rt EXCEPT ![r] = [Advanced(@) EXCEPT !.life = life]]
  /\ UNCHANGED <<wb, disk, th, sender, wire, ops, faults>>

-----------------------------------------------------------------------------
Step(t) ==
  \/ HandleError(t) \/ Save(t) \/ Task(t) \/ Probe(t) \/ Launch(t) \/ Load(t)
  \/ Abandon(t) \/ Cancel(t) \/ Observe(t) \/ Bind(t) \/ PrepareGame(t) \/ Send(t)
  \/ Receive(t) \/ TimeOut(t) \/ Settle(t) \/ Kill(t) \/ Handoff(t) \/ Identify(t)
  \/ Adopt(t)

Closes == CloserReply \/ Kill(Closer) \/ Leave \/ Exit

Person ==
  \/ Prepare \/ Start \/ (\E act \in {"auto", "one_step"} : Enter(act))
  \/ (\E act \in {"human", "stop"} : Recover(act)) \/ Close \/ Open

Next ==
  \/ \E t \in Ops : Step(t) \/ CrashInLaunch(t)
  \/ Closes \/ Person \/ ObserveStop \/ Poll \/ Crash
  \/ \E r \in Runs : Ready(r) \/ Dies(r) \/ Ends(r) \/ OtherRecovers(r)
  \/ \E t \in Threads : Serve(t)

Spec == Init /\ [][Next]_vars

\* The threads of a running Workbench are scheduled, and their waits end.
Fairness == \A t \in Ops : WF_vars(Step(t))
FairSpec == Spec /\ Fairness

-----------------------------------------------------------------------------
(* Properties.                                                             *)

\* Memory, session, threads, requests and runtimes stay in their domains.
TypeOK ==
  /\ wb \in Memory /\ disk \in Session
  /\ th \in [Threads -> Thread]
  /\ sender \in Threads
  /\ wire \in [Threads -> Request \cup {NoRequest}]
  /\ rt \in [Runs -> Runtime]
  /\ ops \in 0..MaxOps /\ faults \in 0..MaxFaults /\ others \in 0..MaxOthers

\* After a runtime applied a Human or a Stop of the Workbench, no command the
\* person gave before lets the model act: neither one that was waiting for
\* its turn or its reply, nor one that was still on its way.
HumanFences == \A r \in Runs : rt[r].held # 0 => rt[r].held > rt[r].recovered

\* While the outcome of a command is unknown, no later command lets the model
\* act, also in the next Workbench: a Human or a Stop is applied first.
UncertainFenced ==
  [][\A r \in Runs : rt'[r].held \notin {0, rt[r].held}
       => rt[r].doubt \subseteq {rt'[r].held}]_vars

\* A start, a command or a Human whose answer comes after a newer operation
\* began changes nothing of what that one reports.
LateRepliesHarmless ==
  [][\A t \in Ops :
       /\ wb'.up /\ th'[t] # th[t] /\ wb.op # t
       /\ th[t].act \in Entries \cup {"start", "human"}
       => /\ wb'.status = wb.status /\ wb'.loaded = wb.loaded
          /\ wb'.client = wb.client]_vars

\* Every operation ends, also those that wait for another to be answered.
OperationsEnd == []<>(\A t \in Ops : ~Running(t))

\* A session that must be recovered names the runtime to recover.
SessionNamesRuntime == wb.up /\ wb.status = "recovery_required" => wb.prev # Unnamed

-----------------------------------------------------------------------------
(* The inductive invariant behind HumanFences.                             *)

Recoveries == {"human", "stop"}
Asking == {"observe", "environment", "prepare", "send", "reply", "identify"}
Bound  == {"prepare", "send", "reply"}
Asks(t, acts) == th[t].pc \in Asking /\ th[t].act \in acts

\* Operations are numbered as they begin, and a command carries its own number
\* as the intent it was given under.
NumbersOK ==
  /\ \A t \in Ops : t > ops => th[t].pc = "none" /\ wire[t] = NoRequest
  /\ \A t \in Ops : th[t].pc \in Asking =>
       /\ th[t].act \in Entries \cup Recoveries /\ th[t].intent = t
       /\ IF th[t].pc = "identify" THEN th[t].act \in Recoveries
                                   ELSE th[t].run \in Runs
  /\ \A t \in Ops : th[t].pc = "environment" => th[t].act \in Entries
  /\ wire[Closer].act \in {"none", "stop"} /\ wire[Closer].epoch <= ops
  /\ \A r \in Runs : rt[r].recovered <= ops
  /\ ~wb.up => \A t \in Ops : th[t].pc \in {"none", "done"}

\* No recovery, applied or on its way, is newer than the command that still
\* holds the current intent.
CurrentOK ==
  \A t \in Ops : Asks(t, Entries) /\ ~Superseded(t) =>
    /\ \A r \in Runs : rt[r].recovered < t
    /\ \A u \in Ops : wire[u].act \in Recoveries => u < t
    /\ wire[Closer].epoch < t

\* An epoch that is still the runtime's was read after its last recovery.
Binds(t, r, e) == /\ e <= rt[r].epoch
                  /\ e = rt[r].epoch => rt[r].recovered < t
BoundOK ==
  \A t \in Ops :
    /\ Asks(t, Entries) /\ th[t].pc \in Bound
         => Binds(t, th[t].run, th[t].epoch)
    /\ wire[t].act \in Entries => Binds(t, wire[t].run, wire[t].epoch)

\* The parts together are preserved by every step.
FenceInv == TypeOK /\ NumbersOK /\ CurrentOK /\ BoundOK /\ HumanFences

-----------------------------------------------------------------------------
(* The inductive invariant behind LateRepliesHarmless and UncertainFenced.  *)

\* Only the thread of the latest operation may still be current, and only a
\* stop that asked for it goes through the end of a runtime.
Working == Pending \ {"error", "save"}
OrderOK ==
  /\ wb.up => wb.last = wb.op
  /\ wb.op <= ops /\ wb.intent <= ops
  /\ \A t \in Ops :
       /\ t > ops => th[t] = NoThread
       /\ th[t].intent <= ops
       /\ th[t].pc = "task" => th[t].act = "task"
       /\ th[t].pc = "prepare" => th[t].act \in Entries
       /\ th[t].pc = "kill" => th[t].act = "stop"
       /\ th[t].pc = "handoff" => th[t].act = "stop" \/ th[t].code = "stopped"
       /\ th[t].pc \in Working /\ th[t].intent = wb.intent => t = wb.op

\* A runtime that somebody names was launched, and a thread that waits for an
\* answer waits for that to its own request.
NamesOK ==
  /\ wb.client # NoRun => rt[wb.client].life # "none"
  /\ \A t \in Ops : th[t].run # NoRun => rt[th[t].run].life # "none"
  /\ \A t \in Ops : th[t].pc = "reply" =>
       wire[t].run = th[t].run /\ wire[t].act = th[t].act

\* Commands for runtime r that no recovery has overtaken, of known outcome or not.
Unsettled(r) ==
  {u \in Ops : \/ u \in rt[r].doubt
               \/ /\ Asks(u, Entries) /\ th[u].run = r
                  /\ u > rt[r].recovered}

\* A request that the runtime would still accept is unsettled; a recovery that
\* was answered was applied.
AnswersOK ==
  /\ \A r \in Runs : /\ rt[r].life = "none" => Unsettled(r) = {}
                     /\ \A u \in rt[r].doubt : /\ u > rt[r].recovered /\ u <= ops
                                               /\ ~Asks(u, Entries)
  /\ \A u \in Ops :
       /\ wire[u].act \in Entries /\ wire[u].epoch = rt[wire[u].run].epoch
          => th[u].pc = "reply" \/ u \in rt[wire[u].run].doubt
       /\ wire[u].act \in Recoveries =>
            /\ wire[u].reply # "rejected"
            /\ wire[u].reply \in {"running", "stopped"} =>
                 rt[wire[u].run].recovered >= u

\* What the current thread waits for has nothing unsettled.
Received(t) == th[t].pc = "await" \/ (th[t].pc = "adopt" /\ th[t].code # "stopped")
ReadyOK ==
  \A t \in Ops : Received(t) /\ ~Superseded(t) /\ th[t].run # NoRun
                   => Unsettled(th[t].run) = {}

\* The loaded runtime is open to a command only when nothing is unsettled: the
\* latest operation is still asking, or has left the status shut.
Shut == wb.status \in {"command_unknown", "recovery_required"}
Shutting(w) ==
  \/ /\ Asks(w, Entries \cup Recoveries) /\ th[w].pc # "identify"
     /\ wb.intent = w /\ th[w].run = wb.client
  \/ th[w].pc = "error" /\ th[w].code # "rejected"
  \/ th[w].pc \in {"none", "save", "done"} /\ Shut
Uncertain == /\ wb.up /\ ~wb.closed /\ wb.loaded /\ wb.client # NoRun
             /\ Unsettled(wb.client) # {}
ShutOK == Uncertain => wb.op \in Ops /\ Shutting(wb.op)

\* One command at a time is unsettled, and none is newer than the intent.
OneUnsettled == \A r \in Runs : \A u, t \in Unsettled(r) : u = t
NewestOK == wb.up /\ wb.intent # 0 =>
              \A r \in Runs : \A u \in Unsettled(r) : u <= wb.intent

DoubtInv == /\ FenceInv /\ OrderOK /\ NamesOK /\ AnswersOK /\ ReadyOK /\ ShutOK
            /\ OneUnsettled /\ NewestOK
=============================================================================
