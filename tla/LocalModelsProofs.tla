-------------------------- MODULE LocalModelsProofs --------------------------
(* FenceInv is inductive: a Human or a Stop of the Workbench fences every   *)
(* earlier command, for any number of runtimes, operations and faults.      *)
(* DoubtInv strengthens it: a command of unknown outcome is the only one    *)
(* that its runtime may take before a recovery, and what arrives late does  *)
(* not change what the Workbench reports.                                   *)
EXTENDS LocalModels, TLAPS

-----------------------------------------------------------------------------
(* Records: what the updates of the actions keep.                          *)

Codes == {"none", "unknown", "rejected", "other", "stopped"}
Acts  == {"none", "start", "task", "human", "stop", "cancel", "close"}
           \cup Entries

LEMMA ConstantFacts ==
  /\ NoRun \notin Runs /\ Unnamed \notin Runs /\ NoRun # Unnamed
  /\ MaxOps \in Nat
  /\ Closer \in Threads /\ Ops \subseteq Threads /\ Threads \subseteq Nat
  /\ \A t \in Ops : t \in Nat /\ t >= 1 /\ t <= MaxOps
  /\ \A n \in Nat : n < MaxOps => n + 1 \in Ops
  /\ \A n \in 0..MaxOps : n \in Threads
  BY RunsAreNamed, BoundsAreNat DEF Closer, Threads, Ops

\* Memory v is that of w for the same person, who asks for nothing new.
SameMind(w, v) ==
  v \in Memory /\ v.intent = w.intent /\ v.closed = w.closed /\ v.up = w.up

LEMMA MemoryStatus ==
  ASSUME NEW w \in Memory, NEW s \in Statuses
  PROVE  /\ SameMind(w, w)
         /\ SameMind(w, [w EXCEPT !.status = s])
         /\ SameMind(w, [w EXCEPT !.status = s, !.loaded = FALSE])
  BY DEF Memory, SameMind

LEMMA MemoryNumbers ==
  ASSUME NEW w \in Memory, NEW o \in Threads
  PROVE  /\ SameMind(w, [w EXCEPT !.op = o, !.last = o])
         /\ [w EXCEPT !.intent = o] \in Memory
         /\ [w EXCEPT !.closed = TRUE] \in Memory
  BY DEF Memory, SameMind

LEMMA MemoryRuns ==
  ASSUME NEW w \in Memory, NEW r \in Runs \cup {NoRun}
  PROVE  /\ SameMind(w, [w EXCEPT !.process = r, !.status = "loading",
                                  !.loaded = FALSE])
         /\ SameMind(w, [w EXCEPT !.client = r, !.status = "loaded",
                                  !.loaded = TRUE, !.startup = r])
         /\ SameMind(w, [w EXCEPT !.client = r, !.loaded = TRUE, !.startup = r,
                                  !.prev = NoRun, !.status = "loaded"])
         /\ SameMind(w, [w EXCEPT !.client = NoRun, !.loaded = FALSE,
                         !.startup = r, !.prev = NoRun, !.status = "stopped"])
  BY DEF Memory, Statuses, SameMind

LEMMA MemoryStopped ==
  ASSUME NEW w \in Memory
  PROVE  /\ SameMind(w, Stopped(w))
         /\ SameMind(w, [w EXCEPT !.client = NoRun, !.status = "stopped",
                                  !.loaded = FALSE])
         /\ SameMind(w, [Stopped(w) EXCEPT !.status = "command_unknown"])
         /\ Saved(w) \in Session
<1>1. Saved(w) \in Session
  BY DEF Memory, Saved, Session
<1>2. SameMind(w, [w EXCEPT !.client = NoRun, !.status = "stopped",
                           !.loaded = FALSE])
  BY DEF Memory, Statuses, SameMind
<1>3. SameMind(w, Stopped(w))
  BY DEF Memory, Statuses, Stopped, SameMind
<1>4. SameMind(w, [Stopped(w) EXCEPT !.status = "command_unknown"])
  <2>1. "command_unknown" \in Statuses
    BY DEF Statuses
  <2>2. ASSUME NEW v, SameMind(w, v)
        PROVE  SameMind(w, [v EXCEPT !.status = "command_unknown"])
    BY <2>1, <2>2 DEF Memory, SameMind
  <2> QED BY <1>3, <2>2
<1> QED BY <1>1, <1>2, <1>3, <1>4

LEMMA OpenedType ==
  ASSUME NEW s \in Session
  PROVE  /\ Opened(s) \in Memory
         /\ [Opened(s) EXCEPT !.up = FALSE] \in Memory
  BY ConstantFacts, 0 \in Threads DEF Memory, Session, Statuses, Opened, Threads, Closer

LEMMA FailedStatus ==
  ASSUME NEW w \in Memory, NEW code \in Codes
  PROVE  Failed(w, code) \in Statuses
  BY DEF Failed, Statuses

LEMMA NoThreadType == NoThread \in Thread /\ Done \in Thread
  BY ConstantFacts, 0 \in Threads DEF Thread, NoThread, Done, Threads, Closer

LEMMA ThreadAt ==
  ASSUME NEW x \in Thread, NEW pc \in Pending
  PROVE  [x EXCEPT !.pc = pc] \in Thread
  BY DEF Thread

LEMMA ThreadFails ==
  ASSUME NEW a \in Acts, NEW code \in Codes
  PROVE  [NoThread EXCEPT !.pc = "error", !.act = a, !.code = code] \in Thread
  BY NoThreadType, "error" \in Pending DEF Thread, Acts, Codes, Pending

LEMMA ThreadGoes ==
  ASSUME NEW t \in Threads, th \in [Threads -> Thread], NEW pc \in Pending,
         Goto(t, pc)
  PROVE  /\ th' \in [Threads -> Thread]
         /\ th'[t] = [th[t] EXCEPT !.pc = pc]
         /\ \A u \in Threads \ {t} : th'[u] = th[u]
<1>1. th[t] \in Thread
  OBVIOUS
<1>2. [th[t] EXCEPT !.pc = pc] \in Thread
  BY <1>1, ThreadAt
<1> QED BY <1>1, <1>2 DEF Goto

LEMMA ThreadRaises ==
  ASSUME NEW t \in Threads, th \in [Threads -> Thread], NEW code \in Codes,
         Raise(t, code)
  PROVE  /\ th' \in [Threads -> Thread]
         /\ th'[t].pc = "error" /\ th'[t].act = th[t].act
         /\ \A u \in Threads \ {t} : th'[u] = th[u]
<1> DEFINE x == [NoThread EXCEPT !.pc = "error", !.act = th[t].act,
                                 !.code = code]
<1>1. th[t] \in Thread /\ th[t].act \in Acts
  BY DEF Thread, Acts
<1>2. x \in Thread
  BY <1>1, ThreadFails
<1>3. x.pc = "error" /\ x.act = th[t].act
  BY DEF NoThread
<1>4. th' = [th EXCEPT ![t] = x]
  BY DEF Raise
<1> HIDE DEF x
<1> QED BY <1>2, <1>3, <1>4

-----------------------------------------------------------------------------
(* Runtimes and requests.                                                  *)

\* What HumanFences and the commands on their way depend on.
SameFences(x) ==
  \A r \in Runs : /\ x[r].epoch = rt[r].epoch /\ x[r].held = rt[r].held
                  /\ x[r].recovered = rt[r].recovered

LEMMA LifeChanges ==
  ASSUME rt \in [Runs -> Runtime], NEW r \in Runs,
         NEW life \in {"starting", "running", "stopped", "gone"}
  PROVE  LET x == [rt EXCEPT ![r].life = life]
         IN  x \in [Runs -> Runtime] /\ SameFences(x)
<1>1. rt[r] \in Runtime
  OBVIOUS
<1>2. [rt[r] EXCEPT !.life = life] \in Runtime
  BY <1>1 DEF Runtime
<1> QED BY <1>1, <1>2 DEF SameFences, Runtime

LEMMA GoneType ==
  ASSUME rt \in [Runs -> Runtime], NEW r \in Runs \cup {NoRun}
  PROVE  Gone(r, rt) \in [Runs -> Runtime] /\ SameFences(Gone(r, rt))
<1>1. CASE r = NoRun
  BY <1>1 DEF Gone, SameFences
<1>2. CASE r # NoRun
  BY <1>2, LifeChanges DEF Gone
<1> QED BY <1>1, <1>2

LEMMA DoubtedType ==
  ASSUME rt \in [Runs -> Runtime], NEW ts \in SUBSET Ops
  PROVE  Doubted(ts) \in [Runs -> Runtime] /\ SameFences(Doubted(ts))
<1> DEFINE d(r) == {t \in ts : /\ th[t].pc = "reply" /\ wire[t].act \in Entries
                               /\ wire[t].run = r /\ wire[t].reply # "rejected"
                               /\ t > rt[r].recovered}
           y(r) == [rt[r] EXCEPT !.doubt = @ \cup d(r)]
<1>1. \A r \in Runs : d(r) \in SUBSET Ops
  OBVIOUS
<1>2. ASSUME NEW r \in Runs
      PROVE  /\ y(r) \in Runtime /\ y(r).epoch = rt[r].epoch
             /\ y(r).held = rt[r].held /\ y(r).recovered = rt[r].recovered
  <2> DEFINE e == d(r)
  <2>1. e \in SUBSET Ops /\ rt[r] \in Runtime
    BY <1>1
  <2> HIDE DEF d
  <2> HIDE DEF e
  <2>2. rt[r].doubt \cup e \in SUBSET Ops
    BY <2>1 DEF Runtime
  <2> QED BY <2>1, <2>2 DEF Runtime, e
<1>3. Doubted(ts) = [r \in Runs |-> y(r)]
  BY DEF Doubted
<1> HIDE DEF y, d
<1> QED BY <1>2, <1>3 DEF SameFences

\* A request stays what it is, or is over.
WireKept ==
  \A t \in Threads : \/ wire'[t] = NoRequest
                     \/ /\ wire[t] # NoRequest
                        /\ wire'[t].run = wire[t].run
                        /\ wire'[t].act = wire[t].act
                        /\ wire'[t].epoch = wire[t].epoch

LEMMA WireSame ==
  ASSUME UNCHANGED wire
  PROVE  WireKept
  BY DEF WireKept

LEMMA RequestOver ==
  ASSUME TypeOK, NEW t \in Threads,
         \/ wire' = [wire EXCEPT ![t] = NoRequest]
         \/ wire' = [wire EXCEPT ![t] = IF @.reply = "none" THEN @ ELSE NoRequest]
  PROVE  wire' \in [Threads -> Request \cup {NoRequest}] /\ WireKept
<1>1. wire \in [Threads -> Request \cup {NoRequest}]
  BY DEF TypeOK
<1>2. wire'[t] \in {wire[t], NoRequest} /\ \A u \in Threads \ {t} : wire'[u] = wire[u]
  BY <1>1
<1>3. wire' \in [Threads -> Request \cup {NoRequest}]
  BY <1>1
<1> QED BY <1>2, <1>3 DEF WireKept

-----------------------------------------------------------------------------
(* Steps that ask nothing new of a runtime.                                *)

Told == Entries \cup Recoveries

\* Thread t asks only what it asked before.
Calm(t) ==
  /\ th[t].pc = "none" => th'[t].pc = "none"
  /\ th'[t].pc \in Asking =>
       /\ th[t].pc \in Asking /\ th'[t].intent = th[t].intent
       /\ th'[t].act \in Told
       /\ IF th'[t].pc = "identify" THEN th'[t].act \in Recoveries
                                    ELSE th'[t].run \in Runs
       /\ th'[t].pc = "environment" => th'[t].act \in Entries
       /\ th'[t].act \in Entries =>
            /\ th[t].act \in Entries
            /\ th'[t].run = th[t].run /\ th'[t].epoch = th[t].epoch
            /\ th'[t].pc \in Bound => th[t].pc \in Bound

ThreadsCalm == \A t \in Ops : Calm(t)

Quiet ==
  /\ ThreadsCalm /\ WireKept /\ SameFences(rt') /\ ops' = ops
  /\ \A t \in Ops : th'[t].pc \in Asking /\ th'[t].act \in Entries =>
       wb'.intent = wb.intent /\ (wb.closed => wb'.closed)
  /\ wb'.up \/ \A t \in Ops : th'[t].pc \in {"none", "done"}

LEMMA EntriesNameRuns ==
  ASSUME NumbersOK, NEW t \in Ops, Asks(t, Entries)
  PROVE  th[t].run \in Runs /\ th[t].pc # "identify" /\ th[t].intent = t
<1>1. Entries \cap Recoveries = {}
  BY DEF Entries, Recoveries
<1> QED BY <1>1 DEF NumbersOK, Asks

LEMMA OthersCalm ==
  ASSUME TypeOK, NumbersOK, NEW u \in Ops, th'[u] = th[u]
  PROVE  Calm(u)
  BY DEF NumbersOK, Calm, Asks, Told

LEMMA GoesCalm ==
  ASSUME TypeOK, NumbersOK, NEW t \in Threads, NEW pc \in Pending, Goto(t, pc),
         th[t].pc # "none",
         pc \in Asking => /\ th[t].pc \in Asking
                          /\ th[t].act \in Entries => th[t].pc \in Bound \/ pc \notin Bound
                          /\ pc # "identify" /\ th[t].pc # "identify"
                          /\ pc = "environment" => th[t].act \in Entries
  PROVE  th' \in [Threads -> Thread] /\ ThreadsCalm
<1>1. th \in [Threads -> Thread]
  BY DEF TypeOK
<1>2. /\ th' \in [Threads -> Thread] /\ th'[t] = [th[t] EXCEPT !.pc = pc]
      /\ \A u \in Threads \ {t} : th'[u] = th[u]
  BY <1>1, ThreadGoes
<1>3. /\ th'[t].pc = pc /\ th'[t].act = th[t].act /\ th'[t].run = th[t].run
      /\ th'[t].epoch = th[t].epoch /\ th'[t].intent = th[t].intent
  BY <1>1, <1>2 DEF Thread
<1>4. t \in Ops => Calm(t)
  BY <1>3 DEF Calm, Told, NumbersOK
<1>5. ASSUME NEW u \in Ops PROVE Calm(u)
  <2>1. CASE u = t
    BY <2>1, <1>4
  <2>2. CASE u # t
    BY <2>2, <1>2, OthersCalm, ConstantFacts
  <2> QED BY <2>1, <2>2
<1> QED BY <1>2, <1>5 DEF ThreadsCalm

LEMMA RaisesCalm ==
  ASSUME TypeOK, NumbersOK, NEW t \in Threads, NEW code \in Codes,
         Raise(t, code), th[t].pc # "none"
  PROVE  th' \in [Threads -> Thread] /\ ThreadsCalm
<1>1. th \in [Threads -> Thread]
  BY DEF TypeOK
<1>2. /\ th' \in [Threads -> Thread] /\ th'[t].pc = "error"
      /\ \A u \in Threads \ {t} : th'[u] = th[u]
  BY <1>1, ThreadRaises
<1>3. Calm(t)
  BY <1>2 DEF Calm, Asking
<1>4. ASSUME NEW u \in Ops PROVE Calm(u)
  <2>1. CASE u = t
    BY <2>1, <1>3
  <2>2. CASE u # t
    BY <2>2, <1>2, OthersCalm, ConstantFacts
  <2> QED BY <2>1, <2>2
<1> QED BY <1>2, <1>4 DEF ThreadsCalm

-----------------------------------------------------------------------------
(* The actions that keep the domains and ask nothing new.                  *)

Kept == TypeOK' /\ Quiet

LEMMA Keeps ==
  ASSUME TypeOK, wb.up, SameMind(wb, wb'), disk' \in Session,
         th' \in [Threads -> Thread], ThreadsCalm, sender' \in Threads,
         wire' \in [Threads -> Request \cup {NoRequest}], WireKept,
         rt' \in [Runs -> Runtime], SameFences(rt'), UNCHANGED bounds
  PROVE  Kept
<1>1. UNCHANGED <<ops, faults, others>>
  BY DEF bounds
<1>2. TypeOK'
  BY <1>1, Zenon DEF TypeOK, SameMind
<1>3. wb'.intent = wb.intent /\ wb'.closed = wb.closed /\ wb'.up
  BY DEF SameMind
<1>4. Quiet
  BY <1>1, <1>3 DEF Quiet
<1> QED BY <1>2, <1>4 DEF Kept

LEMMA Domains ==
  ASSUME TypeOK
  PROVE  /\ wb \in Memory /\ disk \in Session /\ th \in [Threads -> Thread]
         /\ sender \in Threads /\ rt \in [Runs -> Runtime]
         /\ wire \in [Threads -> Request \cup {NoRequest}]
         /\ SameMind(wb, wb) /\ SameFences(rt) /\ 0 \in Threads
         /\ \A t \in Threads : th[t] \in Thread
<1>1. 0 \in Threads
  BY DEF Threads, Closer
<1>2. wb.status \in Statuses /\ wb \in Memory
  BY DEF TypeOK, Memory
<1> QED BY <1>1, <1>2, MemoryStatus DEF TypeOK, SameFences

LEMMA HandleErrorKept ==
  ASSUME TypeOK, NumbersOK, NEW t \in Ops, HandleError(t)
  PROVE  Kept
<1>1. t \in Threads /\ wb.up /\ th[t].pc = "error" /\ th[t] \in Thread
  BY Domains, ConstantFacts DEF HandleError, At
<1>2. th[t].code \in Codes
  BY <1>1 DEF Thread, Codes
<1>3. th' \in [Threads -> Thread] /\ ThreadsCalm
  BY <1>1, GoesCalm, "save" \in Pending, "save" \notin Asking
     DEF HandleError, Pending, Asking
<1>4. SameMind(wb, wb')
  BY <1>2, Domains, FailedStatus, MemoryStatus DEF HandleError
<1> QED BY <1>1, <1>3, <1>4, Keeps, Domains, WireSame DEF HandleError

LEMMA SaveKept ==
  ASSUME TypeOK, NumbersOK, NEW t \in Ops, Save(t)
  PROVE  Kept
<1>1. t \in Threads /\ wb.up /\ th[t].pc = "save" /\ Done.pc = "done"
  BY ConstantFacts DEF Save, At, Done, NoThread
<1>2. th' \in [Threads -> Thread] /\ th'[t] = Done
      /\ \A u \in Threads \ {t} : th'[u] = th[u]
  BY <1>1, Domains, NoThreadType DEF Save
<1>3. Calm(t)
  BY <1>1, <1>2 DEF Calm, Asking
<1>4. ThreadsCalm
  BY <1>2, <1>3, OthersCalm, ConstantFacts DEF ThreadsCalm
<1>5. disk' \in Session
  BY Domains, MemoryStopped DEF Save
<1> QED BY <1>1, <1>2, <1>4, <1>5, Keeps, Domains, WireSame DEF Save

\* The threads after a step that takes thread t on, or makes it fail.
LEMMA ThreadsMove ==
  ASSUME TypeOK, NumbersOK, NEW t \in Threads, th[t].pc # "none",
         \/ \E pc \in Pending \ Asking : Goto(t, pc)
         \/ \E code \in Codes : Raise(t, code)
  PROVE  th' \in [Threads -> Thread] /\ ThreadsCalm
  BY GoesCalm, RaisesCalm

LEMMA Endings ==
  /\ {"launch", "adopt", "settle", "kill", "handoff", "leave", "exit", "error",
      "save"} \subseteq Pending \ Asking
  /\ {"unknown", "rejected", "other"} \subseteq Codes
  BY DEF Pending, Asking, Codes

LEMMA TaskKept ==
  ASSUME TypeOK, NumbersOK, NEW t \in Ops, Task(t)
  PROVE  Kept
<1>1. t \in Threads /\ wb.up /\ th[t].pc # "none" /\ "idle" \in Statuses
  BY ConstantFacts DEF Task, At, Statuses
<1>2. th' \in [Threads -> Thread] /\ ThreadsCalm
  BY <1>1, ThreadsMove, Endings DEF Task
<1>3. SameMind(wb, wb')
  BY <1>1, Domains, MemoryStatus DEF Task
<1> QED BY <1>1, <1>2, <1>3, Keeps, Domains, WireSame DEF Task

LEMMA ProbeKept ==
  ASSUME TypeOK, NumbersOK, NEW t \in Ops, Probe(t)
  PROVE  Kept
<1>1. t \in Threads /\ wb.up /\ th[t].pc # "none"
  BY ConstantFacts DEF Probe, At
<1>2. th' \in [Threads -> Thread] /\ ThreadsCalm
  BY <1>1, ThreadsMove, Endings DEF Probe
<1> QED BY <1>1, <1>2, Keeps, Domains, WireSame DEF Probe

LEMMA NextRunType ==
  ASSUME \E r \in Runs : rt[r].life = "none"
  PROVE  NextRun \in Runs
  BY DEF NextRun

LEMMA LaunchKept ==
  ASSUME TypeOK, NumbersOK, NEW t \in Ops, Launch(t)
  PROVE  Kept
<1>1. t \in Threads /\ wb.up /\ th[t].pc # "none" /\ th[t] \in Thread
  BY Domains, ConstantFacts DEF Launch, At
<1>2. CASE Raise(t, "other") /\ UNCHANGED <<wb, disk, rt>>
  <2>1. th' \in [Threads -> Thread] /\ ThreadsCalm
    BY <1>1, <1>2, ThreadsMove, Endings
  <2> QED BY <1>1, <1>2, <2>1, Keeps, Domains, WireSame DEF Launch
<1>3. CASE /\ \E r \in Runs : rt[r].life = "none"
           /\ rt' = [rt EXCEPT ![NextRun].life = "starting"]
           /\ wb' = [wb EXCEPT !.process = NextRun, !.status = "loading",
                               !.loaded = FALSE]
           /\ disk' = Saved(wb')
           /\ th' = [th EXCEPT ![t].pc = "await", ![t].run = NextRun]
  <2>1. NextRun \in Runs
    BY <1>3, NextRunType
  <2>2. rt' \in [Runs -> Runtime] /\ SameFences(rt')
    BY <1>3, <2>1, Domains, LifeChanges
  <2>3. SameMind(wb, wb') /\ disk' \in Session
    <3>1. SameMind(wb, wb')
      BY <1>3, <2>1, Domains, MemoryRuns
    <3>2. wb' \in Memory /\ disk' = Saved(wb')
      BY <1>3, <3>1 DEF SameMind
    <3> QED BY <3>1, <3>2, MemoryStopped
  <2>4. th' \in [Threads -> Thread] /\ ThreadsCalm
    <3> DEFINE x == [th[t] EXCEPT !.pc = "await", !.run = NextRun]
    <3>1. x \in Thread /\ x.pc = "await"
      BY <1>1, <2>1 DEF Thread, Pending
    <3>2. th' = [th EXCEPT ![t] = x]
      BY <1>3
    <3> HIDE DEF x
    <3>3. th' \in [Threads -> Thread] /\ th'[t].pc = "await"
          /\ \A u \in Threads \ {t} : th'[u] = th[u]
      BY <1>1, <3>1, <3>2, Domains
    <3>4. Calm(t)
      BY <1>1, <3>3 DEF Calm, Asking
    <3> QED BY <3>3, <3>4, OthersCalm, ConstantFacts DEF ThreadsCalm
  <2> QED BY <1>1, <1>3, <2>2, <2>3, <2>4, Keeps, Domains, WireSame DEF Launch
<1> QED BY <1>2, <1>3 DEF Launch

LEMMA LoadKept ==
  ASSUME TypeOK, NumbersOK, NEW t \in Ops, Load(t)
  PROVE  Kept
<1>1. t \in Threads /\ wb.up /\ th[t].pc # "none" /\ th[t] \in Thread
  BY Domains, ConstantFacts DEF Load, At
<1>2. th' \in [Threads -> Thread] /\ ThreadsCalm
  BY <1>1, ThreadsMove, Endings DEF Load
<1>3. th[t].run \in Runs \cup {NoRun}
  BY <1>1 DEF Thread
<1>4. SameMind(wb, wb')
  BY <1>3, Domains, MemoryRuns DEF Load
<1> QED BY <1>1, <1>2, <1>4, Keeps, Domains, WireSame DEF Load

LEMMA AbandonKept ==
  ASSUME TypeOK, NumbersOK, NEW t \in Ops, Abandon(t)
  PROVE  Kept
<1>1. t \in Threads /\ wb.up /\ th[t].pc # "none" /\ th[t].run \in Runs \cup {NoRun}
  BY Domains, ConstantFacts DEF Abandon, At, Thread
<1>2. th' \in [Threads -> Thread] /\ ThreadsCalm
  BY <1>1, ThreadsMove, Endings DEF Abandon
<1>3. rt' \in [Runs -> Runtime] /\ SameFences(rt')
  BY <1>1, Domains, GoneType DEF Abandon
<1> QED BY <1>1, <1>2, <1>3, Keeps, Domains, WireSame DEF Abandon

LEMMA CancelKept ==
  ASSUME TypeOK, NumbersOK, NEW t \in Ops, Cancel(t)
  PROVE  Kept
<1>1. t \in Threads /\ wb.up /\ th[t].pc # "none" /\ wb.process \in Runs \cup {NoRun}
  BY Domains, ConstantFacts DEF Cancel, At, Memory
<1>2. th' \in [Threads -> Thread] /\ ThreadsCalm
  BY <1>1, ThreadsMove, Endings DEF Cancel
<1>3. rt' \in [Runs -> Runtime] /\ SameFences(rt')
  BY <1>1, Domains, GoneType DEF Cancel
<1>4. SameMind(wb, wb')
  BY Domains, MemoryStopped DEF Cancel
<1> QED BY <1>1, <1>2, <1>3, <1>4, Keeps, Domains, WireSame DEF Cancel

LEMMA ObserveKept ==
  ASSUME TypeOK, NumbersOK, NEW t \in Ops, Observe(t)
  PROVE  Kept
<1>1. t \in Threads /\ wb.up /\ th[t].pc = "observe"
  BY ConstantFacts DEF Observe, At
<1>2. th' \in [Threads -> Thread] /\ ThreadsCalm
  <2>1. CASE Raise(t, "other")
    BY <1>1, <2>1, ThreadsMove, Endings
  <2>2. CASE th[t].act \in Entries /\ Goto(t, "environment")
    BY <1>1, <2>2, GoesCalm DEF Pending, Asking, Bound
  <2>3. CASE th[t].act \notin Entries /\ Goto(t, "send")
    BY <1>1, <2>3, GoesCalm DEF Pending, Asking, Bound
  <2> QED BY <2>1, <2>2, <2>3 DEF Observe
<1> QED BY <1>1, <1>2, Keeps, Domains, WireSame DEF Observe

LEMMA PrepareGameKept ==
  ASSUME TypeOK, NumbersOK, NEW t \in Ops, PrepareGame(t)
  PROVE  Kept
<1>1. t \in Threads /\ wb.up /\ th[t].pc = "prepare"
  BY ConstantFacts DEF PrepareGame, At
<1>2. th' \in [Threads -> Thread] /\ ThreadsCalm
  <2>1. CASE \E code \in {"rejected", "unknown", "other"} : Raise(t, code)
    BY <1>1, <2>1, ThreadsMove, Endings
  <2>2. CASE Goto(t, "send")
    BY <1>1, <2>2, GoesCalm DEF Pending, Asking, Bound
  <2> QED BY <2>1, <2>2 DEF PrepareGame
<1> QED BY <1>1, <1>2, Keeps, Domains, WireSame DEF PrepareGame

LEMMA TimeOutKept ==
  ASSUME TypeOK, NumbersOK, NEW t \in Ops, TimeOut(t)
  PROVE  Kept
<1>1. t \in Threads /\ wb.up /\ th[t].pc # "none"
  BY ConstantFacts DEF TimeOut, At
<1>2. th' \in [Threads -> Thread] /\ ThreadsCalm
  BY <1>1, ThreadsMove, Endings DEF TimeOut
<1>3. wire' \in [Threads -> Request \cup {NoRequest}] /\ WireKept
  BY <1>1, RequestOver DEF TimeOut
<1>4. rt' \in [Runs -> Runtime] /\ SameFences(rt')
  BY Domains, DoubtedType, {t} \in SUBSET Ops DEF TimeOut
<1>5. sender' \in Threads
  BY Domains DEF TimeOut, Released
<1> QED BY <1>1, <1>2, <1>3, <1>4, <1>5, Keeps, Domains DEF TimeOut

LEMMA SettleKept ==
  ASSUME TypeOK, NumbersOK, NEW t \in Ops, Settle(t)
  PROVE  Kept
<1>1. t \in Threads /\ wb.up /\ th[t].pc # "none" /\ "loaded" \in Statuses
  BY ConstantFacts DEF Settle, At, Statuses
<1>2. th' \in [Threads -> Thread] /\ ThreadsCalm
  BY <1>1, ThreadsMove, Endings DEF Settle
<1>3. SameMind(wb, wb')
  BY <1>1, Domains, MemoryStatus DEF Settle
<1> QED BY <1>1, <1>2, <1>3, Keeps, Domains, WireSame DEF Settle

LEMMA KillKept ==
  ASSUME TypeOK, NumbersOK, NEW t \in Threads, Kill(t)
  PROVE  Kept
<1>1. wb.up /\ th[t].pc # "none" /\ wb.process \in Runs \cup {NoRun}
  BY Domains DEF Kill, At, Memory
<1>2. th' \in [Threads -> Thread] /\ ThreadsCalm
  BY <1>1, ThreadsMove, Endings DEF Kill
<1>3. rt' \in [Runs -> Runtime] /\ SameFences(rt')
  BY <1>1, Domains, GoneType DEF Kill
<1> QED BY <1>1, <1>2, <1>3, Keeps, Domains, WireSame DEF Kill

LEMMA HandoffKept ==
  ASSUME TypeOK, NumbersOK, NEW t \in Ops, Handoff(t)
  PROVE  Kept
<1>1. t \in Threads /\ wb.up /\ th[t].pc # "none"
  BY ConstantFacts DEF Handoff, At
<1>2. th' \in [Threads -> Thread] /\ ThreadsCalm
  BY <1>1, ThreadsMove, Endings DEF Handoff
<1>3. SameMind(wb, wb')
  BY Domains, MemoryStopped DEF Handoff
<1> QED BY <1>1, <1>2, <1>3, Keeps, Domains, WireSame DEF Handoff

LEMMA AdoptKept ==
  ASSUME TypeOK, NumbersOK, NEW t \in Ops, Adopt(t)
  PROVE  Kept
<1>1. t \in Threads /\ wb.up /\ th[t].pc # "none" /\ th[t].run \in Runs \cup {NoRun}
  BY Domains, ConstantFacts DEF Adopt, At, Thread
<1>2. th' \in [Threads -> Thread] /\ ThreadsCalm
  BY <1>1, ThreadsMove, Endings DEF Adopt
<1>3. SameMind(wb, wb')
  <2>1. CASE Superseded(t)
    BY <2>1, Domains DEF Adopt
  <2>2. CASE ~Superseded(t) /\ th[t].code = "stopped"
    <3>1. wb' = [wb EXCEPT !.client = NoRun, !.loaded = FALSE,
                   !.startup = th[t].run, !.prev = NoRun, !.status = "stopped"]
      BY <2>2 DEF Adopt
    <3> QED BY <1>1, <3>1, Domains, MemoryRuns
  <2>3. CASE ~Superseded(t) /\ th[t].code # "stopped"
    <3>1. wb' = [wb EXCEPT !.client = th[t].run, !.loaded = TRUE,
                   !.startup = th[t].run, !.prev = NoRun, !.status = "loaded"]
      BY <2>3 DEF Adopt
    <3> QED BY <1>1, <3>1, Domains, MemoryRuns
  <2> QED BY <2>1, <2>2, <2>3
<1> QED BY <1>1, <1>2, <1>3, Keeps, Domains, WireSame DEF Adopt

LEMMA Untouched ==
  ASSUME TypeOK, NumbersOK, UNCHANGED th
  PROVE  ThreadsCalm /\ th' \in [Threads -> Thread]
  BY OthersCalm, Domains DEF ThreadsCalm

LEMMA ObserveStopKept ==
  ASSUME TypeOK, NumbersOK, ObserveStop
  PROVE  Kept
<1>1. wb.up /\ wb.process \in Runs \cup {NoRun}
  BY Domains DEF ObserveStop, Memory
<1>2. th' \in [Threads -> Thread] /\ ThreadsCalm
  BY Untouched DEF ObserveStop
<1>3. rt' \in [Runs -> Runtime] /\ SameFences(rt')
  BY <1>1, Domains, GoneType DEF ObserveStop
<1>4. SameMind(wb, wb') /\ wb' \in Memory
  BY Domains, MemoryStopped DEF ObserveStop, SameMind
<1>5. disk' \in Session
  BY <1>4, MemoryStopped DEF ObserveStop
<1> QED BY <1>1, <1>2, <1>3, <1>4, <1>5, Keeps, Domains, WireSame DEF ObserveStop

LEMMA PollKept ==
  ASSUME TypeOK, NumbersOK, Poll
  PROVE  Kept
<1>1. wb.up /\ "runtime_exited" \in Statuses
  BY DEF Poll, Statuses
<1>2. th' \in [Threads -> Thread] /\ ThreadsCalm
  BY Untouched DEF Poll
<1>3. SameMind(wb, wb')
  BY <1>1, Domains, MemoryStatus DEF Poll
<1> QED BY <1>1, <1>2, <1>3, Keeps, Domains, WireSame DEF Poll

LEMMA LeaveKept ==
  ASSUME TypeOK, NumbersOK, Leave
  PROVE  Kept
<1>1. Closer \in Threads /\ wb.up /\ th[Closer].pc # "none"
  BY ConstantFacts DEF Leave, At
<1>2. th' \in [Threads -> Thread] /\ ThreadsCalm
  BY <1>1, ThreadsMove, Endings DEF Leave
<1>3. SameMind(wb, wb') /\ wb' \in Memory
  BY Domains, MemoryStopped DEF Leave, SameMind
<1>4. disk' \in Session
  BY <1>3, MemoryStopped DEF Leave
<1> QED BY <1>1, <1>2, <1>3, <1>4, Keeps, Domains, WireSame DEF Leave

LEMMA ThreadBecomes ==
  ASSUME TypeOK, NumbersOK, NEW t \in Threads, NEW x \in Thread,
         th' = [th EXCEPT ![t] = x]
  PROVE  /\ th' \in [Threads -> Thread] /\ th'[t] = x
         /\ \A u \in Threads \ {t} : th'[u] = th[u]
         /\ (t \in Ops => Calm(t)) => ThreadsCalm
<1>1. /\ th' \in [Threads -> Thread] /\ th'[t] = x
      /\ \A u \in Threads \ {t} : th'[u] = th[u]
  BY Domains
<1>2. (t \in Ops => Calm(t)) => ThreadsCalm
  BY <1>1, OthersCalm, ConstantFacts DEF ThreadsCalm
<1> QED BY <1>1, <1>2

LEMMA CloserReplyKept ==
  ASSUME TypeOK, NumbersOK, CloserReply
  PROVE  Kept
<1> DEFINE c == IF wire[Closer].reply = "stopped" THEN "stopped" ELSE "other"
           x == [th[Closer] EXCEPT !.pc = "kill", !.code = c]
<1>1. Closer \in Threads /\ wb.up /\ th[Closer] \in Thread /\ Closer \notin Ops
  BY ConstantFacts, Domains DEF CloserReply, At, Closer, Ops
<1>2. c \in {"stopped", "other"}
  OBVIOUS
<1>3. th' = [th EXCEPT ![Closer] = x]
  BY DEF CloserReply
<1> HIDE DEF c
<1>4. x \in Thread
  BY <1>1, <1>2 DEF Thread, Pending
<1> HIDE DEF x
<1>5. th' \in [Threads -> Thread] /\ ThreadsCalm
  BY <1>1, <1>3, <1>4, ThreadBecomes
<1>6. wire' \in [Threads -> Request \cup {NoRequest}] /\ WireKept
  BY <1>1, RequestOver DEF CloserReply
<1> QED BY <1>1, <1>5, <1>6, Keeps, Domains DEF CloserReply

LEMMA IdentifyKept ==
  ASSUME TypeOK, NumbersOK, NEW t \in Ops, Identify(t)
  PROVE  Kept
<1>1. /\ t \in Threads /\ wb.up /\ th[t].pc = "identify" /\ th[t] \in Thread
      /\ "identify" \in Asking
  BY ConstantFacts, Domains DEF Identify, At, Asking
<1>2. th' \in [Threads -> Thread] /\ ThreadsCalm
  <2>1. CASE Raise(t, "other") \/ Goto(t, "save")
    BY <1>1, <2>1, ThreadsMove, Endings
  <2>2. ASSUME NEW pc \in {"send", "adopt"}, NEW code \in {"none", "stopped"},
               wb.prev \in Runs,
               th' = [th EXCEPT ![t].run = wb.prev, ![t].pc = pc,
                                ![t].code = code]
        PROVE  th' \in [Threads -> Thread] /\ ThreadsCalm
    <3> DEFINE r == wb.prev
               x == [th[t] EXCEPT !.run = r, !.pc = pc, !.code = code]
    <3>1. r \in Runs
      BY <2>2
    <3>2. th' = [th EXCEPT ![t] = x]
      BY <2>2
    <3> HIDE DEF r
    <3>3. /\ x \in Thread /\ x.act = th[t].act /\ x.intent = th[t].intent
          /\ x.pc \notin {"environment", "identify"} /\ x.run \in Runs
      BY <1>1, <3>1 DEF Thread, Pending
    <3> HIDE DEF x
    <3>4. th' \in [Threads -> Thread] /\ th'[t] = x
      BY <1>1, <3>2, <3>3, ThreadBecomes
    <3>5. th[t].act \in Told \ Entries
      BY <1>1, EntriesNameRuns DEF NumbersOK, Asks, Told
    <3>6. Calm(t)
      BY <1>1, <3>3, <3>4, <3>5 DEF Calm
    <3> QED BY <1>1, <3>2, <3>3, <3>6, ThreadBecomes
  <2> QED BY <2>1, <2>2 DEF Identify
<1> QED BY <1>1, <1>2, Keeps, Domains, WireSame DEF Identify

LEMMA ReceiveKept ==
  ASSUME TypeOK, NumbersOK, NEW t \in Ops, Receive(t)
  PROVE  Kept
<1>1. /\ t \in Threads /\ wb.up /\ th[t].pc = "reply" /\ th[t] \in Thread
      /\ "reply" \in Asking /\ "reply" \in Bound
  BY ConstantFacts, Domains DEF Receive, At, Asking, Bound
<1>2. th' \in [Threads -> Thread] /\ ThreadsCalm
  <2>1. CASE Raise(t, "rejected") \/ Raise(t, "other")
    BY <1>1, <2>1, ThreadsMove, Endings
  <2>2. ASSUME NEW pc \in {"adopt", "settle"},
               NEW code \in Codes, th[t].act # "one_step",
               th' = [th EXCEPT ![t] = [th[t] EXCEPT !.pc = pc, !.code = code]]
        PROVE  th' \in [Threads -> Thread] /\ ThreadsCalm
    <3> DEFINE x == [th[t] EXCEPT !.pc = pc, !.code = code]
    <3>1. x \in Thread /\ x.pc \notin Asking
      BY <1>1 DEF Thread, Pending, Codes, Asking
    <3>2. th' = [th EXCEPT ![t] = x]
      BY <2>2
    <3> HIDE DEF x
    <3>3. th' \in [Threads -> Thread] /\ th'[t] = x
      BY <1>1, <3>1, <3>2, ThreadBecomes
    <3>4. Calm(t)
      BY <1>1, <3>1, <3>3 DEF Calm
    <3> QED BY <1>1, <3>1, <3>2, <3>4, ThreadBecomes
  <2>3. ASSUME NEW code \in Codes, th[t].act = "one_step",
               th' = [th EXCEPT ![t] = [th[t] EXCEPT !.pc = "send",
                                          !.act = "tick", !.code = code]]
        PROVE  th' \in [Threads -> Thread] /\ ThreadsCalm
    <3> DEFINE x == [th[t] EXCEPT !.pc = "send", !.act = "tick", !.code = code]
    <3>1. /\ x \in Thread /\ x.act = "tick" /\ x.intent = th[t].intent
          /\ x.run = th[t].run /\ x.epoch = th[t].epoch /\ x.pc = "send"
      BY <1>1 DEF Thread, Pending, Codes, Entries
    <3>2. th' = [th EXCEPT ![t] = x]
      BY <2>3
    <3> HIDE DEF x
    <3>3. th' \in [Threads -> Thread] /\ th'[t] = x
      BY <1>1, <3>1, <3>2, ThreadBecomes
    <3>4. {"one_step", "tick"} \subseteq Entries /\ Entries \subseteq Told
      BY DEF Entries, Told
    <3>5. th[t].run \in Runs
      BY <1>1 DEF NumbersOK
    <3>6. Calm(t)
      BY <1>1, <2>3, <3>1, <3>3, <3>4, <3>5 DEF Calm
    <3> QED BY <1>1, <3>1, <3>2, <3>6, ThreadBecomes
  <2>4. th[t].code \in Codes /\ "stopped" \in Codes
    BY <1>1 DEF Thread, Codes
  <2>5. CASE ~(wire[t].reply = "rejected" \/ Superseded(t))
    <3> DEFINE pc == IF th[t].act = "one_step" THEN "send"
                     ELSE IF wb.prev # NoRun THEN "adopt" ELSE "settle"
               act == IF th[t].act = "one_step" THEN "tick" ELSE th[t].act
               code == IF wb.prev # NoRun /\ wire[t].reply = "stopped"
                       THEN "stopped" ELSE th[t].code
    <3>1. th' = [th EXCEPT ![t] = [th[t] EXCEPT !.pc = pc, !.act = act,
                                                !.code = code]]
      BY <1>1, <2>5, Domains DEF Receive
    <3>2. code \in Codes
      BY <2>4
    <3>3. CASE th[t].act = "one_step"
      <4>1. pc = "send" /\ act = "tick"
        BY <3>3
      <4> HIDE DEF pc, act, code
      <4> QED BY <2>3, <3>1, <3>2, <3>3, <4>1
    <3>4. CASE th[t].act # "one_step"
      <4>1. pc \in {"adopt", "settle"} /\ act = th[t].act
        BY <3>4
      <4> HIDE DEF pc, act, code
      <4>2. [th[t] EXCEPT !.pc = pc, !.act = act, !.code = code] =
              [th[t] EXCEPT !.pc = pc, !.code = code]
        BY <1>1, <4>1 DEF Thread
      <4> QED BY <2>2, <3>1, <3>2, <3>4, <4>1, <4>2
    <3> QED BY <3>3, <3>4
  <2> QED BY <2>1, <2>5 DEF Receive
<1>3. wire' \in [Threads -> Request \cup {NoRequest}] /\ WireKept
  BY <1>1, RequestOver DEF Receive
<1>4. sender' \in Threads
  BY Domains DEF Receive, Released
<1> QED BY <1>1, <1>2, <1>3, <1>4, Keeps, Domains DEF Receive

LEMMA RuntimeKept ==
  ASSUME TypeOK, NumbersOK, UNCHANGED <<wb, disk, th, sender, wire, ops, others>>,
         faults' \in 0..MaxFaults, rt' \in [Runs -> Runtime], SameFences(rt')
  PROVE  Kept
<1>1. TypeOK'
  BY DEF TypeOK
<1>2. ThreadsCalm
  BY Untouched
<1>3. wb'.up \/ \A t \in Ops : th'[t].pc \in {"none", "done"}
  BY DEF NumbersOK
<1> QED BY <1>1, <1>2, <1>3, WireSame DEF Kept, Quiet

LEMMA FaultsCount ==
  ASSUME TypeOK
  PROVE  /\ faults \in 0..MaxFaults
         /\ faults < MaxFaults => faults + 1 \in 0..MaxFaults
  BY BoundsAreNat DEF TypeOK

LEMMA LivesKept ==
  ASSUME TypeOK, NumbersOK, NEW r \in Runs, Ready(r) \/ Dies(r) \/ Ends(r)
  PROVE  Kept
<1>1. CASE Ready(r)
  <2>1. rt' \in [Runs -> Runtime] /\ SameFences(rt')
    <3>1. CASE rt' = [rt EXCEPT ![r].life = "running"]
      BY <3>1, Domains, LifeChanges
    <3>2. CASE rt' = [rt EXCEPT ![r].life = "gone"]
      BY <3>2, Domains, LifeChanges
    <3> QED BY <1>1, <3>1, <3>2 DEF Ready
  <2> QED BY <1>1, <2>1, RuntimeKept, FaultsCount DEF Ready, bounds
<1>2. CASE Dies(r)
  BY <1>2, Domains, GoneType, RuntimeKept, FaultsCount DEF Dies
<1>3. CASE Ends(r)
  BY <1>3, Domains, GoneType, RuntimeKept, FaultsCount DEF Ends, bounds
<1> QED BY <1>1, <1>2, <1>3

LEMMA DownKept ==
  ASSUME TypeOK, NumbersOK, Down, UNCHANGED <<disk, ops, others>>,
         faults' \in 0..MaxFaults, rt' \in [Runs -> Runtime], SameFences(rt')
  PROVE  Kept
<1>1. wb' \in Memory
  BY Domains, OpenedType DEF Down
<1>2. /\ th' \in [Threads -> Thread]
      /\ \A t \in Threads : th'[t] = IF th[t].pc = "none" THEN NoThread ELSE Done
  BY NoThreadType DEF Down
<1>3. \A t \in Threads : th'[t].pc \in {"none", "done"}
                         /\ (th[t].pc = "none" => th'[t].pc = "none")
  BY <1>2 DEF NoThread, Done
<1>4. ThreadsCalm
  BY <1>3, ConstantFacts DEF ThreadsCalm, Calm, Asking
<1>5. wire' \in [Threads -> Request \cup {NoRequest}] /\ WireKept
  <2>1. \A t \in Threads : wire'[t] \in {wire[t], NoRequest}
    BY DEF Down
  <2>2. wire' \in [Threads -> Request \cup {NoRequest}]
    BY Domains DEF Down
  <2> QED BY <2>1, <2>2 DEF WireKept
<1>6. TypeOK'
  <2>1. sender' \in Threads
    BY Domains DEF Down
  <2> QED BY <1>1, <1>2, <1>5, <2>1, Zenon DEF TypeOK
<1>7. \A t \in Ops : ~(th'[t].pc \in Asking /\ th'[t].act \in Entries)
  BY <1>3, ConstantFacts DEF Asking
<1>8. \A t \in Ops : th'[t].pc \in {"none", "done"}
  BY <1>3, ConstantFacts
<1>9. Quiet
  BY <1>4, <1>5, <1>7, <1>8 DEF Quiet
<1> QED BY <1>6, <1>9 DEF Kept

LEMMA EndsKept ==
  ASSUME TypeOK, NumbersOK, Exit \/ Crash \/ \E t \in Ops : CrashInLaunch(t)
  PROVE  Kept
<1> DEFINE ts == {u \in Ops : th[u].pc = "reply"}
<1>1. Doubted(ts) \in [Runs -> Runtime] /\ SameFences(Doubted(ts))
  BY Domains, DoubtedType
<1>2. CASE Exit
  BY <1>1, <1>2, DownKept, FaultsCount DEF Exit, bounds
<1>3. CASE Crash
  BY <1>1, <1>3, DownKept, FaultsCount DEF Crash
<1>4. ASSUME NEW t \in Ops, CrashInLaunch(t)
      PROVE  Kept
  <2> DEFINE x == Doubted(ts)
             y == [x[NextRun] EXCEPT !.life = "starting"]
  <2>1. NextRun \in Runs
    BY <1>4, NextRunType DEF CrashInLaunch
  <2>2. x[NextRun] \in Runtime
    BY <1>1, <2>1
  <2>3. rt' = [x EXCEPT ![NextRun] = y]
    BY <1>4 DEF CrashInLaunch
  <2>4. /\ y \in Runtime /\ y.epoch = x[NextRun].epoch
        /\ y.held = x[NextRun].held /\ y.recovered = x[NextRun].recovered
    BY <2>2 DEF Runtime
  <2>5. x \in [Runs -> Runtime] /\ SameFences(x)
    BY <1>1
  <2> HIDE DEF x, y
  <2>6. rt' \in [Runs -> Runtime] /\ SameFences(rt')
    BY <2>1, <2>3, <2>4, <2>5 DEF SameFences
  <2> QED BY <1>4, <2>6, DownKept, FaultsCount DEF CrashInLaunch
<1> QED BY <1>2, <1>3, <1>4

LEMMA OpenKept ==
  ASSUME TypeOK, NumbersOK, Open
  PROVE  Kept
<1>1. Closer \in Threads /\ Closer \notin Ops
  BY ConstantFacts DEF Closer, Ops
<1>2. wb' \in Memory /\ wb'.up
  BY Domains, OpenedType DEF Open, Opened
<1>3. th' \in [Threads -> Thread] /\ ThreadsCalm
  BY <1>1, NoThreadType, ThreadBecomes DEF Open
<1>4. \A t \in Ops : th'[t] = th[t]
  BY <1>1, NoThreadType, ThreadBecomes, ConstantFacts DEF Open
<1>5. \A t \in Ops : ~(th'[t].pc \in Asking /\ th'[t].act \in Entries)
  <2>1. \A t \in Ops : th[t].pc \in {"none", "done"}
    BY DEF Open, NumbersOK
  <2> QED BY <1>4, <2>1 DEF Asking
<1>6. TypeOK'
  BY <1>2, <1>3, Zenon DEF TypeOK, Open, bounds
<1>7. Quiet
  BY <1>2, <1>3, <1>5, Domains, WireSame DEF Quiet, Open, bounds
<1> QED BY <1>6, <1>7 DEF Kept

-----------------------------------------------------------------------------
(* A quiet step keeps the invariant.                                       *)

LEMMA QuietNumbers ==
  ASSUME TypeOK, NumbersOK, Kept
  PROVE  NumbersOK'
<1>1. ops' = ops /\ TypeOK'
  BY DEF Kept, Quiet
<1>2. ASSUME NEW t \in Ops, t > ops'
      PROVE  th'[t].pc = "none" /\ wire'[t] = NoRequest
  <2>1. th[t].pc = "none" /\ wire[t] = NoRequest
    BY <1>1, <1>2 DEF NumbersOK
  <2> QED BY <2>1, ConstantFacts DEF Kept, Quiet, ThreadsCalm, Calm, WireKept
<1>3. ASSUME NEW t \in Ops, th'[t].pc \in Asking
      PROVE  /\ th'[t].act \in Told /\ th'[t].intent = t
             /\ IF th'[t].pc = "identify" THEN th'[t].act \in Recoveries
                                          ELSE th'[t].run \in Runs
  <2>1. Calm(t)
    BY DEF Kept, Quiet, ThreadsCalm
  <2> QED BY <1>3, <2>1 DEF Calm, NumbersOK
<1>5. wire'[Closer].act \in {"none", "stop"} /\ wire'[Closer].epoch <= ops'
  <2>1. wire[Closer].act \in {"none", "stop"} /\ wire[Closer].epoch <= ops
    BY DEF NumbersOK
  <2>2. CASE wire'[Closer] = NoRequest
    BY <1>1, <2>2 DEF NoRequest, TypeOK
  <2>3. CASE wire'[Closer] # NoRequest
    BY <1>1, <2>1, <2>3, ConstantFacts DEF Kept, Quiet, WireKept
  <2> QED BY <2>2, <2>3
<1>6. \A r \in Runs : rt'[r].recovered <= ops'
  BY <1>1 DEF NumbersOK, Kept, Quiet, SameFences
<1>7. ~wb'.up => \A t \in Ops : th'[t].pc \in {"none", "done"}
  BY DEF Kept, Quiet
<1>8. \A t \in Ops : th'[t].pc = "environment" => th'[t].act \in Entries
  BY "environment" \in Asking DEF Kept, Quiet, ThreadsCalm, Calm, Asking
<1> HIDE DEF Kept
<1> QED BY <1>2, <1>3, <1>5, <1>6, <1>7, <1>8 DEF NumbersOK, Told

LEMMA QuietCurrent ==
  ASSUME TypeOK, NumbersOK, CurrentOK, Kept
  PROVE  CurrentOK'
<1> SUFFICES ASSUME NEW t \in Ops, Asks(t, Entries)', ~Superseded(t)'
             PROVE  /\ \A r \in Runs : rt'[r].recovered < t
                    /\ \A u \in Ops : wire'[u].act \in Recoveries => u < t
                    /\ wire'[Closer].epoch < t
  BY DEF CurrentOK
<1>1. th'[t].pc \in Asking /\ th'[t].act \in Told /\ th'[t].act \in Entries
  BY DEF Asks, Told
<1>2. Asks(t, Entries) /\ th'[t].intent = th[t].intent
  BY <1>1 DEF Kept, Quiet, ThreadsCalm, Calm, Asks
<1>3. ~wb.closed /\ wb'.intent = wb.intent
  BY <1>1 DEF Kept, Quiet, Superseded
<1>4. ~Superseded(t)
  BY <1>2, <1>3 DEF Superseded
<1>5. \A r \in Runs : rt'[r].recovered < t
  BY <1>2, <1>4 DEF CurrentOK, Kept, Quiet, SameFences
<1>6. ASSUME NEW u \in Ops, wire'[u].act \in Recoveries
      PROVE  u < t
  <2>1. wire'[u] # NoRequest
    BY <1>6 DEF NoRequest, Recoveries
  <2>2. wire[u].act \in Recoveries
    BY <1>6, <2>1, ConstantFacts DEF Kept, Quiet, WireKept
  <2> QED BY <1>2, <1>4, <2>2 DEF CurrentOK
<1>7. wire'[Closer].epoch < t
  <2>1. CASE wire'[Closer] = NoRequest
    BY <2>1, ConstantFacts DEF NoRequest
  <2>2. CASE wire'[Closer] # NoRequest
    BY <1>2, <1>4, <2>2, ConstantFacts DEF Kept, Quiet, WireKept, CurrentOK
  <2> QED BY <2>1, <2>2
<1> QED BY <1>5, <1>6, <1>7

LEMMA QuietBound ==
  ASSUME TypeOK, NumbersOK, BoundOK, Kept
  PROVE  BoundOK'
<1>1. ASSUME NEW t, NEW r \in Runs, NEW e, Binds(t, r, e)
      PROVE  Binds(t, r, e)'
  BY <1>1 DEF Binds, Kept, Quiet, SameFences
<1>2. ASSUME NEW t \in Ops, Asks(t, Entries)', th'[t].pc \in Bound
      PROVE  Binds(t, th[t].run, th[t].epoch)'
  <2>1. th'[t].pc \in Asking /\ th'[t].act \in Told /\ th'[t].act \in Entries
    BY <1>2 DEF Asks, Told
  <2>2. /\ Asks(t, Entries) /\ th[t].pc \in Bound
        /\ th'[t].run = th[t].run /\ th'[t].epoch = th[t].epoch
    BY <1>2, <2>1 DEF Kept, Quiet, ThreadsCalm, Calm, Asks
  <2>3. Binds(t, th[t].run, th[t].epoch) /\ th[t].run \in Runs
    BY <2>2, EntriesNameRuns DEF BoundOK
  <2> QED BY <2>2, <2>3 DEF Binds, Kept, Quiet, SameFences
<1>3. ASSUME NEW t \in Ops, wire'[t].act \in Entries
      PROVE  Binds(t, wire[t].run, wire[t].epoch)'
  <2>1. wire'[t] # NoRequest /\ t \in Threads
    BY <1>3, ConstantFacts DEF NoRequest, Entries
  <2>2. /\ wire[t] # NoRequest /\ wire[t].act \in Entries
        /\ wire'[t].run = wire[t].run /\ wire'[t].epoch = wire[t].epoch
    BY <1>3, <2>1 DEF Kept, Quiet, WireKept
  <2>3. wire[t].run \in Runs
    BY <2>1, <2>2, Domains DEF Request
  <2>4. Binds(t, wire[t].run, wire[t].epoch)
    BY <2>2 DEF BoundOK
  <2> QED BY <2>2, <2>3, <2>4 DEF Binds, Kept, Quiet, SameFences
<1> HIDE DEF Kept
<1> QED BY <1>2, <1>3 DEF BoundOK

LEMMA QuietStep ==
  ASSUME FenceInv, Kept
  PROVE  FenceInv'
<1>1. HumanFences'
  BY DEF FenceInv, HumanFences, Kept, Quiet, SameFences
<1>2. TypeOK'
  BY DEF Kept
<1>3. NumbersOK' /\ CurrentOK' /\ BoundOK'
  BY QuietNumbers, QuietCurrent, QuietBound DEF FenceInv
<1> QED BY <1>1, <1>2, <1>3 DEF FenceInv

-----------------------------------------------------------------------------
(* Operations begin: the newest number outranks everything.                *)

LEMMA BeginType ==
  ASSUME TypeOK, NEW w \in Memory, NEW act \in Acts, NEW pc \in Pending,
         NEW intent \in Threads, NEW run \in Runs \cup {NoRun},
         Begin(w, act, pc, intent, run)
  PROVE  /\ TypeOK' /\ SameMind(w, wb') /\ ops' = ops + 1 /\ ops' \in Ops
         /\ th'[ops'].pc = pc /\ th'[ops'].act = act
         /\ th'[ops'].intent = intent /\ th'[ops'].run = run
         /\ \A u \in Threads \ {ops'} : th'[u] = th[u]
<1> DEFINE n == ops + 1
           x == [NoThread EXCEPT !.pc = pc, !.act = act, !.intent = intent,
                                 !.run = run]
<1>1. ops \in 0..MaxOps /\ n \in Ops /\ n \in Threads /\ ops' = n
  BY ConstantFacts DEF Begin, TypeOK
<1>2. /\ x \in Thread /\ x.pc = pc /\ x.act = act /\ x.intent = intent
      /\ x.run = run
  BY NoThreadType DEF Thread, NoThread, Acts
<1>3. th' = [th EXCEPT ![n] = x]
  BY DEF Begin
<1>4. wb' = [w EXCEPT !.op = n, !.last = n] /\ disk' = Saved(wb')
  BY DEF Begin
<1>5. UNCHANGED <<sender, wire, rt, faults, others>>
  BY DEF Begin
<1> HIDE DEF x
<1>6. /\ th' \in [Threads -> Thread] /\ th'[n] = x
      /\ \A u \in Threads \ {n} : th'[u] = th[u]
  BY <1>1, <1>2, <1>3, Domains
<1> HIDE DEF n
<1>7. SameMind(w, wb')
  BY <1>1, <1>4, MemoryNumbers
<1>8. wb' \in Memory /\ disk' \in Session
  BY <1>4, <1>7, MemoryStopped DEF SameMind
<1>9. ops' \in 0..MaxOps
  BY <1>1, ConstantFacts
<1>10. TypeOK'
  BY <1>5, <1>6, <1>8, <1>9, Zenon DEF TypeOK
<1>11. ops' = ops + 1
  BY <1>1 DEF n
<1> QED BY <1>1, <1>2, <1>6, <1>7, <1>10, <1>11

LEMMA BeginFence ==
  ASSUME FenceInv, NEW w \in Memory, NEW act \in Acts,
         NEW pc \in Pending \ {"environment"},
         NEW intent \in Threads, NEW run \in Runs \cup {NoRun},
         Begin(w, act, pc, intent, run),
         \/ w = wb /\ pc \notin Asking
         \/ w = Commanded /\ intent = ops + 1
            /\ (pc \in Asking => act \in Told)
            /\ (pc \in Asking /\ pc # "identify" => run \in Runs)
            /\ (act \in Entries => pc = "observe")
  PROVE  FenceInv'
<1> DEFINE n == ops'
<1>1. /\ TypeOK /\ NumbersOK /\ CurrentOK /\ BoundOK /\ HumanFences
      /\ wb \in Memory /\ ops \in Nat
  BY Domains DEF FenceInv, TypeOK
<1>2. /\ TypeOK' /\ SameMind(w, wb') /\ n = ops + 1 /\ n \in Ops
      /\ th'[n].pc = pc /\ th'[n].act = act
      /\ th'[n].intent = intent /\ th'[n].run = run
      /\ \A u \in Threads \ {n} : th'[u] = th[u]
  BY <1>1, BeginType
<1>3. wire' = wire /\ rt' = rt
  BY DEF Begin
<1>4. wb'.up
  BY <1>1, <1>2 DEF Begin, SameMind, Commanded, Memory
<1> HIDE DEF n
<1>5. \A u \in Ops : u \in Nat /\ (u # n => th'[u] = th[u])
  BY <1>2, ConstantFacts
<1>6. /\ pc \in Asking => act \in Told /\ intent = n
      /\ pc \in Asking /\ act \in Entries => pc = "observe"
      /\ pc \in Asking => IF pc = "identify" THEN act \in Recoveries
                                              ELSE run \in Runs
  BY <1>2 DEF Told
<1>7. NumbersOK'
  <2>1. ASSUME NEW t \in Ops, t > n
        PROVE  th'[t].pc = "none" /\ wire'[t] = NoRequest
    BY <1>1, <1>2, <1>3, <1>5, <2>1 DEF NumbersOK
  <2>2. ASSUME NEW t \in Ops, th'[t].pc \in Asking
        PROVE  /\ th'[t].act \in Told /\ th'[t].intent = t
               /\ IF th'[t].pc = "identify" THEN th'[t].act \in Recoveries
                                            ELSE th'[t].run \in Runs
    <3>1. CASE t = n
      BY <1>2, <1>6, <2>2, <3>1
    <3>2. CASE t # n
      BY <1>1, <1>5, <2>2, <3>2 DEF NumbersOK, Told
    <3> QED BY <3>1, <3>2
  <2>4. wire'[Closer].act \in {"none", "stop"} /\ wire'[Closer].epoch <= n
    <3>1. wire[Closer].epoch \in Nat
      BY <1>1, Domains, ConstantFacts DEF Request, NoRequest
    <3> QED BY <1>1, <1>2, <1>3, <3>1 DEF NumbersOK
  <2>5. \A r \in Runs : rt'[r].recovered <= n
    <3>1. \A r \in Runs : rt[r].recovered \in Nat
      BY <1>1, Domains, ConstantFacts DEF Runtime
    <3> QED BY <1>1, <1>2, <1>3, <3>1 DEF NumbersOK
  <2>6. ASSUME NEW t \in Ops, th'[t].pc = "environment"
        PROVE  th'[t].act \in Entries
    BY <1>1, <1>2, <1>5, <2>6 DEF NumbersOK
  <2> QED BY <1>4, <2>1, <2>2, <2>4, <2>5, <2>6 DEF NumbersOK, n, Told
<1>8. CurrentOK'
  <2> SUFFICES ASSUME NEW t \in Ops, Asks(t, Entries)', ~Superseded(t)'
               PROVE  /\ \A r \in Runs : rt[r].recovered < t
                      /\ \A u \in Ops : wire[u].act \in Recoveries => u < t
                      /\ wire[Closer].epoch < t
    BY <1>3 DEF CurrentOK
  <2>1. CASE t = n
    <3>1. ASSUME NEW r \in Runs PROVE rt[r].recovered < n
      <4>1. rt[r].recovered \in Nat /\ rt[r].recovered <= ops
        BY <1>1, Domains, ConstantFacts DEF Runtime, NumbersOK
      <4> QED BY <1>1, <1>2, <4>1
    <3>2. ASSUME NEW u \in Ops, wire[u].act \in Recoveries
          PROVE  u < n
      <4>1. wire[u] # NoRequest
        BY <3>2 DEF NoRequest, Recoveries
      <4>2. u \in Nat /\ ~(u > ops)
        BY <1>1, <1>5, <4>1 DEF NumbersOK
      <4> QED BY <1>1, <1>2, <4>2
    <3>3. wire[Closer].epoch < n
      <4>1. wire[Closer].epoch \in Nat
        BY <1>1, Domains, ConstantFacts DEF Request, NoRequest
      <4>2. wire[Closer].epoch <= ops
        BY <1>1 DEF NumbersOK
      <4> QED BY <1>1, <1>2, <4>1, <4>2
    <3> QED BY <2>1, <3>1, <3>2, <3>3
  <2>2. CASE t # n
    <3>1. th'[t] = th[t] /\ Asks(t, Entries)
      BY <1>5, <2>2 DEF Asks
    <3>2. th[t].intent = t /\ wb'.intent = t /\ ~wb'.closed
      BY <1>1, <3>1 DEF NumbersOK, Asks, Superseded
    <3>3. w.intent = t /\ ~w.closed
      BY <1>2, <3>2 DEF SameMind
    <3>4. w = wb
      BY <1>1, <1>2, <2>2, <3>3 DEF Commanded, Memory
    <3>5. ~Superseded(t)
      BY <3>2, <3>3, <3>4 DEF Superseded
    <3> QED BY <1>1, <3>1, <3>5 DEF CurrentOK
  <2> QED BY <2>1, <2>2
<1>9. BoundOK'
  <2>1. ASSUME NEW t \in Ops, Asks(t, Entries)', th'[t].pc \in Bound
        PROVE  t # n
    BY <1>2, <1>6, <2>1 DEF Asks, Bound
  <2>2. ASSUME NEW t \in Ops, Asks(t, Entries)', th'[t].pc \in Bound
        PROVE  Binds(t, th[t].run, th[t].epoch)' /\ th'[t] = th[t]
    <3>1. th'[t] = th[t]
      BY <1>5, <2>1, <2>2
    <3>2. Binds(t, th[t].run, th[t].epoch)
      BY <1>1, <2>2, <3>1 DEF BoundOK, Asks
    <3> QED BY <1>3, <3>1, <3>2 DEF Binds
  <2>3. \A t \in Ops : wire'[t].act \in Entries =>
          Binds(t, wire[t].run, wire[t].epoch)'
    BY <1>1, <1>3 DEF BoundOK, Binds
  <2> QED BY <2>2, <2>3 DEF BoundOK
<1>10. HumanFences'
  BY <1>1, <1>3 DEF HumanFences
<1> QED BY <1>2, <1>7, <1>8, <1>9, <1>10 DEF FenceInv

LEMMA PersonFence ==
  ASSUME FenceInv,
         \/ Prepare \/ Start
         \/ \E act \in {"auto", "one_step"} : Enter(act)
         \/ \E act \in {"human", "stop"} : Recover(act)
  PROVE  FenceInv'
<1>1. /\ wb \in Memory /\ wb.intent \in Threads /\ wb.client \in Runs \cup {NoRun}
      /\ NoRun \in Runs \cup {NoRun}
  BY Domains DEF FenceInv, Memory
<1>2. CASE Prepare
  <2>1. "task" \in Acts /\ "task" \in Pending \ {"environment"} /\ "task" \notin Asking
    BY DEF Acts, Pending, Asking
  <2> QED BY <1>1, <1>2, <2>1, BeginFence DEF Prepare
<1>3. CASE Start
  <2>1. "start" \in Acts /\ "probe" \in Pending \ {"environment"} /\ "probe" \notin Asking
    BY DEF Acts, Pending, Asking
  <2> QED BY <1>1, <1>3, <2>1, BeginFence DEF Start
<1>4. ASSUME ops < MaxOps
      PROVE  ops + 1 \in Threads /\ Commanded \in Memory
  <2>1. ops + 1 \in Threads
    BY <1>4, ConstantFacts DEF FenceInv, TypeOK
  <2> QED BY <1>1, <2>1, MemoryNumbers DEF Commanded
<1>5. ASSUME NEW act \in {"auto", "one_step"}, Enter(act)
      PROVE  FenceInv'
  <2>1. act \in Acts /\ "observe" \in Pending \ {"environment"}
    BY DEF Acts, Entries, Pending
  <2>2. ops < MaxOps /\ wb.client \in Runs /\ act \in Told
    BY <1>1, <1>5 DEF Enter, Begin, Told, Entries
  <2> QED BY <1>1, <1>4, <1>5, <2>1, <2>2, BeginFence DEF Enter
<1>6. ASSUME NEW act \in {"human", "stop"}, Recover(act)
      PROVE  FenceInv'
  <2>1. /\ {act, "cancel"} \subseteq Acts \ Entries /\ act \in Told
        /\ "cancel" \notin Asking
        /\ {"observe", "identify", "cancel"} \subseteq Pending \ {"environment"}
    BY DEF Acts, Entries, Pending, Told, Recoveries, Asking
  <2>2. ops < MaxOps
    BY <1>6 DEF Recover, Begin
  <2> QED BY <1>1, <1>4, <1>6, <2>1, <2>2, BeginFence DEF Recover
<1> QED BY <1>2, <1>3, <1>5, <1>6

-----------------------------------------------------------------------------
(* The epoch of a command is read; its request is sent.                    *)

LEMMA OtherThreads ==
  ASSUME FenceInv, NEW t \in Ops, NEW x \in Thread, th' = [th EXCEPT ![t] = x],
         wb.up, UNCHANGED <<wb, disk, rt, bounds>>, sender' \in Threads,
         wire' \in [Threads -> Request \cup {NoRequest}],
         th[t].pc # "none", x.act = th[t].act, x.intent = th[t].intent,
         x.run = th[t].run, th[t].pc \in Asking \ {"identify"},
         x.pc \in Asking \ {"identify", "environment"},
         \A u \in Threads \ {t} : wire'[u] = wire[u]
  PROVE  /\ TypeOK' /\ NumbersOK' /\ HumanFences'
         /\ th'[t] = x /\ \A u \in Ops \ {t} : th'[u] = th[u]
         /\ \A u \in Ops : /\ Asks(u, Entries)' => Asks(u, Entries)
                           /\ Superseded(u)' = Superseded(u)
         /\ wire'[Closer] = wire[Closer]
<1>1. TypeOK /\ NumbersOK /\ HumanFences /\ t \in Threads /\ Closer \in Threads \ {t}
  BY ConstantFacts DEF FenceInv, Closer, Ops
<1>2. /\ th' \in [Threads -> Thread] /\ th'[t] = x
      /\ \A u \in Threads \ {t} : th'[u] = th[u]
  BY <1>1, ThreadBecomes
<1>3. TypeOK'
  BY <1>1, <1>2, Zenon DEF TypeOK, bounds
<1>4. \A u \in Ops : /\ th'[u].act = th[u].act /\ th'[u].intent = th[u].intent
                     /\ th'[u].run = th[u].run
                     /\ (th'[u].pc \in Asking) = (th[u].pc \in Asking)
                     /\ (th'[u].pc = "identify") = (th[u].pc = "identify")
                     /\ (th[u].pc = "none" => th'[u].pc = "none")
                     /\ (th'[u].pc = "environment" => th[u].pc = "environment")
  BY <1>1, <1>2, ConstantFacts
<1>5. \A u \in Ops : \A acts : Asks(u, acts)' = Asks(u, acts)
  BY <1>4 DEF Asks
<1>6. NumbersOK'
  <2>1. ASSUME NEW u \in Ops, u > ops'
        PROVE  th'[u].pc = "none" /\ wire'[u] = NoRequest
    <3>1. th[u].pc = "none" /\ wire[u] = NoRequest
      BY <1>1, <2>1 DEF NumbersOK, bounds
    <3>2. u # t /\ u \in Threads
      BY <3>1, ConstantFacts
    <3> QED BY <1>4, <3>1, <3>2
  <2>2. wb'.up
    OBVIOUS
  <2>3. ASSUME NEW u \in Ops
        PROVE  /\ th'[u].pc \in Asking =>
                    /\ th'[u].act \in Entries \cup Recoveries
                    /\ th'[u].intent = u
                    /\ IF th'[u].pc = "identify" THEN th'[u].act \in Recoveries
                                                 ELSE th'[u].run \in Runs
               /\ th'[u].pc = "environment" => th'[u].act \in Entries
    <3>1. /\ th[u].pc \in Asking =>
               /\ th[u].act \in Entries \cup Recoveries
               /\ th[u].intent = u
               /\ IF th[u].pc = "identify" THEN th[u].act \in Recoveries
                                           ELSE th[u].run \in Runs
          /\ th[u].pc = "environment" => th[u].act \in Entries
      BY <1>1 DEF NumbersOK
    <3> QED BY <1>4, <3>1
  <2>4. /\ wire'[Closer].act \in {"none", "stop"} /\ wire'[Closer].epoch <= ops'
        /\ \A r \in Runs : rt'[r].recovered <= ops'
    BY <1>1 DEF NumbersOK, bounds
  <2> QED BY <2>1, <2>2, <2>3, <2>4 DEF NumbersOK
<1>7. \A u \in Ops : Superseded(u)' = Superseded(u)
  BY <1>4 DEF Superseded
<1>8. HumanFences'
  BY <1>1 DEF HumanFences
<1>9. /\ \A u \in Ops \ {t} : th'[u] = th[u]
      /\ wire'[Closer] = wire[Closer]
  BY <1>1, <1>2, ConstantFacts
<1> QED BY <1>2, <1>3, <1>5, <1>6, <1>7, <1>8, <1>9

LEMMA BindFence ==
  ASSUME FenceInv, NEW t \in Ops, Bind(t)
  PROVE  FenceInv'
<1>1. /\ TypeOK /\ NumbersOK /\ CurrentOK /\ BoundOK /\ t \in Threads
      /\ th[t] \in Thread /\ wb.up /\ th[t].pc = "environment"
  BY Domains, ConstantFacts DEF FenceInv, Bind, At
<1>2. CASE Raise(t, "rejected") \/ Raise(t, "other")
  <2>1. th' \in [Threads -> Thread] /\ ThreadsCalm
    BY <1>1, <1>2, ThreadsMove, Endings
  <2> QED BY <1>1, <2>1, Keeps, Domains, WireSame, QuietStep DEF Bind
<1>3. CASE /\ ~Superseded(t) /\ Listening(th[t].run)
           /\ th' = [th EXCEPT ![t].pc = "prepare",
                               ![t].epoch = rt[th[t].run].epoch]
  <2> DEFINE e == rt[th[t].run].epoch
             x == [th[t] EXCEPT !.pc = "prepare", !.epoch = e]
  <2>1. th[t].act \in Entries
    BY <1>1 DEF NumbersOK
  <2>2. FenceInv'
    <3>1. Asks(t, Entries) /\ th[t].run \in Runs /\ rt[th[t].run] \in Runtime
      BY <1>1, <2>1, Domains DEF Asks, Asking, NumbersOK
    <3>2. e \in Nat
      BY <3>1 DEF Runtime
    <3>3. th' = [th EXCEPT ![t] = x]
      BY <1>3
    <3> HIDE DEF e
    <3>4. /\ x \in Thread /\ x.act = th[t].act /\ x.intent = th[t].intent
          /\ x.run = th[t].run /\ x.pc = "prepare" /\ x.epoch = e
      BY <1>1, <3>2 DEF Thread, Pending
    <3> HIDE DEF x
    <3>5. UNCHANGED <<wb, disk, rt, bounds>> /\ UNCHANGED <<sender, wire>>
      BY DEF Bind
    <3>6. /\ TypeOK' /\ NumbersOK' /\ HumanFences'
          /\ th'[t] = x /\ \A u \in Ops \ {t} : th'[u] = th[u]
          /\ \A u \in Ops : /\ Asks(u, Entries)' => Asks(u, Entries)
                            /\ Superseded(u)' = Superseded(u)
      BY <1>1, <3>3, <3>4, <3>5, Domains, OtherThreads DEF Asking
    <3>7. CurrentOK'
      BY <1>1, <3>5, <3>6 DEF CurrentOK
    <3>8. Binds(t, th[t].run, e)
      BY <1>1, <1>3, <3>1, <3>2 DEF CurrentOK, Binds, e
    <3>9. BoundOK'
      <4>1. ASSUME NEW u \in Ops, Asks(u, Entries)', th'[u].pc \in Bound
            PROVE  Binds(u, th[u].run, th[u].epoch)'
        <5>1. CASE u = t
          <6>1. th'[u].run = th[t].run /\ th'[u].epoch = e
            BY <3>4, <3>6, <5>1
          <6> QED BY <3>5, <3>8, <5>1, <6>1 DEF Binds
        <5>2. CASE u # t
          <6>1. th'[u] = th[u] /\ Binds(u, th[u].run, th[u].epoch)
            BY <1>1, <3>6, <4>1, <5>2 DEF BoundOK
          <6> QED BY <3>5, <6>1 DEF Binds
        <5> QED BY <5>1, <5>2
      <4>2. \A u \in Ops : wire'[u].act \in Entries =>
              Binds(u, wire[u].run, wire[u].epoch)'
        BY <1>1, <3>5 DEF BoundOK, Binds
      <4> QED BY <4>1, <4>2 DEF BoundOK
    <3> QED BY <3>6, <3>7, <3>9 DEF FenceInv
  <2> QED BY <2>2
<1> QED BY <1>2, <1>3 DEF Bind

LEMMA SendFence ==
  ASSUME FenceInv, NEW t \in Ops, Send(t)
  PROVE  FenceInv'
<1>1. /\ TypeOK /\ NumbersOK /\ CurrentOK /\ BoundOK /\ t \in Threads
      /\ th[t] \in Thread /\ wb.up /\ th[t].pc = "send"
      /\ UNCHANGED <<wb, disk, rt, bounds>>
  BY Domains, ConstantFacts DEF FenceInv, Send, At
<1>2. CASE Superseded(t)
  <2>1. th' \in [Threads -> Thread] /\ ThreadsCalm
    BY <1>1, <1>2, ThreadsMove, Endings DEF Send
  <2> QED BY <1>1, <1>2, <2>1, Keeps, Domains, WireSame, QuietStep DEF Send
<1>3. CASE ~Superseded(t)
  <2> DEFINE x == [th[t] EXCEPT !.pc = "reply"]
             q == [run |-> th[t].run, act |-> th[t].act, epoch |-> th[t].epoch,
                   reply |-> "none"]
  <2>1. /\ x \in Thread /\ x.act = th[t].act /\ x.intent = th[t].intent
        /\ x.run = th[t].run /\ x.epoch = th[t].epoch /\ x.pc = "reply"
    BY <1>1 DEF Thread, Pending
  <2>2. th[t].act \in Told /\ th[t].run \in Runs /\ th[t].intent = t
        /\ "send" \in Asking /\ "reply" \in Asking /\ "send" \in Bound
    BY <1>1 DEF NumbersOK, Told, Asking, Bound
  <2>3. q \in Request
    <3>1. th[t].epoch \in Nat /\ th[t].act \in {"human", "stop"} \cup Entries
      BY <1>1, <2>2 DEF Thread, Told, Recoveries
    <3> QED BY <2>2, <3>1 DEF Request
  <2>4. th' = [th EXCEPT ![t] = x] /\ wire' = [wire EXCEPT ![t] = q]
    BY <1>3 DEF Send, Goto, Post
  <2>5. q.run = th[t].run /\ q.act = th[t].act /\ q.epoch = th[t].epoch
    OBVIOUS
  <2> HIDE DEF x, q
  <2>6. /\ wire' \in [Threads -> Request \cup {NoRequest}] /\ wire'[t] = q
        /\ \A u \in Threads \ {t} : wire'[u] = wire[u]
    BY <1>1, <2>3, <2>4, Domains
  <2>7. sender' \in Threads
    BY <1>1, <1>3, Domains DEF Send
  <2>8. /\ TypeOK' /\ NumbersOK' /\ HumanFences'
        /\ th'[t] = x /\ \A u \in Ops \ {t} : th'[u] = th[u]
        /\ \A u \in Ops : /\ Asks(u, Entries)' => Asks(u, Entries)
                          /\ Superseded(u)' = Superseded(u)
        /\ wire'[Closer] = wire[Closer]
    BY <1>1, <2>1, <2>2, <2>4, <2>6, <2>7, OtherThreads DEF Asking
  <2>9. rt' = rt /\ wb' = wb
    BY <1>1
  <2>10. CurrentOK'
    <3> SUFFICES ASSUME NEW u \in Ops, Asks(u, Entries), ~Superseded(u)
                 PROVE  \A v \in Ops : wire'[v].act \in Recoveries => v < u
      BY <1>1, <2>8, <2>9 DEF CurrentOK
    <3>1. \A v \in Ops : wire[v].act \in Recoveries => v < u
      BY <1>1 DEF CurrentOK
    <3>2. th[t].act \notin Recoveries
      <4>1. th[u].intent = u /\ wb.intent = u /\ wb.intent = t
        BY <1>1, <1>3, <2>2, EntriesNameRuns DEF Superseded
      <4>2. th[t].act \in Entries
        BY <4>1 DEF Asks
      <4> QED BY <4>2 DEF Entries, Recoveries
    <3> QED BY <2>5, <2>6, <3>1, <3>2, ConstantFacts
  <2>11. BoundOK'
    <3>1. th[t].act \in Entries => Binds(t, th[t].run, th[t].epoch)
      BY <1>1, <2>2 DEF BoundOK, Asks
    <3>2. ASSUME NEW u \in Ops, Asks(u, Entries)', th'[u].pc \in Bound
          PROVE  Binds(u, th[u].run, th[u].epoch)'
      <4>1. CASE u = t
        <5>1. th'[u].run = th[t].run /\ th'[u].epoch = th[t].epoch
              /\ th[t].act \in Entries
          BY <2>1, <2>8, <3>2, <4>1 DEF Asks
        <5> QED BY <2>9, <3>1, <4>1, <5>1 DEF Binds
      <4>2. CASE u # t
        <5>1. th'[u] = th[u] /\ Binds(u, th[u].run, th[u].epoch)
          BY <1>1, <2>8, <3>2, <4>2 DEF BoundOK
        <5> QED BY <2>9, <5>1 DEF Binds
      <4> QED BY <4>1, <4>2
    <3>3. ASSUME NEW u \in Ops, wire'[u].act \in Entries
          PROVE  Binds(u, wire[u].run, wire[u].epoch)'
      <4>1. CASE u = t
        <5>1. wire'[u].run = th[t].run /\ wire'[u].epoch = th[t].epoch
              /\ th[t].act \in Entries
          BY <2>5, <2>6, <3>3, <4>1
        <5> QED BY <2>9, <3>1, <4>1, <5>1 DEF Binds
      <4>2. CASE u # t
        <5>1. wire'[u] = wire[u] /\ Binds(u, wire[u].run, wire[u].epoch)
          BY <1>1, <2>6, <3>3, <4>2, ConstantFacts DEF BoundOK
        <5> QED BY <2>9, <5>1 DEF Binds
      <4> QED BY <4>1, <4>2
    <3> QED BY <3>2, <3>3 DEF BoundOK
  <2> QED BY <2>8, <2>10, <2>11 DEF FenceInv
<1> QED BY <1>2, <1>3

-----------------------------------------------------------------------------
(* The Workbench closes: everything it began is superseded.                *)

LEMMA CloseFence ==
  ASSUME FenceInv, Close
  PROVE  FenceInv'
<1>1. /\ TypeOK /\ NumbersOK /\ BoundOK /\ HumanFences /\ wb \in Memory
      /\ wb.up /\ Closer \in Threads /\ Closer \notin Ops /\ ops \in Nat
  BY Domains, ConstantFacts DEF FenceInv, Close, Closer, Ops, TypeOK
<1>2. UNCHANGED <<disk, sender, rt, ops, others>> /\ faults' \in 0..MaxFaults
  BY <1>1, FaultsCount DEF Close
<1>3. wb' \in Memory /\ wb'.closed /\ wb'.up
  BY <1>1, MemoryNumbers DEF Close, Memory
<1>4. th' \in [Threads -> Thread] /\ \A u \in Threads \ {Closer} : th'[u] = th[u]
  <2> DEFINE pc == IF wb.client = NoRun THEN "kill" ELSE "reply"
             c == wb.client
             x == [NoThread EXCEPT !.act = "close", !.run = c, !.pc = pc]
  <2>1. pc \in Pending /\ c \in Runs \cup {NoRun}
    BY <1>1 DEF Pending, Memory
  <2>2. th' = [th EXCEPT ![Closer] = x]
    BY DEF Close
  <2> HIDE DEF pc, c
  <2>3. x \in Thread
    BY <2>1, NoThreadType DEF Thread
  <2> HIDE DEF x
  <2> QED BY <1>1, <2>2, <2>3, ThreadBecomes
<1>5. /\ wire' \in [Threads -> Request \cup {NoRequest}]
      /\ \A u \in Threads \ {Closer} : wire'[u] = wire[u]
      /\ wire'[Closer].act \in {"none", "stop"} /\ wire'[Closer].epoch <= ops
  <2>1. CASE wb.client = NoRun
    BY <1>1, <2>1, Domains DEF Close, NumbersOK
  <2>2. CASE wb.client # NoRun
    <3> DEFINE q == [run |-> wb.client, act |-> "stop", epoch |-> ops,
                     reply |-> "none"]
    <3>1. q \in Request /\ q.act = "stop" /\ q.epoch = ops
      BY <1>1, <2>2 DEF Request, Memory
    <3>2. wire' = [wire EXCEPT ![Closer] = q]
      BY <2>2 DEF Close
    <3> HIDE DEF q
    <3> QED BY <1>1, <3>1, <3>2, Domains
  <2> QED BY <2>1, <2>2
<1>6. \A u \in Ops : th'[u] = th[u] /\ wire'[u] = wire[u]
  BY <1>1, <1>4, <1>5, ConstantFacts
<1>7. TypeOK'
  BY <1>1, <1>2, <1>3, <1>4, <1>5, Zenon DEF TypeOK
<1>8. NumbersOK'
  BY <1>1, <1>2, <1>3, <1>5, <1>6 DEF NumbersOK
<1>9. CurrentOK'
  BY <1>3 DEF CurrentOK, Superseded
<1>10. BoundOK'
  BY <1>1, <1>2, <1>6 DEF BoundOK, Asks, Binds
<1>11. HumanFences'
  BY <1>1, <1>2 DEF HumanFences
<1> QED BY <1>7, <1>8, <1>9, <1>10, <1>11 DEF FenceInv

-----------------------------------------------------------------------------
(* A runtime serves a request.                                             *)

\* What a request leaves alone, whatever the runtime does with it.
Serving == UNCHANGED <<wb, th, ops>> /\ WireKept /\ TypeOK'

LEMMA ServingNumbers ==
  ASSUME TypeOK, NumbersOK, Serving, \A r \in Runs : rt'[r].recovered <= ops
  PROVE  NumbersOK'
<1>1. ASSUME NEW u \in Ops, u > ops
      PROVE  th'[u].pc = "none" /\ wire'[u] = NoRequest
  BY <1>1, ConstantFacts DEF NumbersOK, Serving, WireKept
<1>2. wire'[Closer].act \in {"none", "stop"} /\ wire'[Closer].epoch <= ops'
  <2>1. wire[Closer].act \in {"none", "stop"} /\ wire[Closer].epoch <= ops
    BY DEF NumbersOK
  <2>2. CASE wire'[Closer] = NoRequest
    BY <2>2 DEF NoRequest, TypeOK, Serving
  <2>3. CASE wire'[Closer] # NoRequest
    BY <2>1, <2>3, ConstantFacts DEF Serving, WireKept
  <2> QED BY <2>2, <2>3
<1>3. /\ ops' = ops /\ th' = th /\ wb' = wb
  BY DEF Serving
<1> QED BY <1>1, <1>2, <1>3 DEF NumbersOK

LEMMA ServingWire ==
  ASSUME TypeOK, Serving, NEW u \in Threads, wire'[u].act # "none"
  PROVE  /\ wire[u] # NoRequest /\ wire[u] \in Request
         /\ wire'[u].act = wire[u].act /\ wire'[u].run = wire[u].run
         /\ wire'[u].epoch = wire[u].epoch
<1>1. wire'[u] # NoRequest
  BY DEF NoRequest
<1> QED BY <1>1, Domains DEF Serving, WireKept

LEMMA ServingCurrent ==
  ASSUME FenceInv, Serving,
         \A u \in Ops : Asks(u, Entries) /\ ~Superseded(u) =>
           \A r \in Runs : rt'[r].recovered < u
  PROVE  CurrentOK'
<1>1. TypeOK /\ CurrentOK /\ th' = th /\ wb' = wb
  BY DEF FenceInv, Serving
<1> SUFFICES ASSUME NEW u \in Ops, Asks(u, Entries), ~Superseded(u)
             PROVE  /\ \A r \in Runs : rt'[r].recovered < u
                    /\ \A v \in Ops : wire'[v].act \in Recoveries => v < u
                    /\ wire'[Closer].epoch < u
  BY <1>1 DEF CurrentOK, Asks, Superseded
<1>2. ASSUME NEW v \in Ops, wire'[v].act \in Recoveries
      PROVE  v < u
  <2>1. wire[v].act \in Recoveries
    BY <1>1, <1>2, ServingWire, ConstantFacts DEF Recoveries
  <2> QED BY <1>1, <2>1 DEF CurrentOK
<1>3. wire'[Closer].epoch < u
  <2>1. CASE wire'[Closer] = NoRequest
    BY <2>1, ConstantFacts DEF NoRequest
  <2>2. CASE wire'[Closer] # NoRequest
    BY <1>1, <2>2, ConstantFacts DEF Serving, WireKept, CurrentOK
  <2> QED BY <2>1, <2>2
<1> QED BY <1>2, <1>3

\* A runtime that keeps the recoveries of what was bound to its epoch, or
\* whose epoch advances past it, keeps BoundOK.
LEMMA ServingBound ==
  ASSUME FenceInv, Serving, NEW r \in Runs, NEW y \in Runtime,
         rt' = [rt EXCEPT ![r] = y],
         \/ y.epoch = rt[r].epoch + 1
         \/ y.epoch = rt[r].epoch /\ y.recovered = rt[r].recovered
  PROVE  BoundOK'
<1>1. TypeOK /\ NumbersOK /\ BoundOK /\ th' = th
  BY DEF FenceInv, Serving
<1>2. /\ rt \in [Runs -> Runtime] /\ rt'[r] = y
      /\ \A p \in Runs \ {r} : rt'[p] = rt[p]
  BY <1>1, Domains
<1>3. ASSUME NEW u, NEW p \in Runs, NEW e \in Nat, Binds(u, p, e)
      PROVE  Binds(u, p, e)'
  <2>1. CASE p # r
    BY <1>2, <1>3, <2>1 DEF Binds
  <2>2. CASE p = r /\ y.epoch = rt[r].epoch /\ y.recovered = rt[r].recovered
    BY <1>2, <1>3, <2>2 DEF Binds
  <2>3. CASE p = r /\ y.epoch = rt[r].epoch + 1
    <3>1. rt[r].epoch \in Nat /\ e <= rt[r].epoch
      BY <1>2, <1>3, <2>3 DEF Binds, Runtime
    <3>2. e <= y.epoch /\ e # y.epoch
      BY <2>3, <3>1
    <3> QED BY <1>2, <2>3, <3>2 DEF Binds
  <2> QED BY <2>1, <2>2, <2>3
<1>4. ASSUME NEW u \in Ops, Asks(u, Entries)', th'[u].pc \in Bound
      PROVE  Binds(u, th[u].run, th[u].epoch)'
  <2>1. Asks(u, Entries) /\ th[u].pc \in Bound
    BY <1>1, <1>4 DEF Asks
  <2>2. th[u].run \in Runs /\ th[u].epoch \in Nat
    BY <1>1, <2>1, EntriesNameRuns, Domains, ConstantFacts DEF Thread
  <2>3. Binds(u, th[u].run, th[u].epoch)
    BY <1>1, <2>1 DEF BoundOK
  <2> DEFINE p == th[u].run
             e == th[u].epoch
  <2>5. p \in Runs /\ e \in Nat /\ Binds(u, p, e) /\ th'[u].run = p /\ th'[u].epoch = e
    BY <1>1, <2>2, <2>3
  <2> HIDE DEF p, e
  <2>6. /\ e <= rt'[p].epoch /\ (e = rt'[p].epoch => rt'[p].recovered < u)
    BY <1>3, <2>5 DEF Binds
  <2> QED BY <2>5, <2>6 DEF Binds
<1>5. ASSUME NEW u \in Ops, wire'[u].act \in Entries
      PROVE  Binds(u, wire[u].run, wire[u].epoch)'
  <2> DEFINE p == wire[u].run
             e == wire[u].epoch
  <2>1. /\ wire[u] \in Request /\ wire[u].act \in Entries
        /\ wire'[u].run = p /\ wire'[u].epoch = e
    BY <1>1, <1>5, ServingWire, ConstantFacts DEF Entries
  <2>2. p \in Runs /\ e \in Nat /\ Binds(u, p, e)
    BY <1>1, <2>1 DEF Request, BoundOK
  <2> HIDE DEF p, e
  <2>3. /\ e <= rt'[p].epoch /\ (e = rt'[p].epoch => rt'[p].recovered < u)
    BY <1>3, <2>2 DEF Binds
  <2> QED BY <2>1, <2>3 DEF Binds
<1> QED BY <1>4, <1>5 DEF BoundOK

\* A recovery, of the Workbench or of the game's own interface.
LEMMA RecoveryFence ==
  ASSUME FenceInv, Serving, NEW r \in Runs, NEW y \in Runtime,
         rt' = [rt EXCEPT ![r] = y], y.epoch = rt[r].epoch + 1, y.held = 0,
         y.recovered <= ops,
         \A u \in Ops : Asks(u, Entries) /\ ~Superseded(u) => y.recovered < u
  PROVE  FenceInv'
<1>1. TypeOK /\ NumbersOK /\ CurrentOK /\ HumanFences /\ TypeOK'
  BY DEF FenceInv, Serving
<1>2. rt'[r] = y /\ \A p \in Runs \ {r} : rt'[p] = rt[p]
  BY <1>1, Domains
<1>3. NumbersOK'
  <2>1. \A p \in Runs : rt'[p].recovered <= ops
    BY <1>1, <1>2 DEF NumbersOK
  <2> QED BY <1>1, <2>1, ServingNumbers
<1>4. CurrentOK'
  <2>1. \A u \in Ops : Asks(u, Entries) /\ ~Superseded(u) =>
          \A p \in Runs : rt'[p].recovered < u
    BY <1>1, <1>2 DEF CurrentOK
  <2> QED BY <2>1, ServingCurrent
<1>5. BoundOK'
  BY ServingBound
<1>6. HumanFences'
  BY <1>1, <1>2 DEF HumanFences
<1> QED BY <1>1, <1>3, <1>4, <1>5, <1>6 DEF FenceInv

LEMMA AdvancedType ==
  ASSUME NEW x \in Runtime
  PROVE  /\ Advanced(x) \in Runtime /\ Advanced(x).epoch = x.epoch + 1
         /\ Advanced(x).held = 0 /\ Advanced(x).recovered = x.recovered
         /\ Advanced(x).life = x.life
<1>1. 0 \in Threads /\ {} \in SUBSET Ops /\ x.epoch \in Nat
  BY DEF Threads, Closer, Runtime
<1>2. x.epoch + 1 \in Nat
  BY <1>1
<1> DEFINE e == x.epoch + 1
           y == [x EXCEPT !.epoch = e, !.held = 0, !.doubt = {}]
<1>3. Advanced(x) = y
  BY DEF Advanced, Runtime
<1>4. e \in Nat
  BY <1>2
<1> HIDE DEF e
<1>5. /\ y \in Runtime /\ y.epoch = e /\ y.held = 0
      /\ y.recovered = x.recovered /\ y.life = x.life
  BY <1>1, <1>4 DEF Runtime
<1> QED BY <1>3, <1>5 DEF e

LEMMA OtherRecoversFence ==
  ASSUME FenceInv, NEW r \in Runs, OtherRecovers(r)
  PROVE  FenceInv'
<1>1. /\ TypeOK /\ NumbersOK /\ CurrentOK /\ rt[r] \in Runtime
      /\ rt \in [Runs -> Runtime]
  BY Domains DEF FenceInv
<1>2. PICK life \in {"running", "stopped"} :
        rt' = [rt EXCEPT ![r] = [Advanced(@) EXCEPT !.life = life]]
  BY DEF OtherRecovers
<1> DEFINE y == [Advanced(rt[r]) EXCEPT !.life = life]
<1>3. /\ y \in Runtime /\ y.epoch = rt[r].epoch + 1 /\ y.held = 0
      /\ y.recovered = rt[r].recovered
  <2>1. 0 \in Threads /\ {} \in SUBSET Ops
    BY DEF Threads, Closer
  <2> DEFINE z == Advanced(rt[r])
  <2>2. /\ z \in Runtime /\ z.epoch = rt[r].epoch + 1 /\ z.held = 0
        /\ z.recovered = rt[r].recovered
    BY <1>1, <2>1, AdvancedType
  <2>3. y = [z EXCEPT !.life = life]
    OBVIOUS
  <2> HIDE DEF z
  <2> QED BY <2>2, <2>3 DEF Runtime
<1>4. rt' = [rt EXCEPT ![r] = y]
  BY <1>2
<1> HIDE DEF y
<1>5. others' \in 0..MaxOthers
  BY <1>1, BoundsAreNat DEF OtherRecovers, TypeOK
<1>6. rt' \in [Runs -> Runtime]
  BY <1>1, <1>3, <1>4
<1>7. UNCHANGED <<wb, disk, th, sender, wire, ops, faults>>
  BY DEF OtherRecovers
<1>8. TypeOK'
  BY <1>1, <1>5, <1>6, <1>7, Zenon DEF TypeOK
<1>9. Serving
  BY <1>7, <1>8, WireSame DEF Serving
<1>10. /\ y.recovered <= ops
       /\ \A u \in Ops : Asks(u, Entries) /\ ~Superseded(u) => y.recovered < u
  BY <1>1, <1>3 DEF NumbersOK, CurrentOK
<1> QED BY <1>3, <1>4, <1>9, <1>10, RecoveryFence

\* The reply to a request, or its end.
LEMMA ReplyType ==
  ASSUME TypeOK, NEW t \in Threads, wire[t] # NoRequest,
         NEW answer \in {"running", "stopped", "rejected", "lost"},
         wire' = [wire EXCEPT ![t] =
                    IF Awaited(t) THEN [wire[t] EXCEPT !.reply = answer]
                                  ELSE NoRequest]
  PROVE  wire' \in [Threads -> Request \cup {NoRequest}] /\ WireKept
<1> DEFINE q == [wire[t] EXCEPT !.reply = answer]
<1>1. wire[t] \in Request /\ wire \in [Threads -> Request \cup {NoRequest}]
  BY Domains
<1>2. /\ q \in Request /\ q.run = wire[t].run /\ q.act = wire[t].act
      /\ q.epoch = wire[t].epoch
  BY <1>1 DEF Request
<1>3. wire' = [wire EXCEPT ![t] = IF Awaited(t) THEN q ELSE NoRequest]
  OBVIOUS
<1> HIDE DEF q
<1>4. /\ wire' \in [Threads -> Request \cup {NoRequest}]
      /\ wire'[t] \in {q, NoRequest}
      /\ \A u \in Threads \ {t} : wire'[u] = wire[u]
  BY <1>1, <1>2, <1>3
<1> QED BY <1>2, <1>4 DEF WireKept

\* A request that changes nothing: refused, lost, or for another process.
LEMMA UnservedFence ==
  ASSUME FenceInv, Serving, SameFences(rt')
  PROVE  FenceInv'
<1>1. TypeOK /\ NumbersOK /\ CurrentOK /\ HumanFences
  BY DEF FenceInv
<1>2. \A u \in Threads : th'[u] = th[u]
  BY DEF Serving
<1>3. ThreadsCalm
  BY <1>1, <1>2, OthersCalm, ConstantFacts DEF ThreadsCalm
<1>4. wb' = wb /\ ops' = ops /\ WireKept /\ TypeOK'
  BY DEF Serving
<1>5. wb'.up \/ \A u \in Ops : th'[u].pc \in {"none", "done"}
  BY <1>1, <1>2, <1>4, ConstantFacts DEF NumbersOK
<1>6. Kept
  BY <1>3, <1>4, <1>5 DEF Kept, Quiet
<1> QED BY <1>6, QuietStep

\* What a recovery carries: a number already given, below every command that
\* still holds the current intent.
LEMMA RecoveredBy ==
  ASSUME FenceInv, NEW t \in Threads, wire[t] # NoRequest,
         wire[t].act \notin Entries, NEW x \in Runtime, x.recovered <= ops,
         \A u \in Ops : Asks(u, Entries) /\ ~Superseded(u) => x.recovered < u
  PROVE  LET y == Recovered(x, wire[t], t)
         IN  /\ y \in Runtime /\ y.epoch = x.epoch + 1 /\ y.held = 0
             /\ y.recovered <= ops
             /\ \A u \in Ops : Asks(u, Entries) /\ ~Superseded(u) =>
                  y.recovered < u
<1> DEFINE n == IF t = Closer THEN wire[t].epoch ELSE t
           m == Latest(x.recovered, n)
           y == Recovered(x, wire[t], t)
<1>1. /\ TypeOK /\ NumbersOK /\ CurrentOK /\ wire[t] \in Request
      /\ ops \in 0..MaxOps /\ Threads \subseteq Nat
  BY Domains, ConstantFacts DEF FenceInv, TypeOK
<1>2. /\ n \in Nat /\ n <= ops
      /\ \A u \in Ops : Asks(u, Entries) /\ ~Superseded(u) => n < u
  <2>1. CASE t = Closer
    <3>1. n = wire[Closer].epoch /\ n \in Nat
      BY <1>1, <2>1 DEF Request
    <3> HIDE DEF n
    <3> QED BY <1>1, <3>1 DEF NumbersOK, CurrentOK
  <2>2. CASE t # Closer
    <3>1. n = t /\ t \in Ops /\ t \in Nat
      BY <2>2, ConstantFacts DEF Threads
    <3>2. wire[t].act \in Recoveries
      BY <1>1 DEF Request, Recoveries
    <3>3. t <= ops
      BY <1>1, <3>1, ConstantFacts DEF NumbersOK
    <3> HIDE DEF n
    <3> QED BY <1>1, <3>1, <3>2, <3>3 DEF CurrentOK
  <2> QED BY <2>1, <2>2
<1>3. x.recovered \in Nat
  BY <1>1 DEF Runtime
<1> HIDE DEF n
<1>4. /\ m \in Nat /\ m <= ops
      /\ \A u \in Ops : Asks(u, Entries) /\ ~Superseded(u) => m < u
  BY <1>2, <1>3 DEF Latest
<1>5. m \in Threads /\ 0 \in Threads
  <2>1. m \in 0..MaxOps
    BY <1>1, <1>4, ConstantFacts
  <2> QED BY <1>1, <2>1, ConstantFacts, Domains
<1>6. y = [Advanced(x) EXCEPT !.recovered = m]
  <2>1. Advanced(x).recovered = x.recovered
    BY AdvancedType
  <2>2. y = [Advanced(x) EXCEPT !.recovered =
               Latest(Advanced(x).recovered, n)]
    <3> HIDE DEF n
    <3> QED BY DEF Recovered, n
  <2> QED BY <2>1, <2>2
<1> HIDE DEF m
<1>7. y \in Runtime /\ y.epoch = x.epoch + 1 /\ y.held = 0 /\ y.recovered = m
  <2> DEFINE z == Advanced(x)
  <2>1. z \in Runtime /\ z.epoch = x.epoch + 1 /\ z.held = 0
    BY AdvancedType
  <2>2. y = [z EXCEPT !.recovered = m]
    BY <1>6
  <2> HIDE DEF y, z
  <2> QED BY <1>5, <2>1, <2>2 DEF Runtime
<1> QED BY <1>4, <1>7

LEMMA ServeFence ==
  ASSUME FenceInv, NEW t \in Threads, Serve(t)
  PROVE  FenceInv'
<1> DEFINE q == wire[t]
           r == q.run
           x == rt[r]
           Answered(answer) ==
             wire' = [wire EXCEPT ![t] = IF Awaited(t) THEN [q EXCEPT !.reply = answer]
                                                       ELSE NoRequest]
<1>1. /\ TypeOK /\ NumbersOK /\ CurrentOK /\ BoundOK /\ HumanFences
      /\ q # NoRequest /\ q \in Request /\ r \in Runs /\ x \in Runtime
      /\ rt \in [Runs -> Runtime]
      /\ UNCHANGED <<wb, disk, th, sender, bounds>>
  BY Domains DEF FenceInv, Serve, Request
<1>2. ASSUME NEW answer \in {"running", "stopped", "rejected", "lost"},
             Answered(answer), rt' \in [Runs -> Runtime]
      PROVE  Serving
  <2>1. wire' \in [Threads -> Request \cup {NoRequest}] /\ WireKept
    BY <1>1, <1>2, ReplyType
  <2>2. TypeOK'
    BY <1>1, <1>2, <2>1, Zenon DEF TypeOK, bounds
  <2> QED BY <1>1, <2>1, <2>2 DEF Serving, bounds
<1>3. ASSUME NEW answer \in {"running", "stopped", "rejected", "lost"},
             Answered(answer), rt' = rt
      PROVE  FenceInv'
  <2>1. Serving
    BY <1>1, <1>2, <1>3
  <2>2. SameFences(rt')
    BY <1>3 DEF SameFences
  <2> QED BY <2>1, <2>2, UnservedFence
<1>4. ASSUME NEW y \in Runtime,
             NEW answer \in {"running", "stopped", "rejected", "lost"},
             Answered(answer), rt' = [rt EXCEPT ![r] = y],
             q.act \notin Entries, y.epoch = x.epoch + 1, y.held = 0,
             y.recovered = Recovered(x, q, t).recovered
      PROVE  FenceInv'
  <2>1. /\ x.recovered <= ops
        /\ \A u \in Ops : Asks(u, Entries) /\ ~Superseded(u) => x.recovered < u
    BY <1>1 DEF NumbersOK, CurrentOK
  <2>2. /\ y.recovered <= ops
        /\ \A u \in Ops : Asks(u, Entries) /\ ~Superseded(u) => y.recovered < u
    BY <1>1, <1>4, <2>1, RecoveredBy
  <2>3. Serving
    BY <1>1, <1>2, <1>4
  <2> QED BY <1>1, <1>4, <2>2, <2>3, RecoveryFence
<1>5. ASSUME Enters(x, q), Answered("running"), q.act \in Entries,
             rt' = [rt EXCEPT ![r] = [x EXCEPT !.held = t]]
      PROVE  FenceInv'
  <2> DEFINE y == [x EXCEPT !.held = t]
  <2>1. /\ y \in Runtime /\ y.epoch = x.epoch /\ y.recovered = x.recovered
        /\ y.held = t
    BY <1>1 DEF Runtime
  <2>2. rt' = [rt EXCEPT ![r] = y]
    BY <1>5
  <2> HIDE DEF y
  <2>3. /\ rt' \in [Runs -> Runtime] /\ rt'[r] = y
        /\ \A p \in Runs \ {r} : rt'[p] = rt[p]
    BY <1>1, <2>1, <2>2
  <2>4. Serving
    BY <1>2, <1>5, <2>3
  <2>5. t \in Ops
    BY <1>1, <1>5 DEF NumbersOK, Entries, Threads
  <2>6. x.recovered < t
    BY <1>1, <1>5, <2>5 DEF BoundOK, Binds, Enters
  <2>7. \A p \in Runs : rt'[p].recovered = rt[p].recovered
    BY <1>1, <2>1, <2>3
  <2>8. NumbersOK'
    BY <1>1, <2>4, <2>7, ServingNumbers DEF NumbersOK
  <2>9. CurrentOK'
    <3>1. \A u \in Ops : Asks(u, Entries) /\ ~Superseded(u) =>
            \A p \in Runs : rt'[p].recovered < u
      BY <1>1, <2>7 DEF CurrentOK
    <3> QED BY <2>4, <3>1, ServingCurrent
  <2>10. BoundOK'
    BY <1>1, <2>1, <2>2, <2>4, ServingBound
  <2>11. HumanFences'
    BY <1>1, <2>1, <2>3, <2>6 DEF HumanFences
  <2> QED BY <2>4, <2>8, <2>9, <2>10, <2>11 DEF FenceInv, Serving
<1>6. CASE ~Listening(r) /\ Answered("lost") /\ UNCHANGED rt
  BY <1>3, <1>6
<1>7. ASSUME NEW e \in Effects(x, q, t), rt' = [rt EXCEPT ![r] = e[1]],
             Answered(e[2])
      PROVE  FenceInv'
  <2>1. CASE q.act \in Entries /\ e \in {<<x, "rejected">>, <<x, "lost">>}
    <3>1. rt' = rt
      BY <1>1, <1>7, <2>1
    <3>2. e[2] \in {"running", "stopped", "rejected", "lost"}
      BY <2>1
    <3>3. Answered(e[2])
      BY <1>7
    <3> HIDE DEF Answered
    <3> QED BY <1>3, <3>1, <3>2, <3>3
  <2>2. CASE /\ q.act \in Entries /\ Enters(x, q)
             /\ e = <<[x EXCEPT !.held = t], "running">>
    BY <1>5, <1>7, <2>2
  <2>3. CASE q.act \notin Entries
    <3> DEFINE z == Recovered(x, q, t)
    <3>1. z \in Runtime /\ z.epoch = x.epoch + 1 /\ z.held = 0
      <4>1. /\ x.recovered <= ops
            /\ \A u \in Ops : Asks(u, Entries) /\ ~Superseded(u) =>
                 x.recovered < u
        BY <1>1 DEF NumbersOK, CurrentOK
      <4> QED BY <1>1, <2>3, <4>1, RecoveredBy
    <3>2. e \in {<<z, "lost">>, <<[z EXCEPT !.life = "stopped"], "stopped">>,
                 <<z, "running">>}
      BY <2>3, <1>7 DEF Effects
    <3> HIDE DEF z
    <3>3. /\ e[1] \in Runtime /\ e[1].epoch = x.epoch + 1 /\ e[1].held = 0
          /\ e[1].recovered = z.recovered
          /\ e[2] \in {"running", "stopped", "rejected", "lost"}
      BY <3>1, <3>2 DEF Runtime
    <3> QED BY <1>4, <1>7, <2>3, <3>3 DEF z
  <2> QED BY <1>7, <2>1, <2>2, <2>3 DEF Effects
<1> QED BY <1>6, <1>7 DEF Serve

-----------------------------------------------------------------------------
(* Together.                                                               *)

LEMMA InitFence ==
  ASSUME Init
  PROVE  FenceInv
<1>1. 0 \in Threads /\ 0 \in Nat /\ {} \in SUBSET Ops
  BY DEF Threads, Closer
<1>2. TypeOK
  <2>1. disk \in Session
    BY ConstantFacts DEF Init, Session, Statuses
  <2>2. wb \in Memory
    BY <2>1, OpenedType DEF Init
  <2>3. th \in [Threads -> Thread]
    BY NoThreadType DEF Init
  <2>4. wire \in [Threads -> Request \cup {NoRequest}]
    BY DEF Init
  <2>5. rt \in [Runs -> Runtime]
    BY <1>1 DEF Init, Runtime
  <2>6. /\ sender \in Threads /\ ops \in 0..MaxOps
        /\ faults \in 0..MaxFaults /\ others \in 0..MaxOthers
    BY <1>1, BoundsAreNat DEF Init
  <2> QED BY <2>1, <2>2, <2>3, <2>4, <2>5, <2>6, Zenon DEF TypeOK
<1>3. /\ \A t \in Threads : th[t].pc = "none" /\ wire[t] = NoRequest
      /\ \A r \in Runs : rt[r].recovered = 0 /\ rt[r].held = 0
      /\ ops = 0 /\ wb.up
  BY DEF Init, NoThread, Opened
<1>4. NumbersOK
  <2>1. \A t \in Ops : th[t].pc = "none" /\ wire[t] = NoRequest
    BY <1>3, ConstantFacts
  <2>2. "none" \notin Asking /\ "none" # "environment"
    BY DEF Asking
  <2>3. wire[Closer].act = "none" /\ wire[Closer].epoch = 0
    BY <1>3, ConstantFacts DEF NoRequest
  <2>4. /\ \A r \in Runs : rt[r].recovered <= ops
        /\ wire[Closer].epoch <= ops
    BY <1>3, <2>3
  <2> QED BY <1>3, <2>1, <2>2, <2>3, <2>4 DEF NumbersOK
<1>5. CurrentOK /\ BoundOK
  <2>1. \A t \in Ops : ~Asks(t, Entries) /\ wire[t].act \notin Entries
    <3>1. "none" \notin Asking /\ "none" \notin Entries
      BY DEF Asking, Entries
    <3> QED BY <1>3, <3>1, ConstantFacts DEF Asks, NoRequest
  <2> QED BY <2>1 DEF CurrentOK, BoundOK
<1>6. HumanFences
  BY <1>3 DEF HumanFences
<1> QED BY <1>2, <1>4, <1>5, <1>6 DEF FenceInv

LEMMA NextFence ==
  ASSUME FenceInv, [Next]_vars
  PROVE  FenceInv'
<1>1. TypeOK /\ NumbersOK
  BY DEF FenceInv
<1>2. ASSUME NEW t \in Ops, Step(t)
      PROVE  FenceInv'
  <2>1. CASE Bind(t) \/ Send(t)
    BY <2>1, BindFence, SendFence
  <2>2. CASE HandleError(t) \/ Save(t) \/ Task(t) \/ Probe(t) \/ Launch(t)
             \/ Load(t) \/ Abandon(t) \/ Cancel(t) \/ Observe(t)
    <3>1. Kept
      BY <1>1, <2>2, HandleErrorKept, SaveKept, TaskKept, ProbeKept, LaunchKept,
         LoadKept, AbandonKept, CancelKept, ObserveKept
    <3> QED BY <3>1, QuietStep
  <2>3. CASE PrepareGame(t) \/ Receive(t) \/ TimeOut(t) \/ Settle(t)
             \/ Kill(t) \/ Handoff(t) \/ Identify(t) \/ Adopt(t)
    <3>1. Kept
      BY <1>1, <2>3, PrepareGameKept, ReceiveKept, TimeOutKept, SettleKept,
         KillKept, HandoffKept, IdentifyKept, AdoptKept, ConstantFacts
    <3> QED BY <3>1, QuietStep
  <2> QED BY <1>2, <2>1, <2>2, <2>3 DEF Step
<1>3. CASE \E t \in Ops : CrashInLaunch(t)
  <2>1. Kept
    BY <1>1, <1>3, EndsKept
  <2> QED BY <2>1, QuietStep
<1>4. CASE Closes \/ ObserveStop \/ Poll \/ Crash \/ Open
  <2>1. Kept
    BY <1>1, <1>4, CloserReplyKept, KillKept, LeaveKept, EndsKept,
       ObserveStopKept, PollKept, OpenKept, ConstantFacts DEF Closes
  <2> QED BY <2>1, QuietStep
<1>5. CASE Person
  BY <1>4, <1>5, PersonFence, CloseFence DEF Person
<1>6. ASSUME NEW r \in Runs, Ready(r) \/ Dies(r) \/ Ends(r) \/ OtherRecovers(r)
      PROVE  FenceInv'
  <2>1. CASE OtherRecovers(r)
    BY <2>1, OtherRecoversFence
  <2>2. CASE Ready(r) \/ Dies(r) \/ Ends(r)
    BY <1>1, <2>2, LivesKept, QuietStep
  <2> QED BY <1>6, <2>1, <2>2
<1>7. CASE \E t \in Threads : Serve(t)
  BY <1>7, ServeFence
<1>8. CASE UNCHANGED vars
  <2>1. UNCHANGED <<wb, th, wire, rt, ops>>
    BY <1>8 DEF vars
  <2>2. TypeOK'
    BY <1>1, <1>8 DEF TypeOK, vars
  <2>3. Serving /\ SameFences(rt')
    BY <2>1, <2>2, WireSame DEF Serving, SameFences
  <2> QED BY <2>3, UnservedFence
<1> QED BY <1>2, <1>3, <1>4, <1>5, <1>6, <1>7, <1>8 DEF Next

\* The invariant holds in every state.
THEOREM FenceInvariance == Spec => []FenceInv
<1>1. Init => FenceInv
  BY InitFence
<1>2. FenceInv /\ [Next]_vars => FenceInv'
  BY NextFence
<1> QED BY <1>1, <1>2, PTL DEF Spec

\* Every part of the state stays in its domain (the data model of the module).
THEOREM LocalTypes == Spec => []TypeOK
<1>1. FenceInv => TypeOK
  BY DEF FenceInv
<1> QED BY <1>1, FenceInvariance, PTL

\* Once the runtime applied a Human or a Stop of the Workbench, no command the
\* person gave before it lets the model act (_send_control, local_models.py).
THEOREM HumanAlwaysFences == Spec => []HumanFences
<1>1. FenceInv => HumanFences
  BY DEF FenceInv
<1> QED BY <1>1, FenceInvariance, PTL

-----------------------------------------------------------------------------
(* DoubtInv: threads that stay, go on under the intent they had, or end.   *)

Follows(u) ==
  \/ th'[u] = th[u]
  \/ /\ th[u].pc # "none" /\ th'[u].pc \notin {"none", "task"}
     /\ th'[u].pc = "prepare" => th'[u].act \in Entries
     /\ th'[u].pc = "kill" => th'[u].act = "stop"
     /\ th'[u].pc = "handoff" => th'[u].act = "stop" \/ th'[u].code = "stopped"
     /\ th'[u].intent \in {0, th[u].intent}
     /\ th'[u].pc \in Working =>
          th[u].pc \in Working /\ th'[u].intent = th[u].intent
     /\ th'[u].pc \in Asking /\ th'[u].act \in Entries =>
          Asks(u, Entries) /\ th'[u].run = th[u].run
     /\ th'[u].run \in {NoRun, th[u].run} \/ rt'[th'[u].run].life # "none"
     /\ th'[u].pc = "reply" =>
          wire'[u].run = th'[u].run /\ wire'[u].act = th'[u].act

ThreadsFollow == \A u \in Ops : Follows(u)

LEMMA OneFollows ==
  ASSUME NEW t \in Threads, \A u \in Threads \ {t} : th'[u] = th[u],
         t \in Ops => Follows(t)
  PROVE  ThreadsFollow
  BY ConstantFacts DEF ThreadsFollow, Follows

LEMMA GoesOn ==
  ASSUME TypeOK, NEW t \in Threads, NEW pc \in Pending \ {"task", "prepare", "reply"},
         Goto(t, pc), th[t].pc # "none",
         pc \in Working => th[t].pc \in Working,
         pc \in Asking => th[t].pc \in Asking,
         pc = "kill" => th[t].act = "stop" \/ t = Closer,
         pc = "handoff" => th[t].act = "stop" \/ th[t].code = "stopped"
  PROVE  /\ ThreadsFollow
         /\ th'[t].pc = pc /\ th'[t].act = th[t].act /\ th'[t].run = th[t].run
         /\ th'[t].code = th[t].code /\ th'[t].intent = th[t].intent
         /\ \A u \in Threads \ {t} : th'[u] = th[u]
<1>1. /\ th \in [Threads -> Thread] /\ th[t] \in Thread
  BY Domains
<1>2. /\ th'[t] = [th[t] EXCEPT !.pc = pc]
      /\ \A u \in Threads \ {t} : th'[u] = th[u]
  BY <1>1, ThreadGoes
<1>3. /\ th'[t].pc = pc /\ th'[t].act = th[t].act /\ th'[t].run = th[t].run
      /\ th'[t].code = th[t].code /\ th'[t].intent = th[t].intent
  BY <1>1, <1>2 DEF Thread
<1>4. "none" \notin Pending /\ Closer \notin Ops
  BY DEF Pending, Closer, Ops
<1>5. t \in Ops => Follows(t)
  BY <1>3, <1>4 DEF Follows, Asks
<1> QED BY <1>2, <1>3, <1>5, OneFollows

LEMMA Fails ==
  ASSUME TypeOK, NEW t \in Threads, NEW code \in Codes, Raise(t, code),
         th[t].pc # "none"
  PROVE  /\ ThreadsFollow
         /\ th'[t].pc = "error" /\ th'[t].code = code /\ th'[t].run = NoRun
         /\ th'[t].intent = 0
         /\ \A u \in Threads \ {t} : th'[u] = th[u]
<1>1. th \in [Threads -> Thread] /\ th[t] \in Thread
  BY Domains
<1>2. \A u \in Threads \ {t} : th'[u] = th[u]
  BY <1>1, ThreadRaises
<1>3. th'[t] = [NoThread EXCEPT !.pc = "error", !.act = th[t].act, !.code = code]
  BY <1>1 DEF Raise
<1>4. /\ th'[t].pc = "error" /\ th'[t].code = code /\ th'[t].run = NoRun
      /\ th'[t].intent = 0
  BY <1>3 DEF NoThread
<1>5. "error" \notin Working /\ "error" \notin Asking
  BY DEF Working, Asking
<1>6. Follows(t)
  BY <1>4, <1>5 DEF Follows
<1> QED BY <1>2, <1>4, <1>6, OneFollows

\* A step that leaves the order of the operations keeps OrderOK.
SameOrder == /\ wb'.op = wb.op /\ wb'.last = wb.last /\ wb'.intent = wb.intent
             /\ wb'.up => wb.up

LEMMA OrderFollows ==
  ASSUME TypeOK, TypeOK', OrderOK, ThreadsFollow, SameOrder, ops' = ops
  PROVE  OrderOK'
<1>1. /\ wb'.up => wb'.last = wb'.op
      /\ wb'.op <= ops' /\ wb'.intent <= ops'
  BY DEF OrderOK, SameOrder
<1>2. ASSUME NEW t \in Ops
      PROVE  /\ t > ops => th'[t] = NoThread
             /\ th'[t].intent <= ops
             /\ th'[t].pc = "task" => th'[t].act = "task"
             /\ th'[t].pc = "prepare" => th'[t].act \in Entries
             /\ th'[t].pc = "kill" => th'[t].act = "stop"
             /\ th'[t].pc = "handoff" =>
                  th'[t].act = "stop" \/ th'[t].code = "stopped"
             /\ th'[t].pc \in Working /\ th'[t].intent = wb'.intent => t = wb'.op
  <2>1. Follows(t) /\ ops \in Nat
    BY DEF ThreadsFollow, TypeOK
  <2>2. CASE th'[t] = th[t]
    BY <2>2 DEF OrderOK, SameOrder
  <2>3. CASE th'[t] # th[t]
    <3>1. t > ops => th[t].pc = "none"
      BY DEF OrderOK, NoThread
    <3>2. th'[t].intent <= ops
      BY <2>1, <2>3 DEF Follows, OrderOK
    <3>3. th'[t].pc \in Working /\ th'[t].intent = wb'.intent => t = wb'.op
      BY <2>1, <2>3 DEF Follows, OrderOK, SameOrder
    <3> QED BY <2>1, <2>3, <3>1, <3>2, <3>3 DEF Follows
  <2> QED BY <2>2, <2>3
<1> QED BY <1>1, <1>2 DEF OrderOK

\* No thread of a Workbench that is down, or has just opened, is working.
LEMMA OrderEnds ==
  ASSUME TypeOK, TypeOK', OrderOK, ops' = ops,
         wb'.op = 0, wb'.last = 0, wb'.intent = 0,
         \A t \in Ops : /\ th'[t].pc \in {"none", "done"}
                        /\ th'[t] \in {th[t], NoThread, Done}
                        /\ th[t].pc = "none" => th'[t] \in {th[t], NoThread}
  PROVE  OrderOK'
<1>1. ops \in Nat
  BY DEF TypeOK
<1>2. NoThread.intent = 0 /\ Done.intent = 0
      /\ NoThread.pc = "none" /\ Done.pc = "done"
  BY DEF NoThread, Done
<1>3. "none" \notin Working /\ "done" \notin Working
  BY DEF Working, Pending
<1>4. ASSUME NEW t \in Ops
      PROVE  /\ t > ops => th'[t] = NoThread
             /\ th'[t].intent <= ops
  BY <1>1, <1>2 DEF OrderOK
<1> QED BY <1>1, <1>3, <1>4 DEF OrderOK

-----------------------------------------------------------------------------
(* The steps of a thread that ask nothing of a runtime: they leave every   *)
(* request, and every mark a request has left, alone.                      *)

SameMarks(x) ==
  \A r \in Runs : /\ x[r].epoch = rt[r].epoch /\ x[r].recovered = rt[r].recovered
                  /\ x[r].doubt = rt[r].doubt
                  /\ rt[r].life # "none" => x[r].life # "none"

Inside ==
  /\ UNCHANGED <<wire, ops>> /\ SameMarks(rt') /\ ThreadsFollow
  /\ \A u \in Ops : th[u].pc = "reply" => th'[u] = th[u]

Local(t) ==
  /\ Inside /\ SameOrder /\ wb'.closed = wb.closed
  /\ \A u \in Threads \ {t} : th'[u] = th[u]

LEMMA LifeMarks ==
  ASSUME TypeOK, NEW r \in Runs, NEW life \in {"starting", "running", "stopped", "gone"}
  PROVE  SameMarks([rt EXCEPT ![r].life = life])
<1>1. rt[r] \in Runtime /\ rt \in [Runs -> Runtime]
  BY Domains
<1> QED BY <1>1 DEF SameMarks, Runtime

LEMMA GoneMarks ==
  ASSUME TypeOK, NEW r \in Runs \cup {NoRun}
  PROVE  SameMarks(Gone(r, rt)) /\ SameMarks(rt)
<1>1. SameMarks(rt)
  BY DEF SameMarks
<1>2. CASE r = NoRun
  BY <1>1, <1>2 DEF Gone
<1>3. CASE r # NoRun
  BY <1>1, <1>3, LifeMarks DEF Gone
<1> QED BY <1>2, <1>3

\* Memory that changes only in what the Workbench reports.
LEMMA MemoryOrder ==
  ASSUME NEW w \in Memory, NEW s, NEW l, NEW c, NEW p, NEW q, NEW i
  PROVE  LET Same(v) == /\ v.op = w.op /\ v.last = w.last /\ v.intent = w.intent
                        /\ v.up = w.up /\ v.closed = w.closed
         IN  /\ Same(w) /\ Same([w EXCEPT !.status = s])
             /\ Same([w EXCEPT !.status = s, !.loaded = l])
             /\ Same([w EXCEPT !.process = p, !.status = s, !.loaded = l])
             /\ Same([w EXCEPT !.client = c, !.status = s, !.loaded = l])
             /\ Same([w EXCEPT !.status = s, !.loaded = l, !.client = c])
             /\ Same([w EXCEPT !.client = c, !.status = s, !.loaded = l,
                               !.startup = q])
             /\ Same([w EXCEPT !.client = c, !.loaded = l, !.startup = q,
                               !.prev = i, !.status = s])
  BY DEF Memory

LEMMA LocalGoes ==
  ASSUME TypeOK, NEW t \in Ops, NEW pc \in Pending \ {"task", "prepare", "reply"},
         Goto(t, pc), th[t].pc \notin {"none", "reply"},
         pc \in Working => th[t].pc \in Working,
         pc \in Asking => th[t].pc \in Asking,
         pc = "kill" => th[t].act = "stop",
         pc = "handoff" => th[t].act = "stop" \/ th[t].code = "stopped",
         UNCHANGED <<wire, ops>>, SameMarks(rt'), SameOrder, wb'.closed = wb.closed
  PROVE  /\ Local(t)
         /\ th'[t].pc = pc /\ th'[t].act = th[t].act /\ th'[t].run = th[t].run
         /\ th'[t].code = th[t].code /\ th'[t].intent = th[t].intent
  BY GoesOn, ConstantFacts DEF Local, Inside

LEMMA LocalFails ==
  ASSUME TypeOK, NEW t \in Ops, NEW code \in Codes, Raise(t, code),
         th[t].pc \notin {"none", "reply"},
         UNCHANGED <<wire, ops>>, SameMarks(rt'), SameOrder, wb'.closed = wb.closed
  PROVE  /\ Local(t)
         /\ th'[t].pc = "error" /\ th'[t].code = code /\ th'[t].run = NoRun
  BY Fails, ConstantFacts DEF Local, Inside

-----------------------------------------------------------------------------
(* What such a step keeps of DoubtInv.                                     *)

Shrinks == \A r \in Runs : Unsettled(r)' \subseteq Unsettled(r)

LEMMA UnsettledShrinks ==
  ASSUME TypeOK, TypeOK', ThreadsFollow,
         \A r \in Runs : /\ rt'[r].recovered >= rt[r].recovered
                         /\ rt'[r].doubt \subseteq Unsettled(r)
  PROVE  Shrinks
<1> SUFFICES ASSUME NEW r \in Runs, NEW u \in Ops, u \in Unsettled(r)'
             PROVE  u \in Unsettled(r)
  BY DEF Shrinks, Unsettled
<1>1. /\ rt[r].recovered \in Nat /\ rt'[r].recovered \in Nat /\ u \in Nat
      /\ rt'[r].recovered >= rt[r].recovered
  BY ConstantFacts DEF TypeOK, Runtime
<1>2. CASE u \in rt'[r].doubt
  BY <1>2
<1>3. CASE Asks(u, Entries)' /\ th'[u].run = r /\ u > rt'[r].recovered
  <2>1. th'[u].pc \in Asking /\ th'[u].act \in Entries
    BY <1>3 DEF Asks
  <2>2. Asks(u, Entries) /\ th[u].run = r
    BY <1>3, <2>1 DEF ThreadsFollow, Follows, Asks
  <2> QED BY <1>1, <1>3, <2>2 DEF Unsettled
<1> QED BY <1>2, <1>3 DEF Unsettled

LEMMA InsideShrinks ==
  ASSUME TypeOK, TypeOK', Inside
  PROVE  Shrinks
<1>1. \A r \in Runs : /\ rt'[r].recovered >= rt[r].recovered
                      /\ rt'[r].doubt \subseteq Unsettled(r)
  <2> SUFFICES ASSUME NEW r \in Runs
               PROVE  /\ rt'[r].recovered >= rt[r].recovered
                      /\ rt'[r].doubt \subseteq Unsettled(r)
    OBVIOUS
  <2>1. rt[r].recovered \in Nat /\ rt[r].doubt \subseteq Ops
    BY ConstantFacts DEF TypeOK, Runtime
  <2>2. rt'[r].recovered = rt[r].recovered /\ rt'[r].doubt = rt[r].doubt
    BY DEF Inside, SameMarks
  <2> QED BY <2>1, <2>2 DEF Unsettled
<1> QED BY <1>1, UnsettledShrinks DEF Inside

\* Who shrinks has at most one unsettled command, none newer than the intent.
LEMMA ShrinkingCounts ==
  ASSUME TypeOK, TypeOK', Shrinks, OneUnsettled, NewestOK,
         wb'.up /\ wb'.intent # 0 => wb.up /\ wb'.intent = wb.intent
  PROVE  OneUnsettled' /\ NewestOK'
<1>1. OneUnsettled'
  BY DEF Shrinks, OneUnsettled
<1>2. NewestOK'
  BY DEF Shrinks, NewestOK
<1> QED BY <1>1, <1>2

LEMMA InsideNames ==
  ASSUME TypeOK, TypeOK', NamesOK, Inside,
         wb'.client # NoRun => wb'.client \in Runs /\ rt'[wb'.client].life # "none"
  PROVE  NamesOK'
<1>1. ASSUME NEW u \in Ops, th'[u].run # NoRun
      PROVE  rt'[th'[u].run].life # "none"
  <2>1. th'[u].run \in Runs
    BY <1>1, ConstantFacts DEF TypeOK, Thread
  <2>2. CASE th'[u].run = th[u].run
    BY <1>1, <2>1, <2>2 DEF NamesOK, Inside, SameMarks
  <2>3. CASE th'[u].run # th[u].run
    BY <1>1, <2>3 DEF Inside, ThreadsFollow, Follows
  <2> QED BY <2>2, <2>3
<1>2. ASSUME NEW u \in Ops, th'[u].pc = "reply"
      PROVE  wire'[u].run = th'[u].run /\ wire'[u].act = th'[u].act
  <2>1. CASE th'[u] = th[u]
    BY <1>2, <2>1 DEF NamesOK, Inside
  <2>2. CASE th'[u] # th[u]
    BY <1>2, <2>2 DEF Inside, ThreadsFollow, Follows
  <2> QED BY <2>1, <2>2
<1> QED BY <1>1, <1>2 DEF NamesOK

LEMMA InsideAnswers ==
  ASSUME TypeOK, TypeOK', AnswersOK, Inside
  PROVE  AnswersOK'
<1>1. Shrinks
  BY InsideShrinks
<1>2. ASSUME NEW r \in Runs
      PROVE  rt'[r].life = "none" => Unsettled(r)' = {}
  BY <1>1 DEF Inside, SameMarks, AnswersOK, Shrinks
<1>3. ASSUME NEW r \in Runs, NEW u \in rt'[r].doubt
      PROVE  u > rt'[r].recovered /\ u <= ops' /\ ~Asks(u, Entries)'
  <2>1. /\ u \in rt[r].doubt /\ rt'[r].recovered = rt[r].recovered
        /\ ops' = ops /\ u \in Ops
    BY <1>3 DEF Inside, SameMarks, TypeOK, Runtime
  <2>2. u > rt[r].recovered /\ u <= ops /\ ~Asks(u, Entries)
    BY <2>1 DEF AnswersOK
  <2>3. ~Asks(u, Entries)'
    BY <2>1, <2>2 DEF Inside, ThreadsFollow, Follows, Asks
  <2> QED BY <2>1, <2>2, <2>3
<1>4. ASSUME NEW u \in Ops
      PROVE  /\ wire'[u].act \in Entries
                  /\ wire'[u].epoch = rt'[wire'[u].run].epoch
                => th'[u].pc = "reply" \/ u \in rt'[wire'[u].run].doubt
             /\ wire'[u].act \in Recoveries =>
                  /\ wire'[u].reply # "rejected"
                  /\ wire'[u].reply \in {"running", "stopped"} =>
                       rt'[wire'[u].run].recovered >= u
  <2>1. wire'[u] = wire[u] /\ (th[u].pc = "reply" => th'[u] = th[u])
    BY DEF Inside
  <2>2. CASE wire[u].act \in Entries \cup Recoveries
    <3>1. wire[u].run \in Runs
      BY <2>2, Domains, ConstantFacts DEF Request, NoRequest, Entries, Recoveries
    <3> QED BY <2>1, <3>1 DEF AnswersOK, Inside, SameMarks
  <2>3. CASE wire[u].act \notin Entries \cup Recoveries
    BY <2>1, <2>3
  <2> QED BY <2>2, <2>3
<1> QED BY <1>2, <1>3, <1>4 DEF AnswersOK

\* Thread t is ready for what it now waits for.
Ready1(t) == Received(t) /\ ~Superseded(t) /\ th[t].run # NoRun
               => Unsettled(th[t].run) = {}

LEMMA ReadyShrinks ==
  ASSUME TypeOK, TypeOK', ReadyOK, Shrinks,
         \A u \in Ops : \/ Ready1(u)'
                        \/ /\ th'[u] = th[u]
                           /\ ~Superseded(u)' => ~Superseded(u)
  PROVE  ReadyOK'
<1> SUFFICES ASSUME NEW u \in Ops
             PROVE  Ready1(u)'
  BY DEF ReadyOK, Ready1
<1>1. CASE th'[u] = th[u] /\ (~Superseded(u)' => ~Superseded(u))
  <2>1. Ready1(u)
    BY DEF ReadyOK, Ready1
  <2>2. th[u].run \in Runs \cup {NoRun}
    BY ConstantFacts DEF TypeOK, Thread
  <2> QED BY <1>1, <2>1, <2>2 DEF Ready1, Received, Shrinks
<1> QED BY <1>1

LEMMA ShutShrinks ==
  ASSUME TypeOK, TypeOK', ShutOK, Shrinks, wb'.op = wb.op,
         Uncertain' => /\ wb.up /\ ~wb.closed /\ wb.loaded /\ wb'.client = wb.client
                       /\ Uncertain /\ wb.op \in Ops /\ Shutting(wb.op)
                            => Shutting(wb.op)'
  PROVE  ShutOK'
<1> SUFFICES ASSUME Uncertain'
             PROVE  wb'.op \in Ops /\ Shutting(wb.op)'
  BY DEF ShutOK
<1>1. wb.client \in Runs
  BY DEF Uncertain, TypeOK, Memory
<1>2. Unsettled(wb.client)' # {} /\ wb.client # NoRun
  BY DEF Uncertain
<1>3. Unsettled(wb.client) # {}
  BY <1>1, <1>2 DEF Shrinks
<1>4. Uncertain
  BY <1>2, <1>3 DEF Uncertain
<1> QED BY <1>4 DEF ShutOK

\* Everything but the latest operation leaves what is shut shut.
LEMMA OthersShut ==
  ASSUME NEW w, th'[w] = th[w], wb'.intent = wb.intent, wb'.client = wb.client,
         Shut => Shut', Shutting(w)
  PROVE  Shutting(w)'
  BY DEF Shutting, Asks

LEMMA LocalStep ==
  ASSUME DoubtInv, FenceInv', NEW t \in Ops, Local(t), Ready1(t)',
         wb'.client \in {NoRun, wb.client} \/ rt'[wb'.client].life # "none",
         Uncertain' => /\ wb.loaded /\ wb'.client = wb.client
                       /\ wb.op # t => (Shut => Shut')
                       /\ Uncertain /\ wb.op = t /\ Shutting(t) => Shutting(t)'
  PROVE  DoubtInv'
<1>1. /\ TypeOK /\ TypeOK' /\ OrderOK /\ NamesOK /\ AnswersOK /\ ReadyOK /\ ShutOK
      /\ OneUnsettled /\ NewestOK
  BY DEF DoubtInv, FenceInv
<1>2. /\ Inside /\ SameOrder /\ ops' = ops /\ ThreadsFollow /\ wb'.closed = wb.closed
      /\ \A u \in Ops : u # t => th'[u] = th[u]
  BY ConstantFacts DEF Local, Inside
<1>3. Shrinks
  BY <1>1, <1>2, InsideShrinks
<1>4. OrderOK'
  BY <1>1, <1>2, OrderFollows
<1>5. NamesOK'
  <2>1. wb'.client # NoRun => wb'.client \in Runs /\ rt'[wb'.client].life # "none"
    <3>1. wb'.client # NoRun => wb'.client \in Runs
      BY <1>1 DEF TypeOK, Memory
    <3> QED BY <1>1, <1>2, <3>1 DEF NamesOK, Inside, SameMarks
  <2> QED BY <1>1, <1>2, <2>1, InsideNames
<1>6. AnswersOK'
  BY <1>1, <1>2, InsideAnswers
<1>7. ReadyOK'
  <2>1. \A u \in Ops : \/ Ready1(u)'
                       \/ th'[u] = th[u] /\ (~Superseded(u)' => ~Superseded(u))
    BY <1>2 DEF Superseded, SameOrder
  <2> QED BY <1>1, <1>3, <2>1, ReadyShrinks
<1>8. ShutOK'
  <2>1. ASSUME Uncertain'
        PROVE  /\ wb.up /\ ~wb.closed /\ wb.loaded /\ wb'.client = wb.client
               /\ Uncertain /\ wb.op \in Ops /\ Shutting(wb.op) => Shutting(wb.op)'
    <3>1. wb.up /\ ~wb.closed /\ wb'.intent = wb.intent /\ wb'.op = wb.op
      BY <1>2, <2>1 DEF Uncertain, SameOrder
    <3>2. Uncertain /\ wb.op \in Ops /\ Shutting(wb.op) => Shutting(wb.op)'
      <4>1. CASE wb.op = t
        BY <2>1, <3>1, <4>1
      <4>2. CASE wb.op # t
        BY <1>2, <2>1, <3>1, <4>2, OthersShut
      <4> QED BY <4>1, <4>2
    <3> QED BY <2>1, <3>1, <3>2
  <2>2. wb'.op = wb.op
    BY <1>2 DEF SameOrder
  <2> QED BY <1>1, <1>3, <2>1, <2>2, ShutShrinks
<1>9. OneUnsettled' /\ NewestOK'
  BY <1>1, <1>2, <1>3, ShrinkingCounts DEF SameOrder
<1> QED BY <1>4, <1>5, <1>6, <1>7, <1>8, <1>9 DEF DoubtInv

\* Steps after which the Workbench reports the same.
LEMMA SilentStep ==
  ASSUME DoubtInv, FenceInv', NEW t \in Ops, Local(t), wb' = wb,
         th'[t].pc \notin {"await", "adopt"},
         Uncertain /\ wb.op = t /\ Shutting(t) => Shutting(t)'
  PROVE  DoubtInv'
<1>1. Ready1(t)'
  BY DEF Ready1, Received
<1>2. Shut => Shut'
  BY DEF Shut
<1>3. Uncertain' => wb.loaded
  BY DEF Uncertain
<1> QED BY <1>1, <1>2, <1>3, LocalStep

\* A thread that is neither asking nor over is not shutting.
LEMMA NotShutting ==
  ASSUME NEW t, th[t].pc \in {"probe", "launch", "await", "task", "settle", "kill",
                              "handoff", "cancel", "identify", "adopt"}
  PROVE  ~Shutting(t)
  BY DEF Shutting, Asks, Asking

-----------------------------------------------------------------------------
(* One lemma per step of a thread.                                         *)

LEMMA DoubtDomains ==
  ASSUME DoubtInv
  PROVE  /\ TypeOK /\ NumbersOK /\ OrderOK /\ NamesOK /\ AnswersOK /\ ReadyOK
         /\ ShutOK /\ CurrentOK /\ BoundOK /\ OneUnsettled /\ NewestOK
         /\ wb \in Memory /\ SameMarks(rt)
  BY Domains DEF DoubtInv, FenceInv, SameMarks

LEMMA StillOrder ==
  ASSUME UNCHANGED wb
  PROVE  SameOrder /\ wb'.closed = wb.closed
  BY DEF SameOrder

LEMMA HandleErrorDoubt ==
  ASSUME DoubtInv, FenceInv', NEW t \in Ops, HandleError(t)
  PROVE  DoubtInv'
<1>1. /\ TypeOK /\ wb \in Memory /\ th[t].pc = "error" /\ SameMarks(rt)
  BY DoubtDomains DEF HandleError, At
<1>2. \/ wb' = wb /\ ~(wb.op = t /\ ~wb.closed)
      \/ /\ wb.op = t /\ ~wb.closed
         /\ wb' = [wb EXCEPT !.status = Failed(wb, th[t].code)]
  BY DEF HandleError
<1>3. SameOrder /\ wb'.closed = wb.closed
  <2> DEFINE s == Failed(wb, th[t].code)
  <2>1. wb' = wb \/ wb' = [wb EXCEPT !.status = s]
    BY <1>2
  <2> HIDE DEF s
  <2> QED BY <1>1, <2>1 DEF SameOrder, Memory
<1>4. "save" \in Pending \ Asking /\ "save" \notin Working
  BY DEF Pending, Asking, Working
<1>5. Local(t) /\ th'[t].pc = "save" /\ th'[t].code = th[t].code
  BY <1>1, <1>3, <1>4, LocalGoes DEF HandleError, bounds
<1>6. CASE wb' = wb /\ ~(wb.op = t /\ ~wb.closed)
  BY <1>5, <1>6, SilentStep DEF Uncertain
<1>7. CASE wb.op = t /\ ~wb.closed
  <2>1. wb' = [wb EXCEPT !.status = Failed(wb, th[t].code)]
    BY <1>2, <1>7
  <2>2. /\ wb'.client = wb.client /\ wb'.loaded = wb.loaded
        /\ wb'.status = Failed(wb, th[t].code)
    BY <1>1, <2>1 DEF Memory
  <2>3. Uncertain /\ Shutting(t) => Shutting(t)'
    <3> SUFFICES ASSUME Uncertain, Shutting(t) PROVE Shutting(t)'
      OBVIOUS
    <3>1. th[t].code # "rejected" /\ wb.client # NoRun
      BY <1>1 DEF Shutting, Asks, Asking, Uncertain
    <3>2. wb'.status \in {"command_unknown", "recovery_required"}
      BY <2>2, <3>1 DEF Failed
    <3> QED BY <1>5, <3>2 DEF Shutting, Shut
  <2>4. Ready1(t)'
    BY <1>5 DEF Ready1, Received
  <2>5. Uncertain' => wb.loaded
    BY <2>2 DEF Uncertain
  <2> QED BY <1>5, <1>7, <2>2, <2>3, <2>4, <2>5, LocalStep
<1> QED BY <1>2, <1>6, <1>7

LEMMA SaveDoubt ==
  ASSUME DoubtInv, FenceInv', NEW t \in Ops, Save(t)
  PROVE  DoubtInv'
<1>1. /\ TypeOK /\ wb' = wb /\ th[t].pc = "save" /\ SameMarks(rt)
      /\ th \in [Threads -> Thread] /\ t \in Threads
  BY DoubtDomains, Domains, ConstantFacts DEF Save, At
<1>2. th'[t] = Done /\ \A u \in Threads \ {t} : th'[u] = th[u]
  BY <1>1 DEF Save
<1>3. Done.pc = "done" /\ Done.intent = 0 /\ Done.run = NoRun
  BY DEF Done, NoThread
<1>4. "done" \notin Working /\ "done" \notin Asking
  BY DEF Working, Pending, Asking
<1>5. Follows(t)
  BY <1>1, <1>2, <1>3, <1>4 DEF Follows
<1>6. Local(t)
  BY <1>1, <1>2, <1>5, OneFollows, StillOrder, ConstantFacts
     DEF Local, Inside, Save, bounds
<1>7. Shutting(t) => Shutting(t)'
  BY <1>1, <1>2, <1>3 DEF Shutting, Asks, Asking, Shut
<1> QED BY <1>1, <1>2, <1>3, <1>6, <1>7, SilentStep

\* A thread at a place where it is not shutting goes on or fails, and the
\* Workbench reports the same.
LEMMA SilentEnds ==
  ASSUME DoubtInv, FenceInv', NEW t \in Ops, UNCHANGED <<wb, wire, ops>>,
         SameMarks(rt'),
         th[t].pc \in {"probe", "launch", "await", "task", "settle", "kill",
                       "handoff", "cancel", "identify", "adopt"},
         \/ Raise(t, "other")
         \/ Goto(t, "save")
         \/ th[t].pc = "probe" /\ Goto(t, "launch")
         \/ th[t].pc = "kill" /\ Goto(t, "handoff")
  PROVE  DoubtInv'
<1>1. TypeOK /\ OrderOK /\ ~Shutting(t)
  BY DoubtDomains, NotShutting
<1>2. /\ {"save", "launch", "handoff"} \subseteq Pending \ Asking
      /\ "save" \notin Working /\ {"probe", "kill"} \subseteq Working
      /\ "other" \in Codes
  BY DEF Pending, Asking, Working, Codes
<1>3. th[t].pc = "kill" => th[t].act = "stop"
  BY <1>1 DEF OrderOK
<1>4. CASE Raise(t, "other")
  BY <1>1, <1>2, <1>4, StillOrder, LocalFails, SilentStep
<1>5. CASE Goto(t, "save")
  BY <1>1, <1>2, <1>5, StillOrder, LocalGoes, SilentStep
<1>6. CASE th[t].pc = "probe" /\ Goto(t, "launch")
  BY <1>1, <1>2, <1>6, StillOrder, LocalGoes, SilentStep
<1>7. CASE th[t].pc = "kill" /\ Goto(t, "handoff")
  BY <1>1, <1>2, <1>3, <1>7, StillOrder, LocalGoes, SilentStep
<1> QED BY <1>4, <1>5, <1>6, <1>7

LEMMA ProcessMarks ==
  ASSUME DoubtInv
  PROVE  /\ SameMarks(Gone(wb.process, rt)) /\ SameMarks(rt)
         /\ \A t \in Ops : SameMarks(Gone(th[t].run, rt))
<1>1. TypeOK /\ wb.process \in Runs \cup {NoRun}
  BY DoubtDomains DEF Memory
<1>2. \A t \in Ops : th[t].run \in Runs \cup {NoRun}
  BY <1>1, Domains, ConstantFacts DEF Thread
<1> QED BY <1>1, <1>2, GoneMarks

LEMMA ProbeDoubt ==
  ASSUME DoubtInv, FenceInv', NEW t \in Ops, Probe(t) \/ Abandon(t) \/ Kill(t)
  PROVE  DoubtInv'
<1>1. t # Closer
  BY DEF Ops, Closer
<1> QED BY <1>1, ProcessMarks, SilentEnds DEF Probe, Abandon, Kill, At, bounds

\* A step that reports no loaded runtime leaves nothing to be shut.
LEMMA UnloadStep ==
  ASSUME DoubtInv, FenceInv', NEW t \in Ops, SameMarks(rt'),
         UNCHANGED <<wire, ops>>, SameOrder, wb'.closed = wb.closed,
         th[t].pc \in Working \ {"reply"}, Goto(t, "save"),
         wb'.client \in {NoRun, wb.client},
         ~wb'.loaded \/ wb'.client = NoRun
  PROVE  DoubtInv'
<1>1. /\ "save" \in Pending \ Asking /\ "save" \notin Working
      /\ "none" \notin Working
  BY DEF Pending, Asking, Working
<1>2. Local(t) /\ th'[t].pc = "save"
  BY <1>1, DoubtDomains, LocalGoes
<1>3. Ready1(t)' /\ ~Uncertain'
  BY <1>2 DEF Ready1, Received, Uncertain
<1> QED BY <1>2, <1>3, LocalStep

LEMMA TaskDoubt ==
  ASSUME DoubtInv, FenceInv', NEW t \in Ops, Task(t)
  PROVE  DoubtInv'
<1>1. /\ wb \in Memory /\ th[t].pc = "task" /\ UNCHANGED <<wire, ops, rt>>
      /\ SameMarks(rt')
  BY ProcessMarks, DoubtDomains DEF Task, At, bounds
<1>2. CASE UNCHANGED wb
  BY <1>1, <1>2, SilentEnds DEF Task
<1>3. CASE ~UNCHANGED wb
  <2>1. wb.client = NoRun /\ wb' = [wb EXCEPT !.status = "idle"] /\ Goto(t, "save")
    BY <1>3 DEF Task
  <2>2. SameOrder /\ wb'.closed = wb.closed /\ wb'.client = NoRun
    BY <1>1, <2>1, MemoryOrder DEF SameOrder, Memory
  <2>3. "task" \in Working
    BY DEF Working, Pending
  <2> QED BY <1>1, <2>1, <2>2, <2>3, UnloadStep
<1> QED BY <1>2, <1>3

LEMMA CancelDoubt ==
  ASSUME DoubtInv, FenceInv', NEW t \in Ops, Cancel(t)
  PROVE  DoubtInv'
<1>1. /\ wb \in Memory /\ th[t].pc = "cancel" /\ UNCHANGED <<wire, ops>>
      /\ SameMarks(rt) /\ SameMarks(Gone(wb.process, rt))
  BY ProcessMarks, DoubtDomains DEF Cancel, At, bounds
<1>2. CASE Superseded(t)
  BY <1>1, <1>2, SilentEnds DEF Cancel
<1>3. CASE ~Superseded(t)
  <2>1. /\ wb' = [wb EXCEPT !.client = NoRun, !.status = "stopped",
                            !.loaded = FALSE]
        /\ Goto(t, "save") /\ SameMarks(rt')
    BY <1>1, <1>3 DEF Cancel
  <2>2. SameOrder /\ wb'.closed = wb.closed /\ wb'.client = NoRun
    BY <1>1, <2>1, MemoryOrder DEF SameOrder, Memory
  <2>3. "cancel" \in Working
    BY DEF Working, Pending
  <2> QED BY <1>1, <2>1, <2>2, <2>3, UnloadStep
<1> QED BY <1>2, <1>3

LEMMA HandoffDoubt ==
  ASSUME DoubtInv, FenceInv', NEW t \in Ops, Handoff(t)
  PROVE  DoubtInv'
<1>1. /\ wb \in Memory /\ th[t].pc = "handoff" /\ UNCHANGED <<wire, ops, rt>>
      /\ SameMarks(rt')
  BY ProcessMarks, DoubtDomains DEF Handoff, At, bounds
<1>2. CASE UNCHANGED wb
  BY <1>1, <1>2, SilentEnds DEF Handoff
<1>3. CASE ~UNCHANGED wb
  <2>1. wb' = Stopped(wb) /\ Goto(t, "save")
    BY <1>3 DEF Handoff
  <2>2. SameOrder /\ wb'.closed = wb.closed /\ wb'.client = NoRun
    BY <1>1, <2>1, MemoryOrder DEF SameOrder, Memory, Stopped
  <2>3. "handoff" \in Working
    BY DEF Working, Pending
  <2> QED BY <1>1, <2>1, <2>2, <2>3, UnloadStep
<1> QED BY <1>2, <1>3

LEMMA LaunchDoubt ==
  ASSUME DoubtInv, FenceInv', NEW t \in Ops, Launch(t)
  PROVE  DoubtInv'
<1>1. /\ TypeOK /\ TypeOK' /\ wb \in Memory /\ th[t].pc = "launch"
      /\ UNCHANGED <<wire, ops>> /\ SameMarks(rt) /\ t \in Threads
      /\ th \in [Threads -> Thread] /\ th[t] \in Thread /\ AnswersOK
  BY DoubtDomains, Domains, ConstantFacts DEF Launch, At, bounds, FenceInv
<1>2. CASE Raise(t, "other") /\ UNCHANGED <<wb, disk, rt>>
  BY <1>1, <1>2, SilentEnds
<1>3. CASE /\ \E r \in Runs : rt[r].life = "none"
           /\ rt' = [rt EXCEPT ![NextRun].life = "starting"]
           /\ wb' = [wb EXCEPT !.process = NextRun, !.status = "loading",
                               !.loaded = FALSE]
           /\ th' = [th EXCEPT ![t].pc = "await", ![t].run = NextRun]
  <2> DEFINE n == NextRun
  <2>1. n \in Runs /\ rt[n].life = "none" /\ rt[n] \in Runtime
    BY <1>1, <1>3, Domains DEF NextRun
  <2>2. rt' = [rt EXCEPT ![n].life = "starting"]
        /\ wb' = [wb EXCEPT !.process = n, !.status = "loading", !.loaded = FALSE]
        /\ th' = [th EXCEPT ![t] = [th[t] EXCEPT !.pc = "await", !.run = n]]
    BY <1>3
  <2> HIDE DEF n
  <2>3. SameMarks(rt') /\ rt'[n].life = "starting"
    BY <1>1, <2>1, <2>2, LifeMarks, Domains DEF Runtime
  <2>4. SameOrder /\ wb'.closed = wb.closed /\ ~wb'.loaded /\ wb'.client = wb.client
    BY <1>1, <2>2 DEF Memory, SameOrder
  <2>5. /\ th'[t].pc = "await" /\ th'[t].run = n /\ th'[t].intent = th[t].intent
        /\ \A u \in Threads \ {t} : th'[u] = th[u]
    BY <1>1, <2>2 DEF Thread
  <2>6. {"launch", "await"} \subseteq Working \ Asking
    BY DEF Working, Pending, Asking
  <2>7. Follows(t)
    BY <1>1, <2>3, <2>5, <2>6 DEF Follows
  <2>8. Local(t)
    BY <1>1, <2>3, <2>4, <2>5, <2>7, OneFollows, ConstantFacts DEF Local, Inside
  <2>9. Ready1(t)'
    <3>1. Unsettled(n) = {}
      BY <1>1, <2>1 DEF AnswersOK
    <3>2. Shrinks
      BY <1>1, <2>8, InsideShrinks DEF Local
    <3>3. \A r \in Runs : r = n => Unsettled(r)' = {}
      BY <3>1, <3>2 DEF Shrinks
    <3> QED BY <2>1, <2>5, <3>3 DEF Ready1
  <2>10. ~Uncertain'
    BY <2>4 DEF Uncertain
  <2> QED BY <2>4, <2>8, <2>9, <2>10, LocalStep
<1> QED BY <1>2, <1>3 DEF Launch

\* The Workbench takes over a runtime of which nothing is unsettled.
LEMMA TakeOver ==
  ASSUME DoubtInv, FenceInv', NEW t \in Ops, UNCHANGED <<wire, ops, rt>>,
         SameOrder, wb'.closed = wb.closed, Received(t), ~Superseded(t),
         Goto(t, "save"), wb'.client = th[t].run
  PROVE  DoubtInv'
<1>1. /\ TypeOK /\ TypeOK' /\ ReadyOK /\ NamesOK /\ SameMarks(rt')
      /\ th[t].run \in Runs \cup {NoRun}
  BY DoubtDomains, Domains, ConstantFacts DEF FenceInv, Thread, SameMarks
<1>2. /\ "save" \in Pending \ Asking /\ "save" \notin Working
      /\ th[t].pc \notin {"none", "reply"}
  BY DEF Pending, Asking, Working, Received
<1>3. Local(t) /\ th'[t].pc = "save"
  BY <1>1, <1>2, LocalGoes
<1>4. \A r \in Runs : r = th[t].run => Unsettled(r)' = {}
  <2>1. th[t].run # NoRun => Unsettled(th[t].run) = {}
    BY DoubtDomains DEF ReadyOK
  <2>2. Shrinks
    BY <1>1, <1>3, InsideShrinks DEF Local
  <2> QED BY <2>1, <2>2, ConstantFacts DEF Shrinks
<1>5. ~Uncertain'
  BY <1>1, <1>4 DEF Uncertain
<1>6. Ready1(t)'
  BY <1>3 DEF Ready1, Received
<1>7. wb'.client = NoRun \/ rt'[wb'.client].life # "none"
  BY <1>1 DEF NamesOK
<1> QED BY <1>3, <1>5, <1>6, <1>7, LocalStep

LEMMA LoadDoubt ==
  ASSUME DoubtInv, FenceInv', NEW t \in Ops, Load(t)
  PROVE  DoubtInv'
<1>1. /\ wb \in Memory /\ UNCHANGED <<wire, ops, rt>> /\ Goto(t, "save")
      /\ Received(t) /\ ~Superseded(t)
      /\ wb' = [wb EXCEPT !.client = th[t].run, !.status = "loaded",
                          !.loaded = TRUE, !.startup = th[t].run]
  BY DoubtDomains DEF Load, At, bounds, Received
<1>2. SameOrder /\ wb'.closed = wb.closed /\ wb'.client = th[t].run
  BY <1>1 DEF SameOrder, Memory
<1> QED BY <1>1, <1>2, TakeOver

LEMMA AdoptDoubt ==
  ASSUME DoubtInv, FenceInv', NEW t \in Ops, Adopt(t)
  PROVE  DoubtInv'
<1>1. /\ wb \in Memory /\ UNCHANGED <<wire, ops, rt>> /\ th[t].pc = "adopt"
      /\ TypeOK /\ SameMarks(rt')
  BY DoubtDomains DEF Adopt, At, bounds, SameMarks
<1>2. CASE Superseded(t)
  BY <1>1, <1>2, SilentEnds DEF Adopt
<1>3. CASE ~Superseded(t) /\ th[t].code = "stopped"
  <2>1. /\ wb' = [wb EXCEPT !.client = NoRun, !.loaded = FALSE,
                   !.startup = th[t].run, !.prev = NoRun, !.status = "stopped"]
        /\ Goto(t, "handoff")
    BY <1>3 DEF Adopt
  <2>2. SameOrder /\ wb'.closed = wb.closed /\ wb'.client = NoRun
    BY <1>1, <2>1 DEF SameOrder, Memory
  <2>3. "handoff" \in Pending \ Asking /\ {"adopt", "handoff"} \subseteq Working
    BY DEF Pending, Asking, Working
  <2>4. Local(t) /\ th'[t].pc = "handoff"
    BY <1>1, <1>3, <2>1, <2>2, <2>3, LocalGoes
  <2>5. Ready1(t)' /\ ~Uncertain'
    BY <2>2, <2>4 DEF Ready1, Received, Uncertain
  <2> QED BY <2>2, <2>4, <2>5, LocalStep
<1>4. CASE ~Superseded(t) /\ th[t].code # "stopped"
  <2>1. /\ wb' = [wb EXCEPT !.client = th[t].run, !.loaded = TRUE,
                   !.startup = th[t].run, !.prev = NoRun, !.status = "loaded"]
        /\ Goto(t, "save") /\ Received(t)
    BY <1>1, <1>4 DEF Adopt, Received
  <2>2. SameOrder /\ wb'.closed = wb.closed /\ wb'.client = th[t].run
    BY <1>1, <2>1 DEF SameOrder, Memory
  <2> QED BY <1>1, <1>4, <2>1, <2>2, TakeOver
<1> QED BY <1>2, <1>3, <1>4

LEMMA SettleDoubt ==
  ASSUME DoubtInv, FenceInv', NEW t \in Ops, Settle(t)
  PROVE  DoubtInv'
<1>1. /\ wb \in Memory /\ UNCHANGED <<wire, ops, rt>> /\ th[t].pc = "settle"
      /\ TypeOK /\ SameMarks(rt') /\ OrderOK /\ ~Shutting(t)
  BY DoubtDomains, NotShutting DEF Settle, At, bounds, SameMarks
<1>2. CASE Superseded(t)
  BY <1>1, <1>2, SilentEnds DEF Settle
<1>3. CASE ~Superseded(t)
  <2>1. /\ wb' = wb \/ wb' = [wb EXCEPT !.status = "loaded"]
        /\ Goto(t, IF th[t].act = "stop" THEN "kill" ELSE "save")
    BY <1>3 DEF Settle
  <2>2. /\ SameOrder /\ wb'.closed = wb.closed /\ wb'.client = wb.client
        /\ wb'.loaded = wb.loaded
    BY <1>1, <2>1 DEF SameOrder, Memory
  <2>3. /\ {"kill", "save"} \subseteq Pending \ Asking /\ "save" \notin Working
        /\ {"settle", "kill"} \subseteq Working
    BY DEF Pending, Asking, Working
  <2>4. Local(t) /\ th'[t].pc \in {"kill", "save"}
    <3>1. CASE th[t].act = "stop"
      BY <1>1, <2>1, <2>2, <2>3, <3>1, LocalGoes
    <3>2. CASE th[t].act # "stop"
      BY <1>1, <2>1, <2>2, <2>3, <3>2, LocalGoes
    <3> QED BY <3>1, <3>2
  <2>5. wb.op = t
    BY <1>1, <1>3, <2>3 DEF OrderOK, Superseded
  <2>6. Ready1(t)' /\ (Uncertain' => wb.loaded)
    BY <2>2, <2>4 DEF Ready1, Received, Uncertain
  <2> QED BY <1>1, <2>2, <2>4, <2>5, <2>6, LocalStep
<1> QED BY <1>2, <1>3

\* The command that still holds the intent is all that is unsettled of its
\* runtime: when it is refused or answered, nothing is left.
LEMMA EntryLeaves ==
  ASSUME DoubtInv, TypeOK', NEW t \in Ops, Asks(t, Entries), ~Superseded(t),
         th'[t].pc \notin Asking, Shrinks,
         \A r \in Runs : rt'[r].doubt = rt[r].doubt
  PROVE  /\ \A r \in Runs : r = th[t].run => Unsettled(r)' = {}
         /\ wb' = wb => ~Uncertain'
<1>1. /\ th[t].run \in Runs /\ th[t].pc \in Asking
      /\ rt[th[t].run].recovered < t
  BY DoubtDomains, EntriesNameRuns DEF CurrentOK, Asks
<1>2. ASSUME NEW r \in Runs, r = th[t].run, NEW u \in Unsettled(r)'
      PROVE  FALSE
  <2>1. u \in Unsettled(r)
    BY <1>2 DEF Shrinks
  <2>2. t \in Unsettled(r)
    <3>1. rt[r].recovered \in Nat /\ t \in Nat
      BY DoubtDomains, ConstantFacts DEF TypeOK, Runtime
    <3> QED BY <1>1, <1>2, <3>1 DEF Unsettled
  <2>3. u = t
    BY <2>1, <2>2, DoubtDomains DEF OneUnsettled
  <2>4. t \in rt[r].doubt
    BY <1>2, <2>3 DEF Unsettled, Asks
  <2> QED BY <2>4, DoubtDomains DEF AnswersOK
<1>3. ASSUME wb' = wb, Uncertain'
      PROVE  FALSE
  <2>1. wb.client \in Runs /\ wb.client # NoRun /\ Unsettled(wb.client)' # {}
    BY <1>3, DoubtDomains DEF Uncertain, Memory
  <2>2. PICK r \in Runs : r = wb.client /\ Unsettled(r)' # {}
    BY <1>3, <2>1
  <2>3. Uncertain
    BY <1>3, <2>1, <2>2 DEF Uncertain, Shrinks
  <2>4. wb.op = t
    <3>1. th[t].pc \in Working
      BY <1>1 DEF Working, Pending, Asking
    <3> QED BY <3>1, DoubtDomains DEF OrderOK, Superseded
  <2>5. th[t].run = wb.client
    <3>1. Shutting(t)
      BY <2>3, <2>4, DoubtDomains DEF ShutOK
    <3> QED BY <1>1, <3>1 DEF Shutting, Asking
  <2> QED BY <1>2, <2>2, <2>5
<1> QED BY <1>2, <1>3

\* A command that asks goes on asking, or fails.
LEMMA AskingStep ==
  ASSUME DoubtInv, FenceInv', NEW t \in Ops, UNCHANGED <<wb, wire, ops, rt>>,
         th[t].pc \in Asking \ {"reply", "identify"},
         \/ \E pc \in {"environment", "send"} : Goto(t, pc)
         \/ \E code \in {"other", "unknown"} : Raise(t, code)
         \/ Raise(t, "rejected") /\ th[t].act \in Entries /\ ~Superseded(t)
  PROVE  DoubtInv'
<1>1. TypeOK /\ TypeOK' /\ SameMarks(rt') /\ SameOrder /\ wb'.closed = wb.closed
  BY DoubtDomains, StillOrder DEF FenceInv, SameMarks
<1>2. /\ {"environment", "send"} \subseteq Pending \cap (Asking \ {"identify"})
      /\ Asking \subseteq Working /\ "none" \notin Asking
      /\ {"other", "unknown", "rejected"} \subseteq Codes /\ "error" \notin Asking
      /\ th[t].pc \notin {"error", "save", "done"}
  BY DEF Pending, Asking, Working, Codes
<1>3. ASSUME NEW pc \in {"environment", "send"}, Goto(t, pc)
      PROVE  DoubtInv'
  <2>1. /\ Local(t) /\ th'[t].pc = pc /\ th'[t].act = th[t].act
        /\ th'[t].run = th[t].run
    BY <1>1, <1>2, <1>3, LocalGoes
  <2>2. Shutting(t) => Shutting(t)'
    BY <1>2, <2>1 DEF Shutting, Asks
  <2> QED BY <2>1, <2>2, SilentStep
<1>4. ASSUME NEW code \in {"other", "unknown"}, Raise(t, code)
      PROVE  DoubtInv'
  <2>1. Local(t) /\ th'[t].pc = "error" /\ th'[t].code = code
    BY <1>1, <1>2, <1>4, LocalFails
  <2>2. Shutting(t)'
    BY <2>1 DEF Shutting
  <2> QED BY <2>1, <2>2, SilentStep
<1>5. ASSUME Raise(t, "rejected"), th[t].act \in Entries, ~Superseded(t)
      PROVE  DoubtInv'
  <2>1. Local(t) /\ th'[t].pc = "error"
    BY <1>1, <1>2, <1>5, LocalFails
  <2>2. Shrinks /\ \A r \in Runs : rt'[r].doubt = rt[r].doubt
    BY <1>1, <2>1, InsideShrinks DEF Local
  <2>3. ~Uncertain'
    BY <1>1, <1>2, <1>5, <2>1, <2>2, EntryLeaves DEF Asks
  <2>4. Ready1(t)'
    BY <2>1 DEF Ready1, Received
  <2> QED BY <2>1, <2>3, <2>4, LocalStep
<1> QED BY <1>3, <1>4, <1>5

LEMMA ObserveDoubt ==
  ASSUME DoubtInv, FenceInv', NEW t \in Ops, Observe(t) \/ PrepareGame(t)
  PROVE  DoubtInv'
<1>1. CASE Observe(t)
  <2>1. th[t].pc \in Asking \ {"reply", "identify"} /\ UNCHANGED <<wb, wire, ops, rt>>
    BY <1>1 DEF Observe, At, bounds, Asking
  <2>2. \/ \E pc \in {"environment", "send"} : Goto(t, pc)
        \/ Raise(t, "other")
    BY <1>1 DEF Observe
  <2> QED BY <2>1, <2>2, AskingStep
<1>2. CASE PrepareGame(t)
  <2>1. th[t].pc \in Asking \ {"reply", "identify"} /\ UNCHANGED <<wb, wire, ops, rt>>
    BY <1>2 DEF PrepareGame, At, bounds, Asking
  <2>2. CASE ~Superseded(t) /\ Raise(t, "rejected")
    <3>1. th[t].act \in Entries
      BY <1>2, DoubtDomains DEF PrepareGame, At, OrderOK
    <3> QED BY <2>1, <2>2, <3>1, AskingStep
  <2>3. CASE ~(~Superseded(t) /\ Raise(t, "rejected"))
    <3>1. \/ Goto(t, "send") \/ Raise(t, "unknown") \/ Raise(t, "other")
      BY <1>2, <2>3 DEF PrepareGame
    <3> QED BY <2>1, <3>1, AskingStep
  <2> QED BY <2>2, <2>3
<1> QED BY <1>1, <1>2

LEMMA BindDoubt ==
  ASSUME DoubtInv, FenceInv', NEW t \in Ops, Bind(t)
  PROVE  DoubtInv'
<1>1. /\ TypeOK /\ th[t].pc = "environment" /\ UNCHANGED <<wb, wire, ops, rt>>
      /\ th[t].act \in Entries /\ th \in [Threads -> Thread] /\ t \in Threads
      /\ th[t] \in Thread /\ SameMarks(rt')
  BY DoubtDomains, Domains, ConstantFacts DEF Bind, At, bounds, NumbersOK, SameMarks
<1>2. {"environment", "prepare"} \subseteq Asking \cap Working
  BY DEF Asking, Working, Pending
<1>3. CASE Raise(t, "other") \/ (Raise(t, "rejected") /\ ~Superseded(t))
  BY <1>1, <1>2, <1>3, AskingStep
<1>4. ASSUME NEW e, th' = [th EXCEPT ![t].pc = "prepare", ![t].epoch = e]
      PROVE  DoubtInv'
  <2>1. th'[t] = [th[t] EXCEPT !.pc = "prepare", !.epoch = e]
        /\ \A u \in Threads \ {t} : th'[u] = th[u]
    BY <1>1, <1>4
  <2>2. /\ th'[t].pc = "prepare" /\ th'[t].act = th[t].act
        /\ th'[t].run = th[t].run /\ th'[t].intent = th[t].intent
    BY <1>1, <2>1 DEF Thread
  <2>3. Follows(t)
    BY <1>1, <1>2, <2>2 DEF Follows, Asks
  <2>4. Local(t)
    BY <1>1, <2>1, <2>3, OneFollows, StillOrder, ConstantFacts DEF Local, Inside
  <2>5. Shutting(t) => Shutting(t)'
    BY <1>1, <1>2, <2>2 DEF Shutting, Asks
  <2> QED BY <1>1, <2>2, <2>4, <2>5, SilentStep
<1> QED BY <1>3, <1>4 DEF Bind

LEMMA IdentifyDoubt ==
  ASSUME DoubtInv, FenceInv', NEW t \in Ops, Identify(t)
  PROVE  DoubtInv'
<1>1. /\ TypeOK /\ th[t].pc = "identify" /\ UNCHANGED <<wb, wire, ops, rt>>
      /\ th \in [Threads -> Thread] /\ t \in Threads
      /\ th[t] \in Thread /\ SameMarks(rt') /\ wb \in Memory /\ NumbersOK
  BY DoubtDomains, Domains, ConstantFacts DEF Identify, At, bounds, SameMarks
<1>2. CASE Raise(t, "other") \/ Goto(t, "save")
  BY <1>1, <1>2, SilentEnds
<1>3. ASSUME NEW pc \in {"send", "adopt"}, NEW code \in {"none", "stopped"},
             pc = "adopt" => code = "stopped",
             wb.prev \in Runs, Listening(wb.prev),
             th' = [th EXCEPT ![t].run = wb.prev, ![t].pc = pc, ![t].code = code]
      PROVE  DoubtInv'
  <2> DEFINE r == wb.prev
  <2>1. r \in Runs /\ rt'[r].life # "none"
    BY <1>1, <1>3 DEF Listening
  <2>2. th'[t] = [th[t] EXCEPT !.run = r, !.pc = pc, !.code = code]
        /\ \A u \in Threads \ {t} : th'[u] = th[u]
    BY <1>1, <1>3
  <2> HIDE DEF r
  <2>3. /\ th'[t].pc = pc /\ th'[t].act = th[t].act /\ th'[t].run = r
        /\ th'[t].intent = th[t].intent /\ th'[t].code = code
    BY <1>1, <2>2 DEF Thread
  <2>4. th[t].act \notin Entries /\ {"identify", "send", "adopt"} \subseteq Working
    BY <1>1 DEF NumbersOK, Asking, Entries, Recoveries, Working, Pending
  <2>5. Follows(t)
    BY <1>1, <2>1, <2>3, <2>4 DEF Follows
  <2>6. Local(t)
    BY <1>1, <2>2, <2>5, OneFollows, StillOrder, ConstantFacts DEF Local, Inside
  <2>7. Ready1(t)'
    BY <1>3, <2>3 DEF Ready1, Received
  <2>8. ~Shutting(t) /\ (Uncertain' => wb.loaded) /\ (Shut => Shut')
    BY <1>1, NotShutting DEF Uncertain, Shut
  <2> QED BY <1>1, <2>6, <2>7, <2>8, LocalStep
<1>4. CASE /\ wb.prev \in Runs /\ Listening(wb.prev)
           /\ th' = [th EXCEPT ![t].run = wb.prev,
                       ![t].pc = IF rt[wb.prev].life = "running"
                                 THEN "send" ELSE "adopt",
                       ![t].code = IF rt[wb.prev].life = "running"
                                   THEN "none" ELSE "stopped"]
  <2>1. CASE rt[wb.prev].life = "running"
    BY <1>3, <1>4, <2>1
  <2>2. CASE rt[wb.prev].life # "running"
    BY <1>3, <1>4, <2>2
  <2> QED BY <2>1, <2>2
<1> QED BY <1>2, <1>4 DEF Identify

-----------------------------------------------------------------------------
(* Steps that write, answer or give up a request.                          *)

\* No runtime is forgotten, and requests of waiting threads stay theirs.
LivesOn == \A r \in Runs : rt[r].life # "none" => rt'[r].life # "none"
StillAwaited ==
  \A u \in Ops : th'[u] = th[u] /\ th[u].pc = "reply" =>
                   wire'[u].run = wire[u].run /\ wire'[u].act = wire[u].act

LEMMA FollowingNames ==
  ASSUME TypeOK, TypeOK', NamesOK, ThreadsFollow, LivesOn, StillAwaited,
         wb'.client \in {NoRun, wb.client}
  PROVE  NamesOK'
<1>1. ASSUME NEW u \in Ops, th'[u].run # NoRun
      PROVE  rt'[th'[u].run].life # "none"
  <2>1. th'[u].run \in Runs
    BY <1>1, ConstantFacts DEF TypeOK, Thread
  <2>2. CASE th'[u].run = th[u].run
    BY <1>1, <2>1, <2>2 DEF NamesOK, LivesOn
  <2>3. CASE th'[u].run # th[u].run
    BY <1>1, <2>3 DEF ThreadsFollow, Follows
  <2> QED BY <2>2, <2>3
<1>2. ASSUME NEW u \in Ops, th'[u].pc = "reply"
      PROVE  wire'[u].run = th'[u].run /\ wire'[u].act = th'[u].act
  <2>1. CASE th'[u] = th[u]
    BY <1>2, <2>1 DEF NamesOK, StillAwaited
  <2>2. CASE th'[u] # th[u]
    BY <1>2, <2>2 DEF ThreadsFollow, Follows
  <2> QED BY <2>1, <2>2
<1>3. wb'.client # NoRun => rt'[wb'.client].life # "none"
  BY DEF NamesOK, LivesOn, TypeOK, Memory
<1> QED BY <1>1, <1>2, <1>3 DEF NamesOK

\* What a request in the wire still says.
Answers1(u) ==
  /\ wire[u].act \in Entries /\ wire[u].epoch = rt[wire[u].run].epoch
     => th[u].pc = "reply" \/ u \in rt[wire[u].run].doubt
  /\ wire[u].act \in Recoveries =>
       /\ wire[u].reply # "rejected"
       /\ wire[u].reply \in {"running", "stopped"} =>
            rt[wire[u].run].recovered >= u

LEMMA FollowingAnswers ==
  ASSUME TypeOK, TypeOK', AnswersOK, ThreadsFollow, Shrinks, LivesOn, ops' = ops,
         \A r \in Runs : \A u \in rt'[r].doubt :
           /\ u > rt'[r].recovered /\ u <= ops
           /\ u \in rt[r].doubt \/ ~Asks(u, Entries)',
         \A u \in Ops : Answers1(u)'
  PROVE  AnswersOK'
<1>1. \A r \in Runs : rt'[r].life = "none" => Unsettled(r)' = {}
  BY DEF LivesOn, AnswersOK, Shrinks
<1>2. ASSUME NEW r \in Runs, NEW u \in rt'[r].doubt
      PROVE  ~Asks(u, Entries)'
  <2>1. CASE u \in rt[r].doubt
    <3>1. ~Asks(u, Entries) /\ u \in Ops
      BY <1>2, <2>1 DEF AnswersOK, TypeOK, Runtime
    <3> QED BY <3>1 DEF ThreadsFollow, Follows, Asks
  <2>2. CASE u \notin rt[r].doubt
    BY <1>2, <2>2
  <2> QED BY <2>1, <2>2
<1> QED BY <1>1, <1>2 DEF AnswersOK, Answers1

LEMMA WireStep ==
  ASSUME DoubtInv, FenceInv', NEW t \in Ops, UNCHANGED <<wb, ops>>, ThreadsFollow,
         Shrinks, LivesOn, \A u \in Threads \ {t} : th'[u] = th[u], Ready1(t)',
         th[t].pc # "none", th'[t] # th[t],
         \A u \in Threads \ {t} : wire'[u] = wire[u],
         \A r \in Runs : /\ rt'[r].epoch = rt[r].epoch
                         /\ rt'[r].recovered = rt[r].recovered
                         /\ \/ rt'[r].doubt = rt[r].doubt
                            \/ /\ rt'[r].doubt = rt[r].doubt \cup {t}
                               /\ t > rt[r].recovered /\ th'[t].pc \notin Asking,
         Answers1(t)',
         Uncertain /\ Uncertain' /\ wb.op = t /\ Shutting(t) => Shutting(t)'
  PROVE  DoubtInv'
<1>1. /\ TypeOK /\ TypeOK' /\ OrderOK /\ NamesOK /\ AnswersOK /\ ReadyOK /\ ShutOK
      /\ OneUnsettled /\ NewestOK /\ SameOrder /\ ops' = ops
  BY DoubtDomains, StillOrder DEF FenceInv
<1>2. \A u \in Ops : u # t => th'[u] = th[u] /\ wire'[u] = wire[u]
  BY ConstantFacts
<1>3. OrderOK'
  BY <1>1, OrderFollows
<1>4. NamesOK'
  <2>1. StillAwaited
    BY <1>2 DEF StillAwaited
  <2>2. wb'.client \in {NoRun, wb.client}
    OBVIOUS
  <2> QED BY <1>1, <2>1, <2>2, FollowingNames
<1>5. AnswersOK'
  <2>1. ASSUME NEW r \in Runs, NEW u \in rt'[r].doubt
        PROVE  /\ u > rt'[r].recovered /\ u <= ops
               /\ u \in rt[r].doubt \/ ~Asks(u, Entries)'
    <3>1. CASE u \in rt[r].doubt
      BY <1>1, <3>1 DEF AnswersOK
    <3>2. CASE u \notin rt[r].doubt
      <4>1. u = t /\ t > rt'[r].recovered /\ ~Asks(t, Entries)'
        BY <2>1, <3>2 DEF Asks
      <4>2. t <= ops
        BY <1>1, ConstantFacts DEF OrderOK, NoThread, TypeOK
      <4> QED BY <4>1, <4>2
    <3> QED BY <3>1, <3>2
  <2>2. ASSUME NEW u \in Ops
        PROVE  Answers1(u)'
    <3>1. CASE u = t
      BY <3>1
    <3>2. CASE u # t
      <4>1. wire'[u] = wire[u] /\ th'[u] = th[u] /\ Answers1(u)
        BY <1>1, <1>2, <3>2 DEF AnswersOK, Answers1
      <4>2. wire[u].act \in Entries \cup Recoveries => wire[u].run \in Runs
        BY <1>1, Domains, ConstantFacts DEF Request, NoRequest, Entries, Recoveries
      <4>3. wire[u].run \in Runs => rt[wire[u].run].doubt \subseteq rt'[wire[u].run].doubt
        OBVIOUS
      <4>4. wire[u].run \in Runs =>
              /\ rt'[wire[u].run].epoch = rt[wire[u].run].epoch
              /\ rt'[wire[u].run].recovered = rt[wire[u].run].recovered
        OBVIOUS
      <4> QED BY <4>1, <4>2, <4>3, <4>4 DEF Answers1
    <3> QED BY <3>1, <3>2
  <2> QED BY <1>1, <2>1, <2>2, FollowingAnswers
<1>6. ReadyOK'
  <2>1. \A u \in Ops : \/ Ready1(u)'
                       \/ th'[u] = th[u] /\ (~Superseded(u)' => ~Superseded(u))
    BY <1>2 DEF Superseded
  <2> QED BY <1>1, <2>1, ReadyShrinks
<1>7. ShutOK'
  <2>1. ASSUME Uncertain', Uncertain, wb.op \in Ops, Shutting(wb.op)
        PROVE  Shutting(wb.op)'
    <3>1. CASE wb.op = t
      BY <2>1, <3>1
    <3>2. CASE wb.op # t
      BY <1>2, <2>1, <3>2, OthersShut DEF Shut
    <3> QED BY <3>1, <3>2
  <2>2. Uncertain' => wb.up /\ ~wb.closed /\ wb.loaded /\ wb'.client = wb.client
    BY DEF Uncertain
  <2> QED BY <1>1, <2>1, <2>2, ShutShrinks
<1>8. OneUnsettled' /\ NewestOK'
  BY <1>1, ShrinkingCounts
<1> QED BY <1>3, <1>4, <1>5, <1>6, <1>7, <1>8 DEF DoubtInv

LEMMA SendDoubt ==
  ASSUME DoubtInv, FenceInv', NEW t \in Ops, Send(t)
  PROVE  DoubtInv'
<1>1. /\ TypeOK /\ TypeOK' /\ th[t].pc = "send" /\ UNCHANGED <<wb, ops, rt>>
      /\ th \in [Threads -> Thread] /\ t \in Threads /\ th[t] \in Thread
      /\ SameMarks(rt') /\ NumbersOK /\ AnswersOK
      /\ wire \in [Threads -> Request \cup {NoRequest}]
  BY DoubtDomains, Domains, ConstantFacts
     DEF Send, At, bounds, SameMarks, FenceInv
<1>2. {"send", "reply"} \subseteq Asking \cap Working /\ "reply" \in Pending
  BY DEF Asking, Working, Pending
<1>3. CASE Superseded(t)
  <2>1. th[t].pc \in Asking \ {"reply", "identify"} /\ Raise(t, "other")
        /\ UNCHANGED wire
    BY <1>1, <1>2, <1>3 DEF Send
  <2> QED BY <1>1, <2>1, AskingStep
<1>4. CASE ~Superseded(t)
  <2>1. Post(t) /\ Goto(t, "reply")
    BY <1>4 DEF Send
  <2>2. th'[t] = [th[t] EXCEPT !.pc = "reply"]
        /\ \A u \in Threads \ {t} : th'[u] = th[u]
    BY <1>1, <1>2, <2>1, ThreadGoes
  <2>3. /\ th'[t].pc = "reply" /\ th'[t].act = th[t].act
        /\ th'[t].run = th[t].run /\ th'[t].intent = th[t].intent
    BY <1>1, <2>2 DEF Thread
  <2>4. /\ wire'[t].run = th[t].run /\ wire'[t].act = th[t].act
        /\ wire'[t].reply = "none"
        /\ \A u \in Threads \ {t} : wire'[u] = wire[u]
    BY <1>1, <2>1 DEF Post
  <2>5. Follows(t)
    BY <1>1, <1>2, <2>3, <2>4 DEF Follows, Asks
  <2>6. ThreadsFollow
    BY <1>1, <2>2, <2>5, OneFollows
  <2>7. LivesOn /\ \A r \in Runs : rt'[r] = rt[r]
    BY <1>1 DEF LivesOn
  <2>8. Shrinks
    <3>1. ASSUME NEW r \in Runs
          PROVE  /\ rt'[r].recovered >= rt[r].recovered
                 /\ rt'[r].doubt \subseteq Unsettled(r)
      <4>1. rt[r].recovered \in Nat /\ rt[r].doubt \subseteq Ops
        BY <1>1, ConstantFacts DEF TypeOK, Runtime
      <4>2. rt'[r] = rt[r]
        BY <1>1
      <4> QED BY <4>1, <4>2 DEF Unsettled
    <3> QED BY <1>1, <2>6, <3>1, UnsettledShrinks
  <2>9. Answers1(t)' /\ Ready1(t)'
    BY <2>3, <2>4 DEF Answers1, Ready1, Received
  <2>10. Shutting(t) => Shutting(t)'
    BY <1>1, <1>2, <2>3 DEF Shutting, Asks
  <2>11. th'[t] # th[t] /\ th[t].pc # "none"
    BY <1>1, <2>3
  <2> QED BY <1>1, <2>2, <2>4, <2>6, <2>7, <2>8, <2>9, <2>10, <2>11, WireStep
<1> QED BY <1>3, <1>4

\* A recovery that was answered has settled all there was.
LEMMA RecoveryLeaves ==
  ASSUME DoubtInv, NEW t \in Ops, wb.up, th[t].pc = "reply",
         th[t].act \in Recoveries, wire[t].reply \in {"running", "stopped"},
         ~Superseded(t)
  PROVE  th[t].run \in Runs /\ Unsettled(th[t].run) = {}
<1>1. th[t].run \in Runs /\ th[t].intent = t
  BY DoubtDomains DEF NumbersOK, Asking
<1>2. rt[th[t].run].recovered >= t
  BY DoubtDomains DEF NamesOK, AnswersOK
<1>3. wb.intent = t /\ t \in Nat /\ t >= 1
  BY <1>1, ConstantFacts DEF Superseded
<1>4. ASSUME NEW u \in Unsettled(th[t].run)
      PROVE  FALSE
  <2>1. u <= t /\ u \in Ops
    <3>1. u <= wb.intent
      BY <1>1, <1>3, <1>4, DoubtDomains DEF NewestOK
    <3> QED BY <1>3, <1>4, <3>1 DEF Unsettled
  <2>2. u > rt[th[t].run].recovered
    BY <1>1, DoubtDomains DEF Unsettled, AnswersOK
  <2>3. rt[th[t].run].recovered \in Nat /\ u \in Nat
    BY <1>1, <2>1, DoubtDomains, ConstantFacts DEF TypeOK, Runtime
  <2> QED BY <1>2, <1>3, <2>1, <2>2, <2>3
<1> QED BY <1>1, <1>4

LEMMA SameShrinks ==
  ASSUME TypeOK, TypeOK', rt' = rt, ThreadsFollow
  PROVE  Shrinks
<1>1. ASSUME NEW r \in Runs
      PROVE  /\ rt'[r].recovered >= rt[r].recovered
             /\ rt'[r].doubt \subseteq Unsettled(r)
  <2>1. /\ rt[r].recovered \in Nat /\ rt[r].doubt \subseteq Ops
        /\ rt'[r] = rt[r]
    BY ConstantFacts DEF TypeOK, Runtime
  <2> QED BY <2>1 DEF Unsettled
<1> QED BY <1>1, UnsettledShrinks

\* What thread t becomes when it receives an answer.
LEMMA Received1 ==
  ASSUME TypeOK, NEW t \in Ops, Receive(t)
  PROVE  /\ wb.up /\ th[t].pc = "reply" /\ UNCHANGED <<wb, ops, rt>>
         /\ wire[t].reply \in {"running", "stopped", "rejected"}
         /\ wire'[t] = NoRequest
         /\ \A u \in Threads \ {t} : wire'[u] = wire[u] /\ th'[u] = th[u]
         /\ \/ wire[t].reply = "rejected" /\ Raise(t, "rejected")
            \/ Superseded(t) /\ Raise(t, "other")
            \/ /\ wire[t].reply # "rejected" /\ ~Superseded(t)
               /\ th'[t].run = th[t].run /\ th'[t].intent = th[t].intent
               /\ \/ /\ th[t].act = "one_step"
                     /\ th'[t].pc = "send" /\ th'[t].act = "tick"
                  \/ /\ th[t].act # "one_step" /\ th'[t].act = th[t].act
                     /\ th'[t].pc \in {"adopt", "settle"}
<1>1. /\ th \in [Threads -> Thread] /\ t \in Threads /\ th[t] \in Thread
      /\ wire \in [Threads -> Request \cup {NoRequest}]
  BY Domains, ConstantFacts
<1>2. /\ wb.up /\ th[t].pc = "reply" /\ UNCHANGED <<wb, ops, rt>>
      /\ wire[t].reply \in {"running", "stopped", "rejected"}
      /\ wire'[t] = NoRequest
      /\ \A u \in Threads \ {t} : wire'[u] = wire[u]
  BY <1>1 DEF Receive, At, bounds
<1>3. CASE wire[t].reply = "rejected"
  <2>1. Raise(t, "rejected")
    BY <1>3 DEF Receive
  <2> QED BY <1>1, <1>2, <1>3, <2>1, Endings, ThreadRaises
<1>4. CASE wire[t].reply # "rejected" /\ Superseded(t)
  <2>1. Raise(t, "other")
    BY <1>4 DEF Receive
  <2> QED BY <1>1, <1>2, <1>4, <2>1, Endings, ThreadRaises
<1>5. CASE wire[t].reply # "rejected" /\ ~Superseded(t)
  <2> DEFINE pc == IF th[t].act = "one_step" THEN "send"
                   ELSE IF wb.prev # NoRun THEN "adopt" ELSE "settle"
             act == IF th[t].act = "one_step" THEN "tick" ELSE th[t].act
             code == IF wb.prev # NoRun /\ wire[t].reply = "stopped"
                     THEN "stopped" ELSE th[t].code
  <2>1. th' = [th EXCEPT ![t] = [th[t] EXCEPT !.pc = pc, !.act = act,
                                              !.code = code]]
    BY <1>1, <1>5 DEF Receive
  <2>2. \/ th[t].act = "one_step" /\ pc = "send" /\ act = "tick"
        \/ th[t].act # "one_step" /\ act = th[t].act /\ pc \in {"adopt", "settle"}
    OBVIOUS
  <2> HIDE DEF pc, act, code
  <2>3. /\ th'[t].pc = pc /\ th'[t].act = act /\ th'[t].run = th[t].run
        /\ th'[t].intent = th[t].intent
        /\ \A u \in Threads \ {t} : th'[u] = th[u]
    BY <1>1, <2>1 DEF Thread
  <2> QED BY <1>2, <1>5, <2>2, <2>3
<1> QED BY <1>3, <1>4, <1>5

LEMMA ReceiveDoubt ==
  ASSUME DoubtInv, FenceInv', NEW t \in Ops, Receive(t)
  PROVE  DoubtInv'
<1>1. /\ TypeOK /\ TypeOK' /\ NumbersOK /\ AnswersOK /\ NamesOK /\ t \in Threads
      /\ wb.up /\ th[t].pc = "reply" /\ UNCHANGED <<wb, ops, rt>>
      /\ wire[t].reply \in {"running", "stopped", "rejected"}
      /\ wire'[t] = NoRequest
      /\ \A u \in Threads \ {t} : wire'[u] = wire[u] /\ th'[u] = th[u]
  BY DoubtDomains, Received1, ConstantFacts DEF FenceInv
<1>2. /\ "reply" \in Asking \cap Working /\ "send" \in Asking \cap Working
      /\ {"adopt", "settle"} \subseteq Working \ Asking
      /\ "error" \notin Asking /\ {"tick", "one_step"} \subseteq Entries
  BY DEF Asking, Working, Pending, Entries
<1>3. /\ th[t].act \in Entries \cup Recoveries /\ th[t].intent = t
      /\ th[t].run \in Runs
      /\ wire[t].act = th[t].act /\ wire[t].run = th[t].run
      /\ wire[t].reply = "rejected" => th[t].act \in Entries
  BY <1>1, <1>2 DEF NumbersOK, NamesOK, AnswersOK
<1>4. LivesOn /\ Answers1(t)' /\ \A r \in Runs : rt'[r] = rt[r]
  BY <1>1 DEF LivesOn, Answers1, NoRequest, Entries, Recoveries
<1>5. ASSUME ThreadsFollow, th'[t] # th[t], Ready1(t)',
             Uncertain /\ Uncertain' /\ wb.op = t /\ Shutting(t) => Shutting(t)'
      PROVE  DoubtInv'
  <2>1. Shrinks
    BY <1>1, <1>5, SameShrinks
  <2> QED BY <1>1, <1>4, <1>5, <2>1, WireStep
<1>6. ASSUME NEW code \in Codes, Raise(t, code)
      PROVE  /\ ThreadsFollow /\ th'[t] # th[t] /\ Ready1(t)'
             /\ th'[t].pc = "error" /\ th'[t].code = code
  <2>1. ThreadsFollow /\ th'[t].pc = "error" /\ th'[t].code = code
    BY <1>1, <1>6, Fails
  <2> QED BY <1>1, <2>1 DEF Ready1, Received
<1>7. ASSUME ThreadsFollow, ~Superseded(t), th[t].act \in Entries,
             th'[t].pc \notin Asking
      PROVE  /\ \A r \in Runs : r = th[t].run => Unsettled(r)' = {}
             /\ ~Uncertain'
  <2>1. Shrinks /\ Asks(t, Entries) /\ \A r \in Runs : rt'[r].doubt = rt[r].doubt
    BY <1>1, <1>2, <1>4, <1>7, SameShrinks DEF Asks
  <2> QED BY <1>1, <1>7, <2>1, EntryLeaves
<1>8. CASE wire[t].reply = "rejected" /\ Raise(t, "rejected")
  <2>1. ThreadsFollow /\ th'[t] # th[t] /\ Ready1(t)' /\ th'[t].pc = "error"
    BY <1>6, <1>8, Endings
  <2>2. Uncertain /\ Shutting(t) => ~Superseded(t)
    BY <1>1, <1>3 DEF Uncertain, Shutting, Superseded
  <2> QED BY <1>2, <1>3, <1>5, <1>7, <1>8, <2>1, <2>2
<1>9. CASE Superseded(t) /\ Raise(t, "other")
  <2>1. /\ ThreadsFollow /\ th'[t] # th[t] /\ Ready1(t)' /\ th'[t].pc = "error"
        /\ th'[t].code = "other"
    BY <1>6, <1>9, Endings
  <2>2. Shutting(t)'
    BY <2>1 DEF Shutting
  <2> QED BY <1>5, <2>1, <2>2
<1>10. CASE /\ wire[t].reply # "rejected" /\ ~Superseded(t)
            /\ th'[t].run = th[t].run /\ th'[t].intent = th[t].intent
            /\ th[t].act = "one_step"
            /\ th'[t].pc = "send" /\ th'[t].act = "tick"
  <2>1. Follows(t)
    BY <1>1, <1>2, <1>10 DEF Follows, Asks
  <2>2. ThreadsFollow /\ th'[t] # th[t]
    BY <1>1, <1>10, <2>1, OneFollows
  <2>3. Ready1(t)'
    BY <1>10 DEF Ready1, Received
  <2>4. Shutting(t) => Shutting(t)'
    BY <1>1, <1>2, <1>10 DEF Shutting, Asks
  <2> QED BY <1>5, <2>2, <2>3, <2>4
<1>11. CASE /\ wire[t].reply # "rejected" /\ ~Superseded(t)
            /\ th'[t].run = th[t].run /\ th'[t].intent = th[t].intent
            /\ th[t].act # "one_step" /\ th'[t].act = th[t].act
            /\ th'[t].pc \in {"adopt", "settle"}
  <2>1. Follows(t)
    BY <1>1, <1>2, <1>11 DEF Follows
  <2>2. ThreadsFollow /\ th'[t] # th[t]
    BY <1>1, <1>11, <2>1, OneFollows
  <2>3. /\ \A r \in Runs : r = th[t].run => Unsettled(r)' = {}
        /\ Uncertain /\ Uncertain' /\ wb.op = t /\ Shutting(t) => Shutting(t)'
    <3>1. CASE th[t].act \in Entries
      BY <1>2, <1>7, <1>11, <2>2, <3>1
    <3>2. CASE th[t].act \in Recoveries
      <4>1. th[t].run \in Runs /\ Unsettled(th[t].run) = {}
        BY <1>1, <1>11, <3>2, RecoveryLeaves
      <4>2. Shrinks
        BY <1>1, <2>2, SameShrinks
      <4>3. \A r \in Runs : r = th[t].run => Unsettled(r)' = {}
        BY <4>1, <4>2 DEF Shrinks
      <4>4. Uncertain => ~Shutting(t)
        BY <1>1, <4>1 DEF Uncertain, Shutting
      <4> QED BY <4>3, <4>4
    <3> QED BY <1>3, <3>1, <3>2
  <2>4. Ready1(t)'
    BY <1>3, <1>11, <2>3 DEF Ready1
  <2> QED BY <1>5, <2>2, <2>3, <2>4
<1> QED BY <1>1, <1>8, <1>9, <1>10, <1>11, Received1

\* The commands of ts whose outcome runtime r leaves unknown.
Unanswered(ts, r) ==
  {t \in ts : /\ th[t].pc = "reply" /\ wire[t].act \in Entries
              /\ wire[t].run = r /\ wire[t].reply # "rejected"
              /\ t > rt[r].recovered}

LEMMA DoubtedMarks ==
  ASSUME TypeOK, NEW ts \in SUBSET Ops
  PROVE  \A r \in Runs :
           /\ Doubted(ts)[r].epoch = rt[r].epoch
           /\ Doubted(ts)[r].recovered = rt[r].recovered
           /\ Doubted(ts)[r].life = rt[r].life
           /\ Doubted(ts)[r].held = rt[r].held
           /\ Doubted(ts)[r].doubt = rt[r].doubt \cup Unanswered(ts, r)
<1> SUFFICES ASSUME NEW r \in Runs
             PROVE  /\ Doubted(ts)[r].epoch = rt[r].epoch
                    /\ Doubted(ts)[r].recovered = rt[r].recovered
                    /\ Doubted(ts)[r].life = rt[r].life
                    /\ Doubted(ts)[r].held = rt[r].held
                    /\ Doubted(ts)[r].doubt = rt[r].doubt \cup Unanswered(ts, r)
  OBVIOUS
<1> DEFINE d == Unanswered(ts, r)
<1>1. rt[r] \in Runtime
  BY Domains
<1>2. Doubted(ts)[r] = [rt[r] EXCEPT !.doubt = rt[r].doubt \cup d]
  BY DEF Doubted, Unanswered
<1> HIDE DEF d
<1>3. /\ Doubted(ts)[r].epoch = rt[r].epoch
      /\ Doubted(ts)[r].recovered = rt[r].recovered
      /\ Doubted(ts)[r].life = rt[r].life
      /\ Doubted(ts)[r].held = rt[r].held
      /\ Doubted(ts)[r].doubt = rt[r].doubt \cup d
  BY <1>1, <1>2 DEF Runtime
<1> QED BY <1>3 DEF d

\* They were unsettled as long as they asked.
LEMMA UnansweredAsked ==
  ASSUME DoubtInv, NEW ts \in SUBSET Ops, NEW r \in Runs
  PROVE  Unanswered(ts, r) \subseteq Unsettled(r)
<1> SUFFICES ASSUME NEW u \in Unanswered(ts, r)
             PROVE  u \in Unsettled(r)
  OBVIOUS
<1>1. /\ u \in Ops /\ th[u].pc = "reply" /\ wire[u].act \in Entries
      /\ wire[u].run = r /\ u > rt[r].recovered
  BY DEF Unanswered
<1>2. wire[u].run = th[u].run /\ wire[u].act = th[u].act /\ "reply" \in Asking
  BY <1>1, DoubtDomains DEF NamesOK, Asking
<1> QED BY <1>1, <1>2 DEF Unsettled, Asks

\* A request of an unknown outcome that the runtime would still accept.
LEMMA UnansweredStays ==
  ASSUME DoubtInv, NEW ts \in SUBSET Ops, NEW u \in ts, th[u].pc = "reply",
         wire[u].act \in Entries, wire[u].reply = "none",
         wire[u].epoch = rt[wire[u].run].epoch
  PROVE  wire[u].run \in Runs /\ u \in Unanswered(ts, wire[u].run)
<1>1. wire[u] \in Request
  BY DoubtDomains, Domains, ConstantFacts DEF NoRequest, Entries
<1>2. wire[u].run \in Runs /\ Binds(u, wire[u].run, wire[u].epoch)
  BY <1>1, DoubtDomains DEF Request, BoundOK
<1>3. rt[wire[u].run].recovered < u
  BY <1>2 DEF Binds
<1>4. rt[wire[u].run].recovered \in Nat /\ u \in Nat
  BY <1>2, DoubtDomains, ConstantFacts DEF TypeOK, Runtime
<1> QED BY <1>2, <1>3, <1>4 DEF Unanswered

LEMMA TimeOutDoubt ==
  ASSUME DoubtInv, FenceInv', NEW t \in Ops, TimeOut(t)
  PROVE  DoubtInv'
<1>1. /\ TypeOK /\ TypeOK' /\ t \in Threads /\ {t} \in SUBSET Ops
      /\ th[t].pc = "reply" /\ Raise(t, "unknown") /\ UNCHANGED <<wb, ops>>
      /\ rt' = Doubted({t}) /\ wire \in [Threads -> Request \cup {NoRequest}]
  BY DoubtDomains, Domains, ConstantFacts DEF TimeOut, At, bounds, FenceInv
<1>2. /\ wire'[t] = IF wire[t].reply = "none" THEN wire[t] ELSE NoRequest
      /\ \A u \in Threads \ {t} : wire'[u] = wire[u]
  BY <1>1 DEF TimeOut
<1>3. /\ ThreadsFollow /\ th'[t].pc = "error" /\ th'[t].code = "unknown"
      /\ \A u \in Threads \ {t} : th'[u] = th[u]
  BY <1>1, Fails, Endings
<1>4. \A r \in Runs : /\ rt'[r].epoch = rt[r].epoch
                      /\ rt'[r].recovered = rt[r].recovered
                      /\ rt'[r].life = rt[r].life
                      /\ rt'[r].doubt = rt[r].doubt \cup Unanswered({t}, r)
  BY <1>1, DoubtedMarks
<1>5. LivesOn
  BY <1>4 DEF LivesOn
<1>6. Shrinks
  <2>1. ASSUME NEW r \in Runs
        PROVE  /\ rt'[r].recovered >= rt[r].recovered
               /\ rt'[r].doubt \subseteq Unsettled(r)
    <3>1. rt[r].recovered \in Nat /\ rt[r].doubt \subseteq Ops
      BY <1>1, ConstantFacts DEF TypeOK, Runtime
    <3>2. Unanswered({t}, r) \subseteq Unsettled(r)
      BY <1>1, UnansweredAsked
    <3>3. rt[r].doubt \subseteq Unsettled(r)
      BY <3>1 DEF Unsettled
    <3>4. /\ rt'[r].recovered = rt[r].recovered
          /\ rt'[r].doubt = rt[r].doubt \cup Unanswered({t}, r)
      BY <1>4
    <3>5. rt'[r].recovered >= rt[r].recovered
      BY <3>1, <3>4
    <3>6. rt'[r].doubt \subseteq Unsettled(r)
      BY <3>2, <3>3, <3>4
    <3> QED BY <3>5, <3>6
  <2> QED BY <1>1, <1>3, <2>1, UnsettledShrinks
<1>7. Answers1(t)'
  <2>1. CASE wire'[t] = NoRequest
    BY <2>1 DEF Answers1, NoRequest, Entries, Recoveries
  <2>2. CASE wire[t].reply = "none" /\ wire'[t] = wire[t]
    <3>1. ASSUME wire[t].act \in Entries,
                 wire[t].epoch = rt'[wire[t].run].epoch
          PROVE  t \in rt'[wire[t].run].doubt
      <4>1. wire[t].run \in Runs
        BY <1>1, <3>1, ConstantFacts DEF Request, NoRequest, Entries
      <4>2. t \in Unanswered({t}, wire[t].run)
        <5>1. wire[t].epoch = rt[wire[t].run].epoch /\ t \in {t}
          BY <1>4, <3>1, <4>1
        <5> QED BY <1>1, <2>2, <3>1, <5>1, UnansweredStays
      <4> QED BY <1>4, <4>1, <4>2
    <3> QED BY <2>2, <3>1 DEF Answers1
  <2> QED BY <1>2, <2>1, <2>2
<1>8. \A r \in Runs : \/ rt'[r].doubt = rt[r].doubt
                      \/ /\ rt'[r].doubt = rt[r].doubt \cup {t}
                         /\ t > rt[r].recovered /\ th'[t].pc \notin Asking
  <2>1. \A r \in Runs : Unanswered({t}, r) = {} \/ (Unanswered({t}, r) = {t}
                                                    /\ t > rt[r].recovered)
    BY DEF Unanswered
  <2> QED BY <1>3, <1>4, <2>1 DEF Asking
<1>9. Ready1(t)' /\ Shutting(t)' /\ th'[t] # th[t] /\ th[t].pc # "none"
  BY <1>1, <1>3 DEF Ready1, Received, Shutting
<1> QED BY <1>1, <1>2, <1>3, <1>4, <1>5, <1>6, <1>7, <1>8, <1>9, WireStep

-----------------------------------------------------------------------------
(* Steps that no operation of the Workbench takes.                         *)

LEMMA SameAnswers ==
  ASSUME TypeOK, AnswersOK, NEW u \in Ops, wire'[u] = wire[u], th'[u] = th[u],
         SameMarks(rt')
  PROVE  Answers1(u)'
<1>1. CASE wire[u].act \in Entries \cup Recoveries
  <2>1. wire[u].run \in Runs
    BY <1>1, Domains, ConstantFacts DEF Request, NoRequest, Entries, Recoveries
  <2> QED BY <2>1 DEF AnswersOK, Answers1, SameMarks
<1>2. CASE wire[u].act \notin Entries \cup Recoveries
  BY <1>2 DEF Answers1
<1> QED BY <1>1, <1>2

LEMMA RestStep ==
  ASSUME DoubtInv, FenceInv', \A u \in Ops : th'[u] = th[u], SameOrder, ops' = ops,
         wb.closed => wb'.closed, LivesOn, StillAwaited,
         \A r \in Runs : /\ rt'[r].recovered >= rt[r].recovered
                         /\ rt'[r].doubt \subseteq rt[r].doubt
                         /\ \A u \in rt'[r].doubt : u > rt'[r].recovered,
         \A u \in Ops : Answers1(u)',
         wb'.client \in {NoRun, wb.client},
         Uncertain' => wb.loaded /\ wb'.client = wb.client /\ (Shut => Shut')
  PROVE  DoubtInv'
<1>1. /\ TypeOK /\ TypeOK' /\ OrderOK /\ NamesOK /\ AnswersOK /\ ReadyOK /\ ShutOK
      /\ OneUnsettled /\ NewestOK
  BY DoubtDomains DEF FenceInv
<1>2. ThreadsFollow
  BY DEF ThreadsFollow, Follows
<1>3. Shrinks
  <2>1. ASSUME NEW r \in Runs
        PROVE  rt'[r].doubt \subseteq Unsettled(r)
    <3>1. rt[r].doubt \subseteq Ops
      BY <1>1 DEF TypeOK, Runtime
    <3> QED BY <3>1 DEF Unsettled
  <2> QED BY <1>1, <1>2, <2>1, UnsettledShrinks
<1>4. OrderOK'
  BY <1>1, <1>2, OrderFollows
<1>5. NamesOK'
  BY <1>1, <1>2, FollowingNames
<1>6. AnswersOK'
  <2>1. \A r \in Runs : \A u \in rt'[r].doubt :
          /\ u > rt'[r].recovered /\ u <= ops
          /\ u \in rt[r].doubt \/ ~Asks(u, Entries)'
    BY <1>1 DEF AnswersOK
  <2> QED BY <1>1, <1>2, <1>3, <2>1, FollowingAnswers
<1>7. ReadyOK'
  <2>1. \A u \in Ops : th'[u] = th[u] /\ (~Superseded(u)' => ~Superseded(u))
    BY DEF Superseded, SameOrder
  <2> QED BY <1>1, <1>3, <2>1, ReadyShrinks
<1>8. ShutOK'
  <2>1. ASSUME Uncertain'
        PROVE  /\ wb.up /\ ~wb.closed /\ wb.loaded /\ wb'.client = wb.client
               /\ Uncertain /\ wb.op \in Ops /\ Shutting(wb.op) => Shutting(wb.op)'
    <3>1. wb.up /\ ~wb.closed /\ wb'.intent = wb.intent /\ wb'.op = wb.op
      BY <2>1 DEF Uncertain, SameOrder
    <3>2. wb.op \in Ops /\ Shutting(wb.op) => Shutting(wb.op)'
      BY <2>1, <3>1, OthersShut
    <3> QED BY <2>1, <3>1, <3>2
  <2>2. wb'.op = wb.op
    BY DEF SameOrder
  <2> QED BY <1>1, <1>3, <2>1, <2>2, ShutShrinks
<1>9. OneUnsettled' /\ NewestOK'
  BY <1>1, <1>3, ShrinkingCounts DEF SameOrder
<1> QED BY <1>4, <1>5, <1>6, <1>7, <1>8, <1>9 DEF DoubtInv

\* Such a step that leaves the requests and their marks.
LEMMA AloneStep ==
  ASSUME DoubtInv, FenceInv', \A u \in Ops : th'[u] = th[u] /\ wire'[u] = wire[u],
         SameOrder, ops' = ops, wb.closed => wb'.closed, SameMarks(rt'),
         wb'.client \in {NoRun, wb.client},
         wb' = wb \/ wb'.closed \/ ~wb'.loaded \/ wb'.client = NoRun
  PROVE  DoubtInv'
<1>1. TypeOK /\ AnswersOK
  BY DoubtDomains
<1>2. LivesOn /\ StillAwaited
  BY DEF LivesOn, StillAwaited, SameMarks
<1>3. ASSUME NEW r \in Runs
      PROVE  /\ rt'[r].recovered >= rt[r].recovered
             /\ rt'[r].doubt \subseteq rt[r].doubt
             /\ \A u \in rt'[r].doubt : u > rt'[r].recovered
  <2>1. /\ rt[r].recovered \in Nat /\ rt'[r].recovered = rt[r].recovered
        /\ rt'[r].doubt = rt[r].doubt
    BY <1>1, ConstantFacts DEF TypeOK, Runtime, SameMarks
  <2> QED BY <1>1, <2>1 DEF AnswersOK
<1>4. \A u \in Ops : Answers1(u)'
  BY <1>1, SameAnswers
<1>5. Uncertain' => wb.loaded /\ wb'.client = wb.client /\ (Shut => Shut')
  BY DEF Uncertain, Shut
<1> QED BY <1>2, <1>3, <1>4, <1>5, RestStep

LEMMA CloserDoubt ==
  ASSUME DoubtInv, FenceInv', CloserReply \/ Kill(Closer) \/ Leave \/ Close
  PROVE  DoubtInv'
<1>1. /\ TypeOK /\ wb \in Memory /\ th \in [Threads -> Thread]
      /\ wire \in [Threads -> Request \cup {NoRequest}] /\ SameMarks(rt)
      /\ SameMarks(Gone(wb.process, rt)) /\ Closer \in Threads /\ Closer \notin Ops
      /\ Ops \subseteq Threads
  BY DoubtDomains, Domains, ProcessMarks, ConstantFacts DEF Ops, Closer
<1>2. CASE CloserReply
  <2>1. \A u \in Ops : th'[u] = th[u] /\ wire'[u] = wire[u]
    BY <1>1, <1>2 DEF CloserReply
  <2>2. wb' = wb /\ ops' = ops /\ rt' = rt
    BY <1>2 DEF CloserReply, bounds
  <2> QED BY <1>1, <2>1, <2>2, StillOrder, AloneStep
<1>3. CASE Kill(Closer)
  <2>1. \A u \in Ops : th'[u] = th[u] /\ wire'[u] = wire[u]
    BY <1>1, <1>3 DEF Kill, Goto
  <2>2. wb' = wb /\ ops' = ops /\ rt' = Gone(wb.process, rt)
    BY <1>3 DEF Kill, bounds
  <2> QED BY <1>1, <2>1, <2>2, StillOrder, AloneStep
<1>4. CASE Leave
  <2>1. \A u \in Ops : th'[u] = th[u] /\ wire'[u] = wire[u]
    BY <1>1, <1>4 DEF Leave, Goto
  <2>2. /\ ops' = ops /\ rt' = rt
        /\ \/ wb' = wb
           \/ wb' = Stopped(wb)
           \/ wb' = [Stopped(wb) EXCEPT !.status = "command_unknown"]
    BY <1>4 DEF Leave, bounds
  <2>3. /\ SameOrder /\ wb'.closed = wb.closed
        /\ wb' = wb \/ wb'.client = NoRun
    BY <1>1, <2>2 DEF SameOrder, Memory, Stopped
  <2> QED BY <1>1, <2>1, <2>2, <2>3, AloneStep
<1>5. CASE Close
  <2>1. \A u \in Ops : th'[u] = th[u] /\ wire'[u] = wire[u]
    BY <1>1, <1>5 DEF Close
  <2>2. ops' = ops /\ rt' = rt /\ wb' = [wb EXCEPT !.closed = TRUE]
    BY <1>5 DEF Close
  <2>3. SameOrder /\ wb'.closed /\ wb'.client = wb.client
    BY <1>1, <2>2 DEF SameOrder, Memory
  <2> QED BY <1>1, <2>1, <2>2, <2>3, AloneStep
<1> QED BY <1>2, <1>3, <1>4, <1>5

LEMMA WatchDoubt ==
  ASSUME DoubtInv, FenceInv', ObserveStop \/ Poll
  PROVE  DoubtInv'
<1>1. wb \in Memory /\ SameMarks(rt) /\ SameMarks(Gone(wb.process, rt))
  BY DoubtDomains, ProcessMarks
<1>2. CASE ObserveStop
  <2>1. UNCHANGED <<th, wire, ops>> /\ rt' = Gone(wb.process, rt) /\ wb' = Stopped(wb)
    BY <1>2 DEF ObserveStop, bounds
  <2>2. SameOrder /\ wb'.closed = wb.closed /\ wb'.client = NoRun
    BY <1>1, <2>1 DEF SameOrder, Memory, Stopped
  <2> QED BY <1>1, <2>1, <2>2, AloneStep
<1>3. CASE Poll
  <2>1. /\ UNCHANGED <<th, wire, ops, rt>>
        /\ wb' = [wb EXCEPT !.status = "runtime_exited", !.loaded = FALSE]
    BY <1>3 DEF Poll, bounds
  <2>2. SameOrder /\ wb'.closed = wb.closed /\ wb'.client = wb.client /\ ~wb'.loaded
    BY <1>1, <2>1 DEF SameOrder, Memory
  <2> QED BY <1>1, <2>1, <2>2, AloneStep
<1> QED BY <1>2, <1>3

LEMMA LivesDoubt ==
  ASSUME DoubtInv, FenceInv', NEW r \in Runs, Ready(r) \/ Dies(r) \/ Ends(r)
  PROVE  DoubtInv'
<1>1. TypeOK /\ SameMarks(Gone(r, rt))
  BY DoubtDomains, GoneMarks
<1>2. UNCHANGED <<wb, th, wire, ops>>
  BY DEF Ready, Dies, Ends, bounds
<1>3. SameMarks(rt')
  <2>1. CASE Ready(r)
    <3>1. \/ rt' = [rt EXCEPT ![r].life = "running"]
          \/ rt' = [rt EXCEPT ![r].life = "gone"]
      BY <2>1 DEF Ready
    <3> QED BY <1>1, <3>1, LifeMarks
  <2>2. CASE Dies(r) \/ Ends(r)
    BY <1>1, <2>2 DEF Dies, Ends
  <2> QED BY <2>1, <2>2
<1> QED BY <1>2, <1>3, StillOrder, AloneStep

-----------------------------------------------------------------------------
(* The runtime serves a request, or the game's interface recovers it.      *)

\* What becomes of the request of an operation.
Answered1(u) ==
  \/ wire'[u] = wire[u]
  \/ wire'[u] = NoRequest
  \/ /\ wire'[u].run = wire[u].run /\ wire'[u].act = wire[u].act
     /\ wire'[u].epoch = wire[u].epoch /\ wire[u].act \in Entries \cup Recoveries
     /\ wire[u].act \in Recoveries =>
          /\ wire'[u].reply # "rejected"
          /\ wire'[u].reply \in {"running", "stopped"} =>
               rt'[wire[u].run].recovered >= u

LEMMA ServedStep ==
  ASSUME DoubtInv, FenceInv', UNCHANGED <<wb, th, ops>>, LivesOn, StillAwaited,
         \A u \in Ops : Answered1(u),
         \A r \in Runs :
           \/ /\ rt'[r].epoch = rt[r].epoch /\ rt'[r].recovered = rt[r].recovered
              /\ rt'[r].doubt = rt[r].doubt
           \/ /\ rt'[r].epoch = rt[r].epoch + 1 /\ rt'[r].doubt = {}
              /\ rt'[r].recovered >= rt[r].recovered
  PROVE  DoubtInv'
<1>1. /\ TypeOK /\ TypeOK' /\ AnswersOK /\ BoundOK
      /\ wire \in [Threads -> Request \cup {NoRequest}]
      /\ rt \in [Runs -> Runtime] /\ rt' \in [Runs -> Runtime]
  BY DoubtDomains, Domains DEF FenceInv, TypeOK
<1>2. ASSUME NEW r \in Runs
      PROVE  /\ rt'[r].recovered >= rt[r].recovered
             /\ rt'[r].doubt \subseteq rt[r].doubt
             /\ \A u \in rt'[r].doubt : u > rt'[r].recovered
  <2>1. rt[r].recovered \in Nat /\ rt'[r].recovered \in Nat
    BY <1>1, ConstantFacts DEF Runtime
  <2>2. \A u \in rt[r].doubt : u > rt[r].recovered
    BY <1>1 DEF AnswersOK
  <2>3. CASE rt'[r].recovered = rt[r].recovered /\ rt'[r].doubt = rt[r].doubt
    BY <2>1, <2>2, <2>3
  <2>4. CASE rt'[r].doubt = {} /\ rt'[r].recovered >= rt[r].recovered
    BY <2>4
  <2> QED BY <2>3, <2>4
<1>3. ASSUME NEW u \in Ops
      PROVE  Answers1(u)'
  <2>1. CASE wire'[u] = NoRequest
    BY <2>1 DEF Answers1, NoRequest, Entries, Recoveries
  <2>2. CASE wire[u].act \notin Entries \cup Recoveries
    BY <2>1, <2>2 DEF Answers1, Answered1
  <2>3. CASE wire[u].act \in Entries /\ wire'[u] # NoRequest
    <3> DEFINE r == wire[u].run
               e == wire[u].epoch
    <3>1. /\ r \in Runs /\ e \in Nat /\ Binds(u, r, e)
          /\ wire'[u].run = r /\ wire'[u].epoch = e /\ wire'[u].act = wire[u].act
      <4>1. wire[u] \in Request
        BY <1>1, <2>3, ConstantFacts DEF NoRequest, Entries
      <4> QED BY <1>1, <2>3, <4>1 DEF Request, BoundOK, Answered1
    <3>2. e = rt[r].epoch => th[u].pc = "reply" \/ u \in rt[r].doubt
      BY <1>1, <2>3 DEF AnswersOK
    <3>3. wire[u].act \notin Recoveries
      BY <2>3 DEF Entries, Recoveries
    <3> HIDE DEF r, e
    <3>4. CASE rt'[r].epoch = rt[r].epoch /\ rt'[r].doubt = rt[r].doubt
      BY <3>1, <3>2, <3>3, <3>4 DEF Answers1
    <3>5. CASE rt'[r].epoch = rt[r].epoch + 1
      <4>1. rt[r].epoch \in Nat /\ e <= rt[r].epoch
        BY <1>1, <3>1 DEF Binds, Runtime
      <4>2. e # rt'[r].epoch
        BY <3>1, <3>5, <4>1
      <4> QED BY <3>1, <3>3, <4>2 DEF Answers1
    <3> QED BY <3>1, <3>4, <3>5
  <2>4. CASE wire[u].act \in Recoveries /\ wire'[u] # NoRequest
    <3> DEFINE r == wire[u].run
    <3>1. /\ r \in Runs /\ wire'[u].run = r /\ wire'[u].act = wire[u].act
          /\ u \in Nat
      BY <1>1, <2>4, ConstantFacts DEF Request, NoRequest, Recoveries, Answered1
    <3>2. wire[u].act \notin Entries
      BY <2>4 DEF Entries, Recoveries
    <3>3. CASE wire'[u] = wire[u]
      <4>1. /\ wire[u].reply # "rejected"
            /\ wire[u].reply \in {"running", "stopped"} => rt[r].recovered >= u
        BY <1>1, <2>4 DEF AnswersOK
      <4>2. /\ rt[r].recovered \in Nat /\ rt'[r].recovered \in Nat
            /\ rt'[r].recovered >= rt[r].recovered
        BY <1>1, <1>2, <3>1, ConstantFacts DEF Runtime
      <4> HIDE DEF r
      <4> QED BY <3>1, <3>2, <3>3, <4>1, <4>2 DEF Answers1
    <3>4. CASE wire'[u] # wire[u]
      BY <2>4, <3>1, <3>2, <3>4 DEF Answers1, Answered1
    <3> QED BY <3>3, <3>4
  <2> QED BY <2>1, <2>2, <2>3, <2>4
<1>4. Uncertain' => wb.loaded /\ wb'.client = wb.client /\ (Shut => Shut')
  BY DEF Uncertain, Shut
<1> QED BY <1>2, <1>3, <1>4, StillOrder, RestStep

LEMMA OtherRecoversDoubt ==
  ASSUME DoubtInv, FenceInv', NEW r \in Runs, OtherRecovers(r)
  PROVE  DoubtInv'
<1>1. UNCHANGED <<wb, th, wire, ops>> /\ rt \in [Runs -> Runtime]
  BY DoubtDomains, Domains DEF OtherRecovers
<1>2. PICK life \in {"running", "stopped"} :
        rt' = [rt EXCEPT ![r] = [Advanced(@) EXCEPT !.life = life]]
  BY DEF OtherRecovers
<1> DEFINE z == Advanced(rt[r])
<1>3. /\ z \in Runtime /\ z.epoch = rt[r].epoch + 1 /\ z.doubt = {}
      /\ z.recovered = rt[r].recovered
  <2>1. z.doubt = {}
    BY <1>1 DEF Advanced, Runtime
  <2> QED BY <1>1, <2>1, AdvancedType
<1>4. rt' = [rt EXCEPT ![r] = [z EXCEPT !.life = life]]
  BY <1>2
<1> HIDE DEF z
<1>5. /\ rt'[r].epoch = rt[r].epoch + 1 /\ rt'[r].doubt = {}
      /\ rt'[r].recovered = rt[r].recovered /\ rt'[r].life = life
      /\ \A p \in Runs \ {r} : rt'[p] = rt[p]
  BY <1>1, <1>3, <1>4 DEF Runtime
<1>6. rt[r].recovered \in Nat
  BY <1>1, ConstantFacts DEF Runtime
<1>7. LivesOn /\ StillAwaited /\ \A u \in Ops : Answered1(u)
  BY <1>1, <1>5 DEF LivesOn, StillAwaited, Answered1
<1>8. rt'[r].recovered >= rt[r].recovered
  BY <1>5, <1>6
<1> QED BY <1>1, <1>5, <1>7, <1>8, ServedStep

LEMMA RecoveredMarks ==
  ASSUME NEW x \in Runtime, NEW q, NEW t \in Threads, q.epoch \in Nat
  PROVE  LET y == Recovered(x, q, t)
         IN  /\ y.epoch = x.epoch + 1 /\ y.doubt = {} /\ y.held = 0
             /\ y.life = x.life /\ y.recovered >= x.recovered
             /\ t # Closer => y.recovered >= t
             /\ [y EXCEPT !.life = "stopped"].epoch = x.epoch + 1
             /\ [y EXCEPT !.life = "stopped"].doubt = {}
             /\ [y EXCEPT !.life = "stopped"].held = 0
             /\ [y EXCEPT !.life = "stopped"].life = "stopped"
             /\ [y EXCEPT !.life = "stopped"].recovered = y.recovered
<1> DEFINE n == IF t = Closer THEN q.epoch ELSE t
           m == Latest(x.recovered, n)
           z == Advanced(x)
           y == Recovered(x, q, t)
<1>1. /\ z \in Runtime /\ z.epoch = x.epoch + 1 /\ z.held = 0 /\ z.doubt = {}
      /\ z.recovered = x.recovered /\ z.life = x.life
  <2>1. z.doubt = {}
    BY DEF Advanced, Runtime
  <2> QED BY <2>1, AdvancedType
<1>2. x.recovered \in Nat /\ n \in Nat /\ t \in Nat
  BY ConstantFacts DEF Runtime
<1>3. m >= x.recovered /\ (t # Closer => m >= t)
  BY <1>2 DEF Latest
<1>4. y = [z EXCEPT !.recovered = m]
  BY <1>1 DEF Recovered
<1> HIDE DEF m, z, y
<1>5. /\ y.epoch = x.epoch + 1 /\ y.doubt = {} /\ y.held = 0
      /\ y.life = x.life /\ y.recovered = m
      /\ DOMAIN y = DOMAIN z
  BY <1>1, <1>4 DEF Runtime
<1>6. /\ [y EXCEPT !.life = "stopped"].epoch = y.epoch
      /\ [y EXCEPT !.life = "stopped"].doubt = y.doubt
      /\ [y EXCEPT !.life = "stopped"].held = y.held
      /\ [y EXCEPT !.life = "stopped"].life = "stopped"
      /\ [y EXCEPT !.life = "stopped"].recovered = y.recovered
  BY <1>1, <1>4 DEF Runtime
<1> QED BY <1>3, <1>5, <1>6 DEF y

\* Serving a command changes at most the number the model acts under; serving a
\* recovery settles everything before it.
Commands(t, r) ==
  /\ wire[t].act \in Entries /\ wire[t].epoch = rt[r].epoch
  /\ rt'[r].epoch = rt[r].epoch /\ rt'[r].recovered = rt[r].recovered
  /\ rt'[r].doubt = rt[r].doubt /\ rt'[r].life = rt[r].life
  /\ rt'[r].held = t
Recovers(t, r) ==
  /\ wire[t].act \in Recoveries
  /\ rt'[r].epoch = rt[r].epoch + 1 /\ rt'[r].recovered >= rt[r].recovered
  /\ rt'[r].doubt = {} /\ rt'[r].life \in {rt[r].life, "stopped"}
  /\ rt'[r].held = 0
  /\ t # Closer => rt'[r].recovered >= t

LEMMA Served ==
  ASSUME TypeOK, NEW t \in Threads, Serve(t)
  PROVE  /\ UNCHANGED <<wb, th, ops>> /\ wire[t] \in Request
         /\ \A u \in Threads \ {t} : wire'[u] = wire[u]
         /\ \A p \in Runs \ {wire[t].run} : rt'[p] = rt[p]
         /\ \E answer \in {"running", "stopped", "rejected", "lost"} :
              /\ wire'[t] = IF Awaited(t) THEN [wire[t] EXCEPT !.reply = answer]
                                          ELSE NoRequest
              /\ \/ rt' = rt /\ answer \in {"rejected", "lost"}
                    /\ (answer = "rejected" => wire[t].act \in Entries)
                 \/ Commands(t, wire[t].run)
                 \/ Recovers(t, wire[t].run) /\ answer # "rejected"
<1> DEFINE q == wire[t]
           r == q.run
           x == rt[r]
           Answered(answer) ==
             wire' = [wire EXCEPT ![t] = IF Awaited(t) THEN [q EXCEPT !.reply = answer]
                                                       ELSE NoRequest]
           Told1(answer) ==
             /\ \A u \in Threads \ {t} : wire'[u] = wire[u]
             /\ wire'[t] = IF Awaited(t) THEN [q EXCEPT !.reply = answer]
                                         ELSE NoRequest
           Case(answer) ==
             \/ rt' = rt /\ answer \in {"rejected", "lost"}
                /\ (answer = "rejected" => wire[t].act \in Entries)
             \/ Commands(t, wire[t].run)
             \/ Recovers(t, wire[t].run) /\ answer # "rejected"
<1>1. /\ q # NoRequest /\ q \in Request /\ r \in Runs /\ x \in Runtime
      /\ rt \in [Runs -> Runtime] /\ q.epoch \in Nat
      /\ UNCHANGED <<wb, th, ops>>
      /\ wire \in [Threads -> Request \cup {NoRequest}]
  BY Domains DEF Serve, Request, bounds
<1>2. ASSUME NEW answer, Answered(answer)
      PROVE  Told1(answer)
  BY <1>1, <1>2
<1>3. ASSUME NEW y, rt' = [rt EXCEPT ![r] = y]
      PROVE  rt'[r] = y /\ \A p \in Runs \ {r} : rt'[p] = rt[p]
  BY <1>1, <1>3
<1>4. CASE ~Listening(r) /\ Answered("lost") /\ UNCHANGED rt
  <2>1. Told1("lost") /\ Case("lost")
    BY <1>2, <1>4
  <2> QED BY <1>1, <1>4, <2>1
<1>5. ASSUME NEW e \in Effects(x, q, t), rt' = [rt EXCEPT ![r] = e[1]],
             Answered(e[2])
      PROVE  /\ e[2] \in {"running", "stopped", "rejected", "lost"}
             /\ Case(e[2])
  <2>1. CASE q.act \in Entries /\ e \in {<<x, "rejected">>, <<x, "lost">>}
    <3>1. rt' = rt /\ e[2] \in {"rejected", "lost"}
      BY <1>1, <1>5, <2>1
    <3> QED BY <2>1, <3>1
  <2>2. CASE /\ q.act \in Entries /\ Enters(x, q)
             /\ e = <<[x EXCEPT !.held = t], "running">>
    <3>1. rt'[r] = [x EXCEPT !.held = t] /\ e[2] = "running"
      BY <1>3, <1>5, <2>2
    <3>2. Commands(t, r)
      BY <1>1, <2>2, <3>1 DEF Commands, Enters, Runtime
    <3> QED BY <3>1, <3>2
  <2>3. CASE q.act \notin Entries
    <3> DEFINE z == Recovered(x, q, t)
    <3>1. /\ z.epoch = x.epoch + 1 /\ z.doubt = {} /\ z.held = 0
          /\ z.life = x.life /\ z.recovered >= x.recovered
          /\ t # Closer => z.recovered >= t
          /\ [z EXCEPT !.life = "stopped"].epoch = x.epoch + 1
          /\ [z EXCEPT !.life = "stopped"].doubt = {}
          /\ [z EXCEPT !.life = "stopped"].held = 0
          /\ [z EXCEPT !.life = "stopped"].life = "stopped"
          /\ [z EXCEPT !.life = "stopped"].recovered = z.recovered
      BY <1>1, RecoveredMarks
    <3>2. e \in {<<z, "lost">>, <<[z EXCEPT !.life = "stopped"], "stopped">>,
                 <<z, "running">>}
      BY <2>3, <1>5 DEF Effects
    <3> HIDE DEF z
    <3>3. /\ e[1].epoch = x.epoch + 1 /\ e[1].doubt = {} /\ e[1].held = 0
          /\ e[1].life \in {x.life, "stopped"} /\ e[1].recovered = z.recovered
          /\ e[2] \in {"running", "stopped", "lost"}
      <4> DEFINE w == [z EXCEPT !.life = "stopped"]
      <4>1. /\ w.epoch = x.epoch + 1 /\ w.doubt = {} /\ w.held = 0
            /\ w.life = "stopped" /\ w.recovered = z.recovered
            /\ e \in {<<z, "lost">>, <<w, "stopped">>, <<z, "running">>}
        BY <3>1, <3>2
      <4> HIDE DEF w
      <4>2. e[1] \in {z, w} /\ e[2] \in {"running", "stopped", "lost"}
        BY <4>1
      <4>3. CASE e[1] = z
        BY <3>1, <4>2, <4>3
      <4>4. CASE e[1] = w
        BY <4>1, <4>2, <4>4
      <4> QED BY <4>2, <4>3, <4>4
    <3>4. rt'[r] = e[1]
      BY <1>3, <1>5
    <3>5. q.act \in Recoveries
      BY <1>1, <2>3 DEF Request, Recoveries
    <3>6. Recovers(t, r)
      BY <3>1, <3>3, <3>4, <3>5 DEF Recovers
    <3> QED BY <3>3, <3>6
  <2> QED BY <1>5, <2>1, <2>2, <2>3 DEF Effects
<1>6. ASSUME NEW e \in Effects(x, q, t), rt' = [rt EXCEPT ![r] = e[1]],
             Answered(e[2])
      PROVE  \E answer \in {"running", "stopped", "rejected", "lost"} :
               Told1(answer) /\ Case(answer)
  <2> DEFINE a == e[2]
  <2>1. a \in {"running", "stopped", "rejected", "lost"} /\ Case(a)
    BY <1>5, <1>6
  <2>2. Told1(a)
    BY <1>2, <1>6
  <2> HIDE DEF a, Case, Told1
  <2> QED BY <2>1, <2>2
<1>7. CASE \E e \in Effects(x, q, t) : rt' = [rt EXCEPT ![r] = e[1]] /\ Answered(e[2])
  <2>1. \A p \in Runs \ {r} : rt'[p] = rt[p]
    BY <1>3, <1>7
  <2> QED BY <1>1, <1>6, <1>7, <2>1
<1> QED BY <1>4, <1>7 DEF Serve

LEMMA ServeDoubt ==
  ASSUME DoubtInv, FenceInv', NEW t \in Threads, Serve(t)
  PROVE  DoubtInv'
<1> DEFINE r == wire[t].run
<1>1. /\ TypeOK /\ NumbersOK /\ UNCHANGED <<wb, th, ops>> /\ wire[t] \in Request
      /\ r \in Runs /\ rt[r] \in Runtime
      /\ \A u \in Threads \ {t} : wire'[u] = wire[u]
      /\ \A p \in Runs \ {r} : rt'[p] = rt[p]
  BY DoubtDomains, Domains, Served DEF Request
<1>2. PICK answer \in {"running", "stopped", "rejected", "lost"} :
        /\ wire'[t] = IF Awaited(t) THEN [wire[t] EXCEPT !.reply = answer]
                                    ELSE NoRequest
        /\ \/ rt' = rt /\ answer \in {"rejected", "lost"}
              /\ (answer = "rejected" => wire[t].act \in Entries)
           \/ Commands(t, r)
           \/ Recovers(t, r) /\ answer # "rejected"
  BY DoubtDomains, Served
<1>3. wire[t].act \in Entries \cup Recoveries
      /\ \A act \in Entries : act \notin Recoveries
  BY <1>1 DEF Request, Entries, Recoveries
<1>4. Awaited(t) => /\ wire'[t].run = r /\ wire'[t].act = wire[t].act
                    /\ wire'[t].epoch = wire[t].epoch /\ wire'[t].reply = answer
  BY <1>1, <1>2 DEF Request
<1>5. LivesOn
  <2>1. rt[r].life # "none" => rt'[r].life # "none"
    BY <1>2 DEF Commands, Recovers
  <2> QED BY <1>1, <2>1 DEF LivesOn
<1>6. StillAwaited
  <2>1. ASSUME NEW u \in Ops, th[u].pc = "reply"
        PROVE  wire'[u].run = wire[u].run /\ wire'[u].act = wire[u].act
    <3>1. CASE u = t
      <4>1. Awaited(t)
        BY <1>1, <2>1, <3>1 DEF NumbersOK, Awaited
      <4> QED BY <1>4, <3>1, <4>1
    <3>2. CASE u # t
      BY <1>1, <3>2, ConstantFacts
    <3> QED BY <3>1, <3>2
  <2> QED BY <2>1 DEF StillAwaited
<1>7. ASSUME NEW u \in Ops
      PROVE  Answered1(u)
  <2>1. CASE u # t
    BY <1>1, <2>1, ConstantFacts DEF Answered1
  <2>2. CASE u = t /\ ~Awaited(t)
    BY <1>2, <2>2 DEF Answered1
  <2>3. CASE u = t /\ Awaited(t)
    <3>1. u # Closer
      BY DEF Ops, Closer
    <3>2. wire[u].act \in Recoveries =>
            /\ answer # "rejected"
            /\ answer \in {"running", "stopped"} => rt'[r].recovered >= u
      BY <1>2, <1>3, <2>3, <3>1 DEF Commands, Recovers
    <3> QED BY <1>3, <1>4, <2>3, <3>2 DEF Answered1
  <2> QED BY <2>1, <2>2, <2>3
<1>8. ASSUME NEW p \in Runs
      PROVE  \/ /\ rt'[p].epoch = rt[p].epoch
                /\ rt'[p].recovered = rt[p].recovered
                /\ rt'[p].doubt = rt[p].doubt
             \/ /\ rt'[p].epoch = rt[p].epoch + 1 /\ rt'[p].doubt = {}
                /\ rt'[p].recovered >= rt[p].recovered
  <2>1. CASE p = r
    BY <1>2, <2>1 DEF Commands, Recovers
  <2>2. CASE p # r
    BY <1>1, <2>2
  <2> QED BY <2>1, <2>2
<1> QED BY <1>1, <1>5, <1>6, <1>7, <1>8, ServedStep

-----------------------------------------------------------------------------
(* The Workbench dies and opens: its threads are gone, what they asked for *)
(* without an answer stays unsettled.                                      *)

LEMMA DownDoubt ==
  ASSUME DoubtInv, FenceInv', Down, ops' = ops,
         \A r \in Runs :
           /\ rt'[r].epoch = rt[r].epoch /\ rt'[r].recovered = rt[r].recovered
           /\ rt'[r].doubt = rt[r].doubt
                               \cup Unanswered({u \in Ops : th[u].pc = "reply"}, r)
           /\ rt[r].life # "none" => rt'[r].life # "none"
  PROVE  DoubtInv'
<1> DEFINE ts == {u \in Ops : th[u].pc = "reply"}
<1>1. /\ TypeOK /\ TypeOK' /\ NumbersOK /\ OrderOK /\ AnswersOK /\ OneUnsettled
      /\ ts \in SUBSET Ops /\ ops \in Nat
      /\ wire \in [Threads -> Request \cup {NoRequest}]
  BY DoubtDomains, Domains DEF FenceInv, TypeOK
<1>2. /\ wb'.up = FALSE /\ wb'.client = NoRun
      /\ wb'.op = 0 /\ wb'.last = 0 /\ wb'.intent = 0
  BY DEF Down, Opened
<1>3. \A u \in Ops : /\ th'[u] = IF th[u].pc = "none" THEN NoThread ELSE Done
                     /\ wire'[u] = IF wire[u].reply = "none" THEN wire[u]
                                                             ELSE NoRequest
  BY ConstantFacts DEF Down
<1>4. /\ NoThread.pc = "none" /\ NoThread.run = NoRun
      /\ Done.pc = "done" /\ Done.run = NoRun
  BY DEF NoThread, Done
<1>5. \A u \in Ops : th'[u].pc \in {"none", "done"} /\ th'[u].run = NoRun
  BY <1>3, <1>4
<1>6. \A u \in Ops : ~Asks(u, Entries)'
  BY <1>5 DEF Asks, Asking
<1>7. ASSUME NEW r \in Runs
      PROVE  Unsettled(r)' \subseteq Unsettled(r) /\ Unsettled(r)' = rt'[r].doubt
  <2>1. rt[r].doubt \subseteq Ops /\ rt'[r].doubt \subseteq Ops
    BY <1>1 DEF TypeOK, Runtime
  <2>2. Unanswered(ts, r) \subseteq Unsettled(r)
    BY <1>1, UnansweredAsked
  <2>3. rt[r].doubt \subseteq Unsettled(r)
    BY <2>1 DEF Unsettled
  <2>4. Unsettled(r)' = rt'[r].doubt
    BY <1>6, <2>1 DEF Unsettled
  <2> QED BY <2>2, <2>3, <2>4
<1>8. OrderOK'
  BY <1>1, <1>2, <1>3, <1>5, OrderEnds
<1>9. NamesOK'
  BY <1>2, <1>5 DEF NamesOK
<1>10. AnswersOK'
  <2>1. ASSUME NEW r \in Runs, rt'[r].life = "none"
        PROVE  Unsettled(r)' = {}
    BY <1>1, <1>7, <2>1 DEF AnswersOK
  <2>2. ASSUME NEW r \in Runs, NEW u \in rt'[r].doubt
        PROVE  u > rt'[r].recovered /\ u <= ops' /\ ~Asks(u, Entries)'
    <3>1. CASE u \in rt[r].doubt
      <4>1. u \in Ops
        BY <1>1, <3>1 DEF TypeOK, Runtime
      <4> QED BY <1>1, <1>6, <3>1, <4>1 DEF AnswersOK
    <3>2. CASE u \in Unanswered(ts, r)
      <4>1. u \in Ops /\ u > rt[r].recovered /\ th[u].pc = "reply" /\ u \in Nat
        BY <3>2, ConstantFacts DEF Unanswered
      <4>2. u <= ops
        BY <1>1, <4>1 DEF NumbersOK
      <4> QED BY <1>6, <4>1, <4>2
    <3> QED BY <2>2, <3>1, <3>2
  <2>3. ASSUME NEW u \in Ops
        PROVE  Answers1(u)'
    <3>1. CASE wire'[u] = NoRequest
      BY <3>1 DEF Answers1, NoRequest, Entries, Recoveries
    <3>2. CASE wire[u].reply = "none" /\ wire'[u] = wire[u]
      <4>1. ASSUME wire[u].act \in Entries, wire[u].epoch = rt'[wire[u].run].epoch
            PROVE  u \in rt'[wire[u].run].doubt
        <5>1. wire[u].run \in Runs
          BY <1>1, <4>1, ConstantFacts DEF Request, NoRequest, Entries
        <5>2. wire[u].epoch = rt[wire[u].run].epoch
          BY <4>1, <5>1
        <5>3. CASE u \in rt[wire[u].run].doubt
          BY <5>1, <5>3
        <5>4. CASE th[u].pc = "reply"
          <6>1. u \in ts
            BY <5>4
          <6> HIDE DEF ts
          <6>2. u \in Unanswered(ts, wire[u].run)
            BY <1>1, <3>2, <4>1, <5>2, <5>4, <6>1, UnansweredStays
          <6> QED BY <5>1, <6>2 DEF ts
        <5> QED BY <1>1, <4>1, <5>2, <5>3, <5>4 DEF AnswersOK
      <4> QED BY <3>2, <4>1 DEF Answers1
    <3> QED BY <1>3, <3>1, <3>2
  <2> QED BY <2>1, <2>2, <2>3 DEF AnswersOK, Answers1
<1>11. ReadyOK'
  BY <1>5 DEF ReadyOK, Received
<1>12. ShutOK' /\ NewestOK'
  BY <1>2 DEF ShutOK, Uncertain, NewestOK
<1>13. OneUnsettled'
  BY <1>1, <1>7 DEF OneUnsettled
<1> QED BY <1>8, <1>9, <1>10, <1>11, <1>12, <1>13 DEF DoubtInv

LEMMA EndsDoubt ==
  ASSUME DoubtInv, FenceInv', Exit \/ Crash \/ \E t \in Ops : CrashInLaunch(t)
  PROVE  DoubtInv'
<1> DEFINE ts == {u \in Ops : th[u].pc = "reply"}
<1>1. TypeOK /\ ts \in SUBSET Ops /\ Down /\ ops' = ops
  BY DoubtDomains DEF Exit, Crash, CrashInLaunch, bounds
<1>2. \A r \in Runs : /\ Doubted(ts)[r].epoch = rt[r].epoch
                      /\ Doubted(ts)[r].recovered = rt[r].recovered
                      /\ Doubted(ts)[r].life = rt[r].life
                      /\ Doubted(ts)[r].doubt = rt[r].doubt \cup Unanswered(ts, r)
  BY <1>1, DoubtedMarks
<1>3. CASE Exit \/ Crash
  <2>1. rt' = Doubted(ts)
    BY <1>3 DEF Exit, Crash
  <2> QED BY <1>1, <1>2, <2>1, DownDoubt
<1>4. CASE \E t \in Ops : CrashInLaunch(t)
  <2> DEFINE n == NextRun
             x == Doubted(ts)
  <2>1. n \in Runs
    BY <1>4, NextRunType DEF CrashInLaunch
  <2>2. rt' = [x EXCEPT ![n].life = "starting"]
    BY <1>4 DEF CrashInLaunch
  <2>3. x \in [Runs -> Runtime]
    BY <1>1, Domains, DoubtedType
  <2>4. ASSUME NEW r \in Runs
        PROVE  /\ rt'[r].epoch = x[r].epoch /\ rt'[r].recovered = x[r].recovered
               /\ rt'[r].doubt = x[r].doubt
               /\ x[r].life # "none" => rt'[r].life # "none"
    <3> HIDE DEF n, x
    <3>1. CASE r = n
      BY <2>1, <2>2, <2>3, <3>1 DEF Runtime
    <3>2. CASE r # n
      BY <2>1, <2>2, <2>3, <3>2
    <3> QED BY <3>1, <3>2
  <2> QED BY <1>1, <1>2, <2>4, DownDoubt
<1> QED BY <1>3, <1>4

LEMMA OpenDoubt ==
  ASSUME DoubtInv, FenceInv', Open
  PROVE  DoubtInv'
<1>1. /\ TypeOK /\ TypeOK' /\ NumbersOK /\ OrderOK /\ NamesOK /\ AnswersOK
      /\ OneUnsettled /\ UNCHANGED <<wire, rt, ops>> /\ ~wb.up
      /\ th \in [Threads -> Thread] /\ Closer \notin Ops
  BY DoubtDomains, Domains DEF FenceInv, Open, bounds, Ops, Closer
<1>2. \A u \in Ops : th'[u] = th[u] /\ th[u].pc \in {"none", "done"}
  BY <1>1, ConstantFacts DEF Open, NumbersOK
<1>3. wb'.client = NoRun /\ wb'.op = 0 /\ wb'.last = 0 /\ wb'.intent = 0
  BY DEF Open, Opened
<1>4. OrderOK'
  BY <1>1, <1>2, <1>3, OrderEnds
<1>5. NamesOK'
  BY <1>1, <1>2, <1>3 DEF NamesOK
<1>6. \A r \in Runs : Unsettled(r)' = Unsettled(r)
  BY <1>1, <1>2 DEF Unsettled, Asks
<1>7. AnswersOK'
  <2>1. \A u \in Ops : Asks(u, Entries)' = Asks(u, Entries)
    BY <1>2 DEF Asks
  <2>2. \A r \in Runs : \A u \in rt[r].doubt : u \in Ops
    BY <1>1 DEF TypeOK, Runtime
  <2> QED BY <1>1, <1>2, <1>6, <2>1, <2>2 DEF AnswersOK
<1>8. ReadyOK'
  BY <1>2 DEF ReadyOK, Received
<1>9. ShutOK' /\ NewestOK'
  BY <1>3 DEF ShutOK, Uncertain, NewestOK
<1>10. OneUnsettled'
  BY <1>1, <1>6 DEF OneUnsettled
<1> QED BY <1>4, <1>5, <1>7, <1>8, <1>9, <1>10 DEF DoubtInv

-----------------------------------------------------------------------------
(* Operations begin.  A command is admitted only when nothing is unsettled. *)

LEMMA AdmittedCertain ==
  ASSUME DoubtInv, wb.up, Admitted
  PROVE  ~Uncertain
<1> SUFFICES ASSUME Uncertain PROVE FALSE
  OBVIOUS
<1>1. wb.op \in Ops /\ Shutting(wb.op) /\ wb.last = wb.op /\ wb.op # 0
  BY DoubtDomains DEF ShutOK, OrderOK, Ops
<1>2. ~Running(wb.op) /\ ~Shut
  BY <1>1 DEF Admitted, Busy, Shut
<1>3. Asking \subseteq Pending /\ "error" \in Pending
  BY DEF Asking, Pending
<1> QED BY <1>1, <1>2, <1>3 DEF Shutting, Asks, Running

LEMMA BeginDoubt ==
  ASSUME DoubtInv, FenceInv', NEW w \in Memory, NEW act \in Acts,
         NEW pc \in {"task", "probe", "observe", "identify", "cancel"},
         NEW intent \in Threads, NEW run \in Runs \cup {NoRun},
         Begin(w, act, pc, intent, run), pc = "task" => act = "task",
         \/ /\ w = wb /\ intent = wb.intent /\ act \in {"task", "start"}
            /\ pc \in {"task", "probe"} /\ run = NoRun /\ ~Busy /\ ~Uncertain
         \/ /\ w = Commanded /\ intent = ops + 1
            /\ \/ /\ pc = "observe" /\ run = wb.client /\ wb.client # NoRun
                  /\ act \in Entries \cup Recoveries
                  /\ act \in Entries => Unsettled(wb.client) = {}
               \/ /\ pc \in {"identify", "cancel"} /\ run = NoRun
                  /\ act \notin Entries
                  /\ ~(wb.client # NoRun /\ wb.loaded)
  PROVE  DoubtInv'
<1>1. /\ TypeOK /\ TypeOK' /\ NumbersOK /\ OrderOK /\ NamesOK /\ AnswersOK /\ ReadyOK
      /\ OneUnsettled /\ NewestOK /\ ops \in Nat /\ wb \in Memory
      /\ th' \in [Threads -> Thread]
  BY DoubtDomains DEF FenceInv, TypeOK
<1>2. PICK n \in Ops :
        /\ SameMind(w, wb') /\ n = ops + 1 /\ n = ops'
        /\ th'[n].pc = pc /\ th'[n].act = act
        /\ th'[n].intent = intent /\ th'[n].run = run
        /\ \A u \in Threads \ {n} : th'[u] = th[u]
  <2>1. pc \in Pending
    BY DEF Pending
  <2> QED BY <1>1, <2>1, BeginType
<1>3. /\ wire' = wire /\ rt' = rt /\ wb.up /\ ~wb.closed
      /\ wb' = [w EXCEPT !.op = ops + 1, !.last = ops + 1]
  BY DEF Begin
<1>4. /\ wb'.op = n /\ wb'.last = n /\ wb'.up /\ ~wb'.closed
      /\ wb'.client = wb.client /\ wb'.loaded = wb.loaded
      /\ intent \in {wb.intent, n}
      /\ \/ /\ wb'.intent = wb.intent /\ ~Busy /\ ~Uncertain /\ w = wb
            /\ run = NoRun /\ act \in {"task", "start"} /\ act \notin Entries
         \/ wb'.intent = n
  BY <1>1, <1>2, <1>3 DEF Memory, Commanded, Entries
<1>5. \A u \in Ops : u \in Nat /\ (u # n => th'[u] = th[u])
  BY <1>2, ConstantFacts
<1>6. th[n].pc = "none" /\ wire[n] = NoRequest
  BY <1>1, <1>2 DEF NumbersOK
<1>7. ASSUME NEW r \in Runs
      PROVE  /\ \A u \in Unsettled(r) : u \in Ops /\ u <= ops
             /\ n \notin Unsettled(r)
             /\ Unsettled(r)' = IF act \in Entries /\ r = run
                                THEN Unsettled(r) \cup {n} ELSE Unsettled(r)
  <2>1. \A u \in rt[r].doubt : u <= ops /\ u \in Ops
    BY <1>1 DEF AnswersOK, TypeOK, Runtime
  <2>2. \A u \in Ops : Asks(u, Entries) => u <= ops
    BY <1>1, <1>5 DEF NumbersOK, Asks, Asking
  <2>3. rt[r].recovered \in Nat /\ rt[r].recovered <= ops
    BY <1>1, ConstantFacts DEF TypeOK, Runtime, NumbersOK
  <2>4. n > rt[r].recovered /\ n \notin rt[r].doubt
    BY <1>1, <1>2, <2>1, <2>3
  <2>5. Asks(n, Entries)' = (act \in Entries)
    <3>1. act \in Entries => pc = "observe"
      BY <1>2 DEF Entries
    <3>2. act \in Entries => pc \in Asking
      BY <3>1 DEF Asking
    <3> QED BY <1>2, <3>2 DEF Asks
  <2>6. \A u \in Ops : u # n => Asks(u, Entries)' = Asks(u, Entries)
    BY <1>5 DEF Asks
  <2>7. \A u \in Unsettled(r) : u \in Ops /\ u <= ops
    BY <2>1, <2>2 DEF Unsettled
  <2>8. n \notin Unsettled(r)
    BY <1>1, <1>2, <2>7
  <2>9. n \in Unsettled(r)' <=> act \in Entries /\ r = run
    BY <1>2, <1>3, <2>4, <2>5 DEF Unsettled
  <2>10. \A u \in Ops : u # n => (u \in Unsettled(r)' <=> u \in Unsettled(r))
    BY <1>3, <1>5, <2>6 DEF Unsettled
  <2>11. Unsettled(r) \subseteq Ops /\ Unsettled(r)' \subseteq Ops
    BY DEF Unsettled
  <2> QED BY <1>2, <2>7, <2>8, <2>9, <2>10, <2>11
<1>8. OrderOK'
  <2>1. wb.op <= ops /\ wb.intent <= ops /\ wb.intent \in Nat
    BY <1>1, ConstantFacts DEF OrderOK, Memory
  <2>2. ASSUME NEW u \in Ops
        PROVE  /\ u > n => th'[u] = NoThread
               /\ th'[u].intent <= n
               /\ th'[u].pc = "task" => th'[u].act = "task"
               /\ th'[u].pc = "prepare" => th'[u].act \in Entries
               /\ th'[u].pc = "kill" => th'[u].act = "stop"
               /\ th'[u].pc = "handoff" =>
                    th'[u].act = "stop" \/ th'[u].code = "stopped"
               /\ th'[u].pc \in Working /\ th'[u].intent = wb'.intent => u = n
    <3>1. CASE u = n
      <4>1. intent <= n
        BY <1>1, <1>2, <1>4, <2>1
      <4> QED BY <1>2, <1>5, <3>1, <4>1
    <3>2. CASE u # n
      <4>1. th'[u] = th[u] /\ u \in Nat /\ th[u].intent \in Nat
        BY <1>1, <1>5, <3>2, Domains, ConstantFacts DEF Thread
      <4>2. th[u].intent <= ops
        BY <1>1 DEF OrderOK
      <4>3. ASSUME th[u].pc \in Working, th[u].intent = wb'.intent
            PROVE  FALSE
        <5>1. wb'.intent = wb.intent /\ ~Busy
          <6>1. wb'.intent # n
            BY <1>1, <1>2, <4>1, <4>2, <4>3
          <6> QED BY <1>4, <6>1
        <5>2. u = wb.last /\ u # 0
          BY <1>1, <1>3, <4>3, <5>1, ConstantFacts DEF OrderOK
        <5>3. th[u].pc \in Pending
          BY <4>3 DEF Working
        <5> QED BY <5>1, <5>2, <5>3 DEF Busy, Running
      <4>4. u > n => u > ops
        BY <1>1, <1>2, <4>1
      <4>5. th[u].intent <= n
        BY <1>1, <1>2, <4>1, <4>2
      <4> QED BY <1>1, <4>1, <4>3, <4>4, <4>5 DEF OrderOK
    <3> QED BY <3>1, <3>2
  <2>3. wb'.op <= n /\ wb'.intent <= n /\ wb'.last = wb'.op
    BY <1>1, <1>2, <1>4, <2>1
  <2> QED BY <1>2, <1>4, <2>2, <2>3 DEF OrderOK
<1>9. NamesOK'
  <2>1. run # NoRun => rt[run].life # "none"
    BY <1>1 DEF NamesOK
  <2>2. ASSUME NEW u \in Ops
        PROVE  /\ th'[u].run # NoRun => rt'[th'[u].run].life # "none"
               /\ th'[u].pc = "reply" =>
                    wire'[u].run = th'[u].run /\ wire'[u].act = th'[u].act
    <3>1. CASE u = n
      BY <1>2, <1>3, <2>1, <3>1
    <3>2. CASE u # n
      BY <1>1, <1>3, <1>5, <3>2 DEF NamesOK
    <3> QED BY <3>1, <3>2
  <2> QED BY <1>1, <1>3, <1>4, <2>2 DEF NamesOK
<1>10. AnswersOK'
  <2>1. ASSUME NEW r \in Runs, rt'[r].life = "none"
        PROVE  Unsettled(r)' = {}
    <3>1. Unsettled(r) = {} /\ rt[r].life = "none"
      BY <1>1, <1>3, <2>1 DEF AnswersOK
    <3>2. act \in Entries => run # r
      BY <1>1, <1>2, <3>1, ConstantFacts DEF NamesOK
    <3> QED BY <1>7, <3>1, <3>2
  <2>2. ASSUME NEW r \in Runs, NEW u \in rt'[r].doubt
        PROVE  u > rt'[r].recovered /\ u <= n /\ ~Asks(u, Entries)'
    <3>1. /\ u \in Ops /\ u > rt[r].recovered /\ u <= ops /\ ~Asks(u, Entries)
          /\ u \in Nat
      BY <1>1, <1>3, <2>2, ConstantFacts DEF AnswersOK, TypeOK, Runtime
    <3>2. u <= n /\ u # n
      BY <1>1, <1>2, <3>1
    <3> QED BY <1>3, <1>5, <3>1, <3>2 DEF Asks
  <2>3. ASSUME NEW u \in Ops
        PROVE  Answers1(u)'
    <3>1. CASE u = n
      BY <1>3, <1>6, <3>1 DEF Answers1, NoRequest, Entries, Recoveries
    <3>2. CASE u # n
      BY <1>1, <1>3, <1>5, <3>2 DEF Answers1, AnswersOK
    <3> QED BY <3>1, <3>2
  <2> QED BY <1>2, <2>1, <2>2, <2>3 DEF AnswersOK, Answers1
<1>11. ReadyOK'
  <2>1. ASSUME NEW u \in Ops, Received(u)', ~Superseded(u)', th'[u].run # NoRun
        PROVE  \A r \in Runs : r = th'[u].run => Unsettled(r)' = {}
    <3>1. u # n /\ th'[u] = th[u] /\ Received(u) /\ th[u].run # NoRun
      BY <1>2, <1>5, <2>1 DEF Received
    <3>2. wb'.intent # n
      <4>1. th[u].intent <= ops /\ th[u].intent \in Nat
        BY <1>1, Domains, ConstantFacts DEF OrderOK, Thread
      <4> QED BY <1>1, <1>2, <2>1, <3>1, <4>1 DEF Superseded
    <3>3. Unsettled(th[u].run) = {} /\ run = NoRun /\ act \notin Entries
      <4>1. ~Superseded(u)
        BY <1>3, <1>4, <2>1, <3>1, <3>2 DEF Superseded
      <4> QED BY <1>1, <1>4, <3>1, <3>2, <4>1 DEF ReadyOK
    <3> QED BY <1>7, <3>1, <3>3, ConstantFacts
  <2>2. \A u \in Ops : th'[u].run \in Runs \cup {NoRun}
    BY <1>1, ConstantFacts DEF Thread
  <2> QED BY <2>1, <2>2 DEF ReadyOK
<1>12. ShutOK'
  <2>1. ASSUME Uncertain'
        PROVE  Shutting(n)'
    <3>1. CASE /\ w = Commanded /\ intent = ops + 1 /\ pc = "observe"
               /\ run = wb.client /\ act \in Entries \cup Recoveries
      <4>1. wb'.intent = n /\ "observe" \in Asking
        BY <1>1, <1>2, <1>3, <3>1 DEF Commanded, Memory, Asking
      <4> QED BY <1>2, <1>4, <3>1, <4>1 DEF Shutting, Asks
    <3>2. CASE act \in {"task", "start"} /\ ~Uncertain
      <4>1. act \notin Entries /\ wb.client \in Runs
        BY <1>1, <1>4, <2>1, <3>2 DEF Entries, Uncertain, Memory
      <4>2. \A r \in Runs : r = wb.client => Unsettled(r)' = Unsettled(r)
        BY <1>7, <4>1
      <4>3. Uncertain
        BY <1>3, <1>4, <2>1, <4>1, <4>2 DEF Uncertain
      <4> QED BY <3>2, <4>3
    <3>3. ~(~(wb.client # NoRun /\ wb.loaded))
      BY <1>4, <2>1 DEF Uncertain
    <3> QED BY <3>1, <3>2, <3>3
  <2> QED BY <1>2, <1>4, <2>1 DEF ShutOK
<1>13. OneUnsettled'
  <2>1. ASSUME NEW r \in Runs, NEW u \in Unsettled(r)', NEW v \in Unsettled(r)'
        PROVE  u = v
    <3>1. CASE act \in Entries /\ r = run
      <4>1. Unsettled(r) = {}
        BY <3>1 DEF Entries
      <4>2. Unsettled(r)' = {n}
        BY <1>7, <3>1, <4>1
      <4> QED BY <2>1, <4>2
    <3>2. CASE ~(act \in Entries /\ r = run)
      BY <1>1, <1>7, <2>1, <3>2 DEF OneUnsettled
    <3> QED BY <3>1, <3>2
  <2> QED BY <2>1 DEF OneUnsettled
<1>14. NewestOK'
  <2>1. ASSUME NEW r \in Runs, NEW u \in Unsettled(r)', wb'.intent # 0
        PROVE  u <= wb'.intent
    <3>1. CASE wb'.intent = n
      <4>1. u = n \/ (u \in Nat /\ u <= ops)
        BY <1>5, <1>7, <2>1
      <4> QED BY <1>1, <1>2, <3>1, <4>1
    <3>2. CASE wb'.intent = wb.intent /\ act \notin Entries
      <4>1. u \in Unsettled(r) /\ wb.intent # 0
        BY <1>7, <2>1, <3>2
      <4>2. u <= wb.intent
        BY <1>1, <1>3, <4>1 DEF NewestOK
      <4> QED BY <3>2, <4>2
    <3> QED BY <1>4, <3>1, <3>2
  <2> QED BY <2>1 DEF NewestOK
<1> QED BY <1>8, <1>9, <1>10, <1>11, <1>12, <1>13, <1>14 DEF DoubtInv

LEMMA PersonDoubt ==
  ASSUME DoubtInv, FenceInv',
         \/ Prepare \/ Start
         \/ \E act \in {"auto", "one_step"} : Enter(act)
         \/ \E act \in {"human", "stop"} : Recover(act)
  PROVE  DoubtInv'
<1>1. /\ TypeOK /\ wb \in Memory /\ wb.intent \in Threads
      /\ wb.client \in Runs \cup {NoRun} /\ wb.up
  BY DoubtDomains DEF Memory, Prepare, Start, Enter, Recover, Begin
<1>2. ASSUME ops < MaxOps
      PROVE  ops + 1 \in Threads /\ Commanded \in Memory
  <2>1. ops + 1 \in Threads
    BY <1>1, <1>2, ConstantFacts DEF TypeOK
  <2> QED BY <1>1, <2>1, MemoryNumbers DEF Commanded
<1>3. {"task", "start", "cancel", "human", "stop", "auto", "one_step"} \subseteq Acts
      /\ {"auto", "one_step"} \subseteq Entries
      /\ \A act \in {"human", "stop", "cancel"} : act \notin Entries
  BY DEF Acts, Entries
<1>4. Admitted => ~Busy /\ ~Uncertain
  BY <1>1, AdmittedCertain DEF Admitted
<1>5. CASE Prepare
  BY <1>1, <1>3, <1>4, <1>5, BeginDoubt DEF Prepare
<1>6. CASE Start
  BY <1>1, <1>3, <1>4, <1>6, BeginDoubt DEF Start
<1>7. ASSUME NEW act \in {"auto", "one_step"}, Enter(act)
      PROVE  DoubtInv'
  <2>1. /\ Admitted /\ wb.client # NoRun /\ wb.loaded /\ ops < MaxOps /\ ~wb.closed
        /\ Begin(Commanded, act, "observe", ops + 1, wb.client)
    BY <1>7 DEF Enter, Begin
  <2>2. Unsettled(wb.client) = {}
    BY <1>1, <1>4, <2>1 DEF Uncertain
  <2> QED BY <1>1, <1>2, <1>3, <2>1, <2>2, BeginDoubt
<1>8. ASSUME NEW act \in {"human", "stop"}, Recover(act)
      PROVE  DoubtInv'
  <2>1. ops < MaxOps /\ act \in Recoveries
    BY <1>8 DEF Recover, Begin, Recoveries
  <2>2. CASE /\ wb.client # NoRun
             /\ Begin(Commanded, act, "observe", ops + 1, wb.client)
    BY <1>1, <1>2, <1>3, <2>1, <2>2, BeginDoubt
  <2>3. CASE /\ ~(wb.client # NoRun /\ wb.loaded)
             /\ Begin(Commanded, act, "identify", ops + 1, NoRun)
    BY <1>1, <1>2, <1>3, <2>1, <2>3, BeginDoubt
  <2>4. CASE /\ ~(wb.client # NoRun /\ wb.loaded)
             /\ Begin(Commanded, "cancel", "cancel", ops + 1, NoRun)
    BY <1>1, <1>2, <1>3, <2>1, <2>4, BeginDoubt
  <2> QED BY <1>8, <2>2, <2>3, <2>4 DEF Recover
<1> QED BY <1>5, <1>6, <1>7, <1>8

-----------------------------------------------------------------------------
(* Together.                                                               *)

LEMMA InitDoubt ==
  ASSUME Init
  PROVE  DoubtInv
<1>1. FenceInv /\ ops = 0 /\ 0 \in Threads
  BY InitFence, ConstantFacts DEF Init, Closer
<1>2. /\ wb.op = 0 /\ wb.last = 0 /\ wb.intent = 0 /\ wb.client = NoRun
  BY DEF Init, Opened
<1>3. \A t \in Ops : th[t] = NoThread /\ wire[t] = NoRequest
  BY ConstantFacts DEF Init
<1>4. \A r \in Runs : rt[r].doubt = {}
  BY DEF Init
<1>5. /\ NoThread.pc = "none" /\ NoThread.run = NoRun /\ NoThread.intent = 0
      /\ NoRequest.act = "none"
  BY DEF NoThread, NoRequest
<1>6. "none" \notin Working /\ "none" \notin Asking
      /\ "none" \notin Entries /\ "none" \notin Recoveries
  BY DEF Working, Pending, Asking, Entries, Recoveries
<1>7. \A r \in Runs : Unsettled(r) = {}
  BY <1>3, <1>4, <1>5, <1>6 DEF Unsettled, Asks
<1>8. OrderOK
  BY <1>1, <1>2, <1>3, <1>5, <1>6 DEF OrderOK
<1>9. NamesOK /\ AnswersOK
  BY <1>2, <1>3, <1>4, <1>5, <1>6, <1>7 DEF NamesOK, AnswersOK
<1>10. ReadyOK /\ ShutOK /\ OneUnsettled /\ NewestOK
  BY <1>2, <1>3, <1>5, <1>7
     DEF ReadyOK, Received, ShutOK, Uncertain, OneUnsettled, NewestOK
<1> QED BY <1>1, <1>8, <1>9, <1>10 DEF DoubtInv

LEMMA NextDoubt ==
  ASSUME DoubtInv, [Next]_vars
  PROVE  DoubtInv'
<1>1. FenceInv'
  BY NextFence DEF DoubtInv
<1>2. ASSUME NEW t \in Ops, Step(t)
      PROVE  DoubtInv'
  <2>1. CASE HandleError(t) \/ Save(t) \/ Task(t) \/ Probe(t) \/ Launch(t)
             \/ Load(t) \/ Abandon(t) \/ Cancel(t) \/ Observe(t)
    BY <1>1, <2>1, HandleErrorDoubt, SaveDoubt, TaskDoubt, ProbeDoubt, LaunchDoubt,
       LoadDoubt, CancelDoubt, ObserveDoubt
  <2>2. CASE Bind(t) \/ PrepareGame(t) \/ Send(t) \/ Receive(t) \/ TimeOut(t)
    BY <1>1, <2>2, BindDoubt, ObserveDoubt, SendDoubt, ReceiveDoubt, TimeOutDoubt
  <2>3. CASE Settle(t) \/ Kill(t) \/ Handoff(t) \/ Identify(t) \/ Adopt(t)
    BY <1>1, <2>3, SettleDoubt, ProbeDoubt, HandoffDoubt, IdentifyDoubt, AdoptDoubt
  <2> QED BY <1>2, <2>1, <2>2, <2>3 DEF Step
<1>3. CASE Closes \/ Close
  BY <1>1, <1>3, CloserDoubt, EndsDoubt DEF Closes
<1>4. CASE ObserveStop \/ Poll \/ Crash \/ Open \/ \E t \in Ops : CrashInLaunch(t)
  BY <1>1, <1>4, WatchDoubt, EndsDoubt, OpenDoubt
<1>5. CASE Person
  BY <1>1, <1>3, <1>4, <1>5, PersonDoubt DEF Person
<1>6. ASSUME NEW r \in Runs, Ready(r) \/ Dies(r) \/ Ends(r) \/ OtherRecovers(r)
      PROVE  DoubtInv'
  BY <1>1, <1>6, LivesDoubt, OtherRecoversDoubt
<1>7. CASE \E t \in Threads : Serve(t)
  BY <1>1, <1>7, ServeDoubt
<1>8. CASE UNCHANGED vars
  <2>1. UNCHANGED <<wb, th, wire, rt, ops>>
    BY <1>8 DEF vars
  <2>2. SameMarks(rt') /\ \A u \in Ops : th'[u] = th[u] /\ wire'[u] = wire[u]
    BY <2>1 DEF SameMarks
  <2>3. wb'.client \in {NoRun, wb.client} /\ wb'.closed = wb.closed
    BY <2>1
  <2> QED BY <1>1, <2>1, <2>2, <2>3, StillOrder, AloneStep
<1> QED BY <1>2, <1>3, <1>4, <1>5, <1>6, <1>7, <1>8 DEF Next

\* In every state the unsettled commands of a runtime are at most one, and the
\* Workbench that has it loaded is asking or shut (command, local_models.py).
THEOREM DoubtInvariance == Spec => []DoubtInv
<1>1. Init => DoubtInv
  BY InitDoubt
<1>2. DoubtInv /\ [Next]_vars => DoubtInv'
  BY NextDoubt
<1> QED BY <1>1, <1>2, PTL DEF Spec

-----------------------------------------------------------------------------
(* What follows of DoubtInv about steps: the commands a runtime takes.     *)

\* A step that nobody but a runtime takes part in leaves its command alone.
SameHolders == \A r \in Runs : rt'[r].held = rt[r].held

LEMMA KeptHolders ==
  ASSUME Kept \/ rt' = rt
  PROVE  SameHolders
  BY DEF Kept, Quiet, SameFences, SameHolders

\* The runtime accepts a request only of an unsettled command.
LEMMA ServedUnsettled ==
  ASSUME DoubtInv, NEW t \in Threads, Serve(t), Commands(t, wire[t].run)
  PROVE  wire[t].run \in Runs /\ t \in Unsettled(wire[t].run)
<1>1. /\ TypeOK /\ NumbersOK /\ BoundOK /\ NamesOK /\ AnswersOK
  BY DEF DoubtInv, FenceInv
<1>2. wire[t].act \in Entries /\ wire[t] \in Request
  BY <1>1, Served DEF Commands
<1>3. t \in Ops
  <2>1. t # Closer
    BY <1>1, <1>2 DEF NumbersOK, Entries
  <2> QED BY <2>1 DEF Threads
<1> DEFINE r == wire[t].run
<1>4. r \in Runs /\ rt[r] \in Runtime
  BY <1>1, <1>2, Domains DEF Request
<1>5. th[t].pc = "reply" \/ t \in rt[r].doubt
  BY <1>2, <1>3 DEF Commands, DoubtInv, AnswersOK
<1>6. t > rt[r].recovered
  <2>1. rt[r].recovered < t
    BY <1>1, <1>2, <1>3 DEF Commands, BoundOK, Binds
  <2> QED BY <2>1, <1>3, <1>4, ConstantFacts DEF Runtime
<1>7. th[t].pc = "reply" => Asks(t, Entries) /\ th[t].run = r
  BY <1>1, <1>2, <1>3 DEF NamesOK, Asks, Asking
<1> QED BY <1>3, <1>4, <1>5, <1>6, <1>7 DEF Unsettled

OneCommand ==
  \A r \in Runs : rt'[r].held \notin {0, rt[r].held}
                    => rt[r].doubt \subseteq {rt'[r].held}

LEMMA ServeCommand ==
  ASSUME DoubtInv, NEW t \in Threads, Serve(t)
  PROVE  OneCommand
<1> SUFFICES ASSUME NEW r \in Runs, rt'[r].held \notin {0, rt[r].held}
             PROVE  rt[r].doubt \subseteq {rt'[r].held}
  BY DEF OneCommand
<1>1. TypeOK /\ OneUnsettled /\ rt[r].doubt \in SUBSET Ops
  <2>1. TypeOK /\ OneUnsettled
    BY DEF DoubtInv, FenceInv
  <2> QED BY <2>1, Domains DEF Runtime
<1>2. wire[t].run = r /\ Commands(t, r)
  BY <1>1, Served DEF Recovers
<1>3. t \in Unsettled(r) /\ rt'[r].held = t
  BY <1>2, ServedUnsettled DEF Commands
<1>4. rt[r].doubt \subseteq Unsettled(r)
  BY <1>1 DEF Unsettled
<1> QED BY <1>1, <1>3, <1>4 DEF OneUnsettled

LEMMA OtherRecoversCommand ==
  ASSUME TypeOK, NEW r \in Runs, OtherRecovers(r)
  PROVE  OneCommand
<1>1. rt[r] \in Runtime /\ rt \in [Runs -> Runtime]
  BY Domains
<1>2. PICK life \in {"running", "stopped"} :
        rt' = [rt EXCEPT ![r] = [Advanced(@) EXCEPT !.life = life]]
  BY DEF OtherRecovers
<1> DEFINE z == Advanced(rt[r])
           y == [z EXCEPT !.life = life]
<1>3. z \in Runtime /\ z.held = 0
  BY <1>1, AdvancedType
<1>4. rt' = [rt EXCEPT ![r] = y]
  BY <1>2
<1> HIDE DEF z
<1>5. y.held = 0
  BY <1>3 DEF Runtime
<1> HIDE DEF y
<1> QED BY <1>1, <1>4, <1>5 DEF OneCommand

LEMMA NextCommand ==
  ASSUME DoubtInv, [Next]_vars
  PROVE  OneCommand
<1>1. FenceInv /\ TypeOK /\ NumbersOK
  BY DEF DoubtInv, FenceInv
<1>2. SameHolders => OneCommand
  BY DEF SameHolders, OneCommand
<1>3. ASSUME NEW t \in Ops, Step(t)
      PROVE  SameHolders
  <2>1. CASE Bind(t) \/ Send(t)
    BY <2>1, KeptHolders DEF Bind, Send
  <2>2. CASE HandleError(t) \/ Save(t) \/ Task(t) \/ Probe(t) \/ Launch(t)
             \/ Load(t) \/ Abandon(t) \/ Cancel(t) \/ Observe(t)
    <3>1. Kept
      BY <1>1, <2>2, HandleErrorKept, SaveKept, TaskKept, ProbeKept, LaunchKept,
         LoadKept, AbandonKept, CancelKept, ObserveKept
    <3> QED BY <3>1, KeptHolders
  <2>3. CASE PrepareGame(t) \/ Receive(t) \/ TimeOut(t) \/ Settle(t)
             \/ Kill(t) \/ Handoff(t) \/ Identify(t) \/ Adopt(t)
    <3>1. Kept
      BY <1>1, <2>3, PrepareGameKept, ReceiveKept, TimeOutKept, SettleKept,
         KillKept, HandoffKept, IdentifyKept, AdoptKept, ConstantFacts
    <3> QED BY <3>1, KeptHolders
  <2> QED BY <1>3, <2>1, <2>2, <2>3 DEF Step
<1>4. CASE Closes \/ ObserveStop \/ Poll \/ Crash \/ Open
           \/ \E t \in Ops : CrashInLaunch(t)
  <2>1. Kept
    BY <1>1, <1>4, CloserReplyKept, KillKept, LeaveKept, EndsKept,
       ObserveStopKept, PollKept, OpenKept, ConstantFacts DEF Closes
  <2> QED BY <1>2, <2>1, KeptHolders
<1>5. CASE Prepare \/ Start \/ Close \/ (\E act \in {"auto", "one_step"} : Enter(act))
           \/ (\E act \in {"human", "stop"} : Recover(act))
  <2>1. rt' = rt
    BY <1>5 DEF Prepare, Start, Close, Enter, Recover, Begin
  <2> QED BY <1>2, <2>1, KeptHolders
<1>6. ASSUME NEW r \in Runs, Ready(r) \/ Dies(r) \/ Ends(r) \/ OtherRecovers(r)
      PROVE  OneCommand
  <2>1. CASE OtherRecovers(r)
    BY <1>1, <2>1, OtherRecoversCommand
  <2>2. CASE Ready(r) \/ Dies(r) \/ Ends(r)
    BY <1>1, <1>2, <2>2, LivesKept, KeptHolders
  <2> QED BY <1>6, <2>1, <2>2
<1>7. CASE \E t \in Threads : Serve(t)
  BY <1>7, ServeCommand
<1>8. CASE UNCHANGED vars
  BY <1>2, <1>8, KeptHolders DEF vars
<1> QED BY <1>2, <1>3, <1>4, <1>5, <1>6, <1>7, <1>8 DEF Next, Person

\* While a command is of unknown outcome the runtime takes no other, in this
\* Workbench and in the next (command and _send_control, local_models.py).
THEOREM UncertainIsFenced == Spec => UncertainFenced
<1>1. DoubtInv /\ [Next]_vars
        => [\A r \in Runs : rt'[r].held \notin {0, rt[r].held}
              => rt[r].doubt \subseteq {rt'[r].held}]_vars
  BY NextCommand DEF OneCommand
<1> QED BY <1>1, DoubtInvariance, PTL DEF Spec, UncertainFenced

-----------------------------------------------------------------------------
(* What follows of OrderOK about steps: the thread of an older operation.  *)

SameReport == /\ wb'.status = wb.status /\ wb'.loaded = wb.loaded
              /\ wb'.client = wb.client

\* Only its own thread changes, or the Workbench goes down.
LEMMA StepsOneThread ==
  ASSUME TypeOK, NEW u \in Ops, Step(u)
  PROVE  \A t \in Ops \ {u} : th'[t] = th[t]
<1>1. th \in [Threads -> Thread] /\ \A t \in Ops : t \in Threads
  BY Domains, ConstantFacts
<1>2. ASSUME NEW x, th' = [th EXCEPT ![u] = x]
      PROVE  \A t \in Ops \ {u} : th'[t] = th[t]
  BY <1>1, <1>2
<1>3. ASSUME NEW pc, Goto(u, pc)
      PROVE  \A t \in Ops \ {u} : th'[t] = th[t]
  BY <1>1, <1>3 DEF Goto
<1>4. ASSUME NEW code, Raise(u, code)
      PROVE  \A t \in Ops \ {u} : th'[t] = th[t]
  BY <1>1, <1>4 DEF Raise
<1>5. CASE HandleError(u) \/ Task(u) \/ Probe(u) \/ Load(u) \/ Abandon(u)
           \/ Cancel(u) \/ Observe(u) \/ PrepareGame(u) \/ Send(u) \/ TimeOut(u)
           \/ Settle(u) \/ Kill(u) \/ Handoff(u) \/ Adopt(u)
  BY <1>3, <1>4, <1>5 DEF HandleError, Task, Probe, Load, Abandon, Cancel, Observe,
     PrepareGame, Send, TimeOut, Settle, Kill, Handoff, Adopt
<1>6. CASE Save(u)
  BY <1>2, <1>6 DEF Save
<1>7. CASE Launch(u)
  BY <1>1, <1>4, <1>7 DEF Launch
<1>8. CASE Bind(u)
  BY <1>1, <1>4, <1>8 DEF Bind
<1>9. CASE Receive(u)
  BY <1>1, <1>4, <1>9 DEF Receive
<1>10. CASE Identify(u)
  BY <1>1, <1>3, <1>4, <1>10 DEF Identify
<1> QED BY <1>5, <1>6, <1>7, <1>8, <1>9, <1>10 DEF Step

\* A thread that may still write what the Workbench reports is current.
LEMMA WorkersAreCurrent ==
  ASSUME OrderOK, NEW t \in Ops, th[t].pc \in Working, ~Superseded(t)
  PROVE  t = wb.op
  BY DEF OrderOK, Superseded

LEMMA OlderReportsNothing ==
  ASSUME OrderOK, NEW t \in Ops, Step(t), wb.op # t,
         th[t].act \in Entries \cup {"start", "human"}
  PROVE  SameReport
<1>1. /\ th[t].act \notin {"task", "stop"}
      /\ {"launch", "await", "cancel", "settle", "adopt"} \subseteq Working
  BY DEF Entries, Working, Pending
<1>2. th[t].pc = "task" => th[t].act = "task"
  BY DEF OrderOK
<1>3. th[t].pc = "handoff" => th[t].act = "stop" \/ th[t].code = "stopped"
  BY DEF OrderOK
<1>4. th[t].pc \in {"launch", "await", "cancel", "settle", "adopt"} => Superseded(t)
  BY <1>1, WorkersAreCurrent
<1>5. CASE Save(t) \/ Probe(t) \/ Abandon(t) \/ Observe(t) \/ Bind(t) \/ PrepareGame(t)
           \/ Send(t) \/ Receive(t) \/ TimeOut(t) \/ Kill(t) \/ Identify(t)
           \/ HandleError(t)
  BY <1>5 DEF Save, Probe, Abandon, Observe, Bind, PrepareGame, Send, Receive,
     TimeOut, Kill, Identify, HandleError, SameReport
<1>6. CASE Task(t) \/ Handoff(t)
  BY <1>1, <1>2, <1>3, <1>6 DEF Task, Handoff, At, SameReport
<1>7. CASE Launch(t) \/ Load(t) \/ Cancel(t) \/ Settle(t) \/ Adopt(t)
  BY <1>4, <1>7 DEF Launch, Load, Cancel, Settle, Adopt, At, SameReport
<1> QED BY <1>5, <1>6, <1>7 DEF Step

LEMMA NextReport ==
  ASSUME DoubtInv, [Next]_vars, NEW t \in Ops, wb'.up, th'[t] # th[t], wb.op # t,
         th[t].act \in Entries \cup {"start", "human"}
  PROVE  SameReport
<1>1. /\ TypeOK /\ OrderOK /\ th \in [Threads -> Thread] /\ t \in Threads
      /\ t # Closer /\ ops \in Nat
  BY Domains, ConstantFacts DEF DoubtInv, FenceInv, Closer, Ops, TypeOK
<1>2. ASSUME NEW u \in Ops, Step(u)
      PROVE  SameReport
  BY <1>1, <1>2, StepsOneThread, OlderReportsNothing
<1>3. ~Down
  BY DEF Down, Opened
<1>4. ASSUME CloserReply \/ Kill(Closer) \/ Leave \/ Close \/ Open
      PROVE  FALSE
  BY <1>1, <1>4 DEF CloserReply, Kill, Leave, Close, Open, Goto
<1>5. ASSUME NEW w, NEW act, NEW pc, NEW intent, NEW run,
             Begin(w, act, pc, intent, run)
      PROVE  FALSE
  <2>1. t = ops + 1
    BY <1>1, <1>5 DEF Begin
  <2>2. t > ops
    BY <1>1, <2>1
  <2>3. th[t].act = "none"
    BY <1>1, <2>2 DEF OrderOK, NoThread
  <2> QED BY <2>3 DEF Entries
<1>6. CASE Person
  BY <1>4, <1>5, <1>6 DEF Person, Prepare, Start, Enter, Recover
<1>7. CASE \/ ObserveStop \/ Poll \/ UNCHANGED vars
           \/ (\E r \in Runs : Ready(r) \/ Dies(r) \/ Ends(r) \/ OtherRecovers(r))
           \/ (\E u \in Threads : Serve(u))
  <2>1. th' = th
    BY <1>7 DEF ObserveStop, Poll, Ready, Dies, Ends, OtherRecovers, Serve, vars
  <2> QED BY <2>1
<1>8. CASE Closes \/ Crash \/ \E u \in Ops : CrashInLaunch(u)
  BY <1>3, <1>4, <1>8 DEF Closes, Exit, Crash, CrashInLaunch
<1> QED BY <1>2, <1>6, <1>7, <1>8 DEF Next

\* The answer of a start, a command or a Human that is not the latest operation
\* changes nothing of what the Workbench reports (_begin, local_models.py).
THEOREM LateRepliesAreHarmless == Spec => LateRepliesHarmless
<1>1. DoubtInv /\ [Next]_vars
        => [\A t \in Ops :
              /\ wb'.up /\ th'[t] # th[t] /\ wb.op # t
              /\ th[t].act \in Entries \cup {"start", "human"}
              => /\ wb'.status = wb.status /\ wb'.loaded = wb.loaded
                 /\ wb'.client = wb.client]_vars
  BY NextReport DEF SameReport
<1> QED BY <1>1, DoubtInvariance, PTL DEF Spec, LateRepliesHarmless
=============================================================================
