--------------------------- MODULE HumanRecording ---------------------------
(***************************************************************************)
(* The recorder of Human play: what it claims about the effect of an input *)
(* and what it leaves on disk.                                             *)
(*                                                                         *)
(* The game runs inputs of a person: a card is queued and executed as a    *)
(* GameAction, a button acts at once ("ui") or starts a native task, and a *)
(* choice is made in a selector that a queued action or a task waits for.  *)
(* RecorderRuntime observes them on the game's thread.  `tracker' is its   *)
(* SemanticBoundaryTracker, `trace' the semantic stream of the session and *)
(* `stream' its health; every handler changes the tracker provisionally,   *)
(* appends one batch of rows, and keeps the change only if the append was  *)
(* durable.  Closing runs on the thread that asked for it.                 *)
(*                                                                         *)
(* A captured frame is the set of inputs whose effect had begun; a frame   *)
(* that could not be captured completely is NoFrame.                       *)
(*                                                                         *)
(* Abstractions.  Inputs that become unknown together do so in any order.  *)
(* Action spaces and the derived canonical stream are left out, as are UI  *)
(* roots with a GameAction carrier and rewards.  An input changes what the *)
(* player sees, so that no two frames around it are equal.  Forgetting     *)
(* disposed entries, which no handler refers to again, and a second        *)
(* session are left out.  Bounds: an action waits for one selector, where  *)
(* a recorded choice is settled before the next one is made, and           *)
(* MaxMishaps writes fail.                                                 *)
(***************************************************************************)
EXTENDS Naturals, Sequences, FiniteSets, SequencesExt

CONSTANTS
  Plays,        \* Human inputs
  Casts,        \* the kinds they have: "game", "ui", "task", "choice", or "off"
  NoFrame,
  RemoteClose,  \* the task bridge may close the recording from its own thread
  MaxMishaps    \* bound: failed appends and flushes

ASSUME RecordingConstants ==
  /\ IsFiniteSet(Plays)
  /\ Casts \subseteq [Plays -> {"game", "ui", "task", "choice", "off"}]
  /\ \A frame \in SUBSET Plays : frame # NoFrame
  /\ MaxMishaps \in Nat

VARIABLES
  cast,
  native,   \* each input in the game
  scope,    \* how its input was witnessed
  head,     \* the latest decision of the selector that an input waits for
  queue,    \* the game's action queue
  ended,    \* native tasks whose end the next frame will see
  world,    \* inputs whose effect has begun
  tracker,
  trace,
  stream,
  life,     \* the recording's lifecycle
  closer,   \* per thread: how far it is in FinalizeClose
  stuck,    \* _closeDispositionPersistenceFailed
  sealed,   \* the close rows on disk: "open", "journaled", "receipt"
  mishaps

gameVars   == <<cast, native, scope, head, queue, ended, world>>
diskVars   == <<tracker, trace, stream, mishaps>>
closeVars  == <<life, closer, stuck, sealed>>
recordVars == <<gameVars, diskVars, closeVars>>

Threads == {"game", "remote"}

-----------------------------------------------------------------------------
(* The tracker.  An entry is an accepted input; `order' holds the inputs   *)
(* that started, in the order of their execution.                          *)

NoEntry == [held |-> FALSE, pre |-> NoFrame, paused |-> FALSE,
            finished |-> FALSE, commit |-> FALSE, cont |-> FALSE,
            disposed |-> FALSE]

NewTracker == [entry |-> [a \in Plays |-> NoEntry], order |-> <<>>]

Row(kind, a) == [kind |-> kind, act |-> a, pre |-> NoFrame, next |-> NoFrame,
                 commit |-> FALSE, cont |-> FALSE]

\* What a tracker operation returns: the tracker and the rows to append.
Gives(t, rows) == [t |-> t, rows |-> rows]
Nothing(t)     == Gives(t, <<>>)
Then(m, Op(_)) == LET n == Op(m.t) IN Gives(n.t, m.rows \o n.rows)

NeedsCommit(a)   == cast[a] \in {"game", "task"}
HasStarted(t, a) == Contains(t.order, a)
Waits(t, a) == /\ HasStarted(t, a)
               /\ ~t.entry[a].disposed
               /\ t.entry[a].finished \/ t.entry[a].paused
Waiting(t)    == {a \in Plays : Waits(t, a)}
Unresolved(t) == {a \in Plays : t.entry[a].held /\ ~t.entry[a].disposed}

Disposed(t, S) == [t EXCEPT !.entry =
  [a \in Plays |-> [t.entry[a] EXCEPT !.disposed = t.entry[a].disposed \/ a \in S]]]
Unknowns(S) ==
  LET seq == SetToSeq(S) IN [i \in 1 .. Len(seq) |-> Row("unknown", seq[i])]
Unknown(t, S) == Gives(Disposed(t, S), Unknowns(S))

\* The place of a in the order of execution, and the last of those who wait.
Place(t, a)    == CHOOSE i \in DOMAIN t.order : t.order[i] = a
LastWaiting(t) ==
  CHOOSE a \in Waiting(t) : \A b \in Waiting(t) : Place(t, b) <= Place(t, a)

\* Bug: another input that started since is not looked for.
Bug_Settle(t, a, frame, handoff) ==
  LET e == t.entry[a]
      bare == NeedsCommit(a) /\ ~e.commit /\ ~e.cont
  IN IF bare \/ frame = NoFrame
     THEN IF handoff THEN Unknown(t, {a}) ELSE Nothing(t)
     ELSE Gives(Disposed(t, {a}),
                <<[kind |-> "proved", act |-> a, pre |-> e.pre,
                   next |-> frame, commit |-> e.commit, cont |-> e.cont]>>)

\* Settle: the successor of a is the frame, unless another input started since.
Settle(t, a, frame, handoff) ==
  LET e == t.entry[a]
      bare == NeedsCommit(a) /\ ~e.commit /\ ~e.cont
  IN CASE Last(t.order) # a -> Unknown(t, {a})
       [] Last(t.order) = a /\ (bare \/ frame = NoFrame) ->
            IF handoff THEN Unknown(t, {a}) ELSE Nothing(t)
       [] OTHER ->
            IF e.pre = NoFrame
            THEN Unknown(t, {a})
            ELSE Gives(Disposed(t, {a}),
                       <<[kind |-> "proved", act |-> a, pre |-> e.pre,
                          next |-> frame, commit |-> e.commit, cont |-> e.cont]>>)

\* One boundary settles the last waiting input and gives up those before it.
SettleWaiting(t, frame, handoff) ==
  LET last == LastWaiting(t)
  IN IF Waiting(t) = {} THEN Nothing(t)
     ELSE Then(Unknown(t, Waiting(t) \ {last}),
               LAMBDA u : Settle(u, last, frame, handoff))

Accept(t, a) ==
  Gives([t EXCEPT !.entry[a] = [NoEntry EXCEPT !.held = TRUE]], <<Row("accepted", a)>>)

\* The frame before the execution is the state before the input.
Boundary(t, a, frame) ==
  Gives([t EXCEPT !.entry[a].pre = frame], <<[Row("boundary", a) EXCEPT !.pre = frame]>>)
BeforeExecution(t, a, frame) ==
  Then(SettleWaiting(t, frame, TRUE), LAMBDA u : Boundary(u, a, frame))

Started(t, a) ==
  IF HasStarted(t, a) THEN Nothing(t)
  ELSE Gives([t EXCEPT !.order = Append(@, a)], <<Row("started", a)>>)

Paused(t, a)  == Gives([t EXCEPT !.entry[a].paused = TRUE], <<Row("paused", a)>>)
Resumed(t, a) == Gives([t EXCEPT !.entry[a].paused = FALSE], <<Row("resumed", a)>>)

Finished(t, a) ==
  IF t.entry[a].finished THEN Nothing(t)
  ELSE Gives([t EXCEPT !.entry[a].finished = TRUE], <<Row("finished", a)>>)

\* The three ends without a successor, of an input not disposed yet.
Ends(t, a, kind) ==
  IF t.entry[a].disposed THEN Nothing(t)
  ELSE Gives(Disposed(t, {a}), <<Row(kind, a)>>)
Cancelled(t, a) ==
  Ends(t, a, IF HasStarted(t, a) THEN "cancelled_after" ELSE "cancelled_before")

\* ObserveNativeCommit: inputs that wait since before a are given up, and so
\* is a when a later one waits already.
NativeCommit(t, a) ==
  LET earlier == {b \in Waiting(t) : HasStarted(t, a) /\ Place(t, b) < Place(t, a)}
      later   == {b \in Waiting(t) : HasStarted(t, a) /\ Place(t, b) > Place(t, a)}
  IN IF t.entry[a].disposed THEN Nothing(t)
     ELSE Then(Unknown(t, earlier), LAMBDA u :
            IF later # {} THEN Unknown(u, {a})
            ELSE Gives([u EXCEPT !.entry[a].commit = TRUE], <<Row("commit", a)>>))

Continuation(t, a) ==
  IF t.entry[a].disposed THEN Nothing(t)
  ELSE Gives([t EXCEPT !.entry[a].cont = TRUE], <<Row("continued", a)>>)

\* ObserveNestedInputBoundary: an input in the selector of p settles p.
NestedBoundary(t, p, frame) ==
  LET e == t.entry[p]
      direct == HasStarted(t, p) /\ cast[p] = "task"
  IN IF e.disposed \/ (~e.paused /\ ~e.finished /\ ~direct) THEN Nothing(t)
     ELSE Then(IF e.commit \/ e.cont THEN Nothing(t) ELSE Continuation(t, p),
               LAMBDA u : Settle(u, p, frame, FALSE))

\* ObserveUnrecordedHumanEffect: no transition in hand may absorb the effect.
Barrier(t) == Unknown(t, Unresolved(t))

\* A direct root: accepted, executed and, without a task, finished at once.
DirectRoot(t, a, frame) ==
  Then(Then(Then(Accept(t, a), LAMBDA u : BeforeExecution(u, a, frame)),
            LAMBDA u : Started(u, a)),
       LAMBDA u : IF cast[a] = "task" THEN Nothing(u) ELSE Finished(u, a))

-----------------------------------------------------------------------------
(* Persistence.  `rec' is what a handler has reached so far: a handler that *)
(* persists several times goes through several sets of outcomes.            *)

Now == [t |-> tracker, trace |-> trace, stream |-> stream, cost |-> 0, ok |-> TRUE]

Kept(rec, m) == [rec EXCEPT !.t = m.t, !.trace = @ \o m.rows, !.ok = TRUE]
Mishap(rec)  == [rec EXCEPT !.cost = @ + 1, !.ok = FALSE]
Lost(rec)    == {[Mishap(rec) EXCEPT !.stream = s] : s \in {"disabled", "torn"}}
CanFail(rec) == mishaps + rec.cost < MaxMishaps

\* A failed append is rolled back, on disk and in the tracker, and the inputs
\* it was about become unknown; if that fails too the stream is disabled.  A
\* rollback that fails leaves a torn stream.
PersistOrUnknown(rec, m, about) ==
  LET acts == {a \in about \cup {m.rows[i].act : i \in DOMAIN m.rows} : rec.t.entry[a].held}
      left == acts \cap Unresolved(rec.t)
  IN IF rec.stream # "healthy" THEN {[rec EXCEPT !.ok = FALSE]}
     ELSE IF m.rows = <<>> THEN {Kept(rec, m)}
     ELSE {Kept(rec, m)} \cup
          IF ~CanFail(rec) THEN {}
          ELSE Lost(rec) \cup
               {IF left = {} THEN Mishap(rec)
                ELSE Kept([rec EXCEPT !.cost = @ + 1], Unknown(rec.t, left))}

\* An input whose acceptance is not durable disables the stream.
PersistOrDisable(rec, m) ==
  IF rec.stream # "healthy" THEN {[rec EXCEPT !.ok = FALSE]}
  ELSE {Kept(rec, m)} \cup (IF CanFail(rec) THEN Lost(rec) ELSE {})

Chain(recs, Op(_)) == UNION {Op(rec) : rec \in recs}

\* The handlers of a step run to their end on the game's thread.
Observe(recs) ==
  \E rec \in recs : /\ tracker' = rec.t
                    /\ trace' = rec.trace
                    /\ stream' = rec.stream
                    /\ mishaps' = mishaps + rec.cost

\* A barrier that is not durable disables the stream.
Escaped(rec) ==
  {IF r.ok \/ r.stream = "torn" THEN r ELSE [r EXCEPT !.stream = "disabled"] :
     r \in PersistOrUnknown(rec, Barrier(rec.t), {})}

-----------------------------------------------------------------------------
(* The game and its observers.                                              *)

GameRuns == closer["game"].at = "off"
Tracked(a) == tracker.entry[a].held /\ life # "closed"

\* What the witness of an input can be: none unless recording is on.
Witnesses == IF life = "recording" THEN {"held", "failed"} ELSE {"none"}

\* A button: its effect and its observation are one callback of the game.
Press(a) ==
  /\ GameRuns /\ native[a] = "idle" /\ cast[a] \in {"ui", "task"}
  /\ native' = [native EXCEPT ![a] = IF cast[a] = "task" THEN "working" ELSE "over"]
  /\ world' = world \cup {a}
  /\ \E w \in Witnesses :
       /\ scope' = [scope EXCEPT ![a] = w]
       /\ Observe(CASE w = "held"   -> PersistOrDisable(Now, DirectRoot(tracker, a, world))
                    [] w = "failed" -> Escaped(Now)
                    [] OTHER        -> {Now})
  /\ UNCHANGED <<cast, head, queue, ended, closeVars>>

\* An input that the game will queue: what is known of it is bound to it.
Submit(a) ==
  /\ GameRuns /\ native[a] = "idle" /\ cast[a] = "game"
  /\ native' = [native EXCEPT ![a] = "sent"]
  /\ \E w \in Witnesses : scope' = [scope EXCEPT ![a] = w]
  /\ UNCHANGED <<cast, head, queue, ended, world, diskVars, closeVars>>

Enqueue(a) ==
  /\ GameRuns /\ native[a] = "sent"
  /\ native' = [native EXCEPT ![a] = "queued"]
  /\ queue' = Append(queue, a)
  /\ Observe(CASE scope[a] = "held" /\ life # "closed" ->
                    PersistOrDisable(Now, Accept(tracker, a))
               [] scope[a] = "failed" /\ life # "closed" -> Escaped(Now)
               [] OTHER -> {Now})
  /\ UNCHANGED <<cast, scope, head, ended, world, closeVars>>

\* The executor announces the action and starts it.
Execute(a) ==
  /\ GameRuns /\ native[a] = "queued" /\ Head(queue) = a
  /\ native' = [native EXCEPT ![a] = "running"]
  /\ world' = world \cup {a}
  /\ \E frame \in {world, NoFrame} :
       Observe(IF ~Tracked(a) THEN {Now}
               ELSE Chain(PersistOrUnknown(Now, BeforeExecution(tracker, a, frame), {a}),
                          LAMBDA r : PersistOrUnknown(r, Started(r.t, a), {a})))
  /\ UNCHANGED <<cast, scope, head, queue, ended, closeVars>>

\* Bound: an action waits for one selector.
PauseForChoice(a) ==
  /\ GameRuns /\ native[a] = "running"
  /\ native' = [native EXCEPT ![a] = "choosing"]
  /\ Observe(IF ~Tracked(a) THEN {Now}
             ELSE Chain(PersistOrUnknown(Now, Paused(tracker, a), {a}),
                        LAMBDA r : PersistOrUnknown(r, Continuation(r.t, a), {a})))
  /\ UNCHANGED <<cast, scope, head, queue, ended, world, closeVars>>

Resume(a) ==
  /\ GameRuns /\ native[a] = "choosing"
  /\ native' = [native EXCEPT ![a] = "resumed"]
  /\ Observe(IF ~Tracked(a) THEN {Now}
             ELSE Chain(PersistOrUnknown(Now, Gives(tracker, <<Row("ready", a)>>), {a}),
                        LAMBDA r : PersistOrUnknown(r, Resumed(r.t, a), {a})))
  /\ UNCHANGED <<cast, scope, head, queue, ended, world, closeVars>>

\* A card whose play is given up before its cost is paid.
Abort(a) ==
  /\ GameRuns /\ native[a] \in {"running", "resumed"}
  /\ native' = [native EXCEPT ![a] = "aborted"]
  /\ Observe(IF ~Tracked(a) THEN {Now}
             ELSE PersistOrUnknown(Now, Ends(tracker, a, "aborted"), {a}))
  /\ UNCHANGED <<cast, scope, head, queue, ended, world, closeVars>>

\* The last callback of an action tries to close a closing recording.
Over(a, recs) ==
  /\ native' = [native EXCEPT ![a] = "over"]
  /\ queue' = SelectSeq(queue, LAMBDA b : b # a)
  /\ \E rec \in recs : /\ Observe({rec})
                       /\ closer' = IF Tracked(a) /\ rec.ok /\ life = "closing"
                                    THEN [closer EXCEPT !["game"].at = "asked"]
                                    ELSE closer
  /\ UNCHANGED <<cast, scope, head, ended, world, life, stuck, sealed>>

Finish(a) ==
  /\ GameRuns /\ native[a] \in {"running", "resumed", "aborted"}
  /\ Over(a, IF ~Tracked(a) THEN {Now}
             ELSE PersistOrUnknown(Now, Then(Finished(tracker, a),
                                             LAMBDA u : NativeCommit(u, a)), {a}))

Cancel(a) ==
  /\ GameRuns /\ native[a] \in {"queued", "running", "choosing", "resumed"}
  /\ Over(a, IF ~Tracked(a) THEN {Now}
             ELSE PersistOrUnknown(Now, Cancelled(tracker, a), {a}))

\* A task ends on a thread of its own: only the next frame looks at it.
TaskEnds(a) ==
  /\ native[a] = "working"
  /\ native' = [native EXCEPT ![a] = "over"]
  /\ \E ok \in BOOLEAN : ended' = Append(ended, [act |-> a, ok |-> ok])
  /\ UNCHANGED <<cast, scope, head, queue, world, diskVars, closeVars>>

\* The registration of a task is dropped when its input becomes unknown.
Registered(a) ==
  Tracked(a) /\ ~\E i \in DOMAIN trace : trace[i] = Row("unknown", a)

\* The frame that sees it tries to close a closing recording afterwards.
ObserveTask ==
  /\ GameRuns /\ ended # <<>>
  /\ ended' = Tail(ended)
  /\ LET task == Head(ended)
     IN Observe(IF ~Registered(task.act) THEN {Now}
                ELSE PersistOrUnknown(Now,
                       IF task.ok
                       THEN Then(Finished(tracker, task.act),
                                 LAMBDA u : NativeCommit(u, task.act))
                       ELSE Ends(tracker, task.act, "unknown"), {task.act}))
  /\ closer' = IF life = "closing" THEN [closer EXCEPT !["game"].at = "asked"] ELSE closer
  /\ UNCHANGED <<cast, native, scope, head, queue, world, life, stuck, sealed>>

\* The game is ready for the next decision, and the frame is complete.
OwnerReady ==
  /\ GameRuns /\ life # "closed" /\ Waiting(tracker) # {}
  /\ Observe(PersistOrUnknown(Now, SettleWaiting(tracker, world, FALSE), {}))
  /\ UNCHANGED <<gameVars, closeVars>>

\* A choice in the selector of p settles the decision before it, then acts,
\* then is accepted; while the selector stays open it may settle at once.
\* Bound: a choice that is recorded is settled before the next one is made.
Choose(k, p) ==
  /\ GameRuns /\ native[k] = "idle" /\ cast[k] = "choice"
  /\ native[p] \in {"choosing", "working"}
  /\ head[p] = p \/ tracker.entry[head[p]].disposed
  /\ native' = [native EXCEPT ![k] = "over"]
  /\ world' = world \cup {k}
  /\ \E w \in Witnesses \ (IF tracker.entry[p].held THEN {} ELSE {"held"}) :
     \E inPlace \in BOOLEAN :
       /\ scope' = [scope EXCEPT ![k] = w]
       /\ \E rec \in
            CASE w = "held" ->
                   Chain(Chain(PersistOrUnknown(Now, NestedBoundary(tracker, head[p], world),
                                                {head[p]}),
                               LAMBDA r : PersistOrDisable(r, DirectRoot(r.t, k, world))),
                         LAMBDA r : IF inPlace /\ r.ok
                                    THEN PersistOrUnknown(r, Settle(r.t, k, world', FALSE), {k})
                                    ELSE {r})
              [] w = "failed" -> Escaped(Now)
              [] OTHER -> {Now} :
            /\ Observe({rec})
            /\ head' = IF rec.t.entry[k].held THEN [head EXCEPT ![p] = k] ELSE head
  /\ UNCHANGED <<cast, queue, ended, closeVars>>

-----------------------------------------------------------------------------
(* The lifecycle.  A thread in FinalizeClose is "asked", "previewed" with   *)
(* the inputs it will close, and "written" when their rows are durable.     *)

Idle == [at |-> "off", drafts |-> {}]

PauseRecording ==
  /\ GameRuns /\ life = "recording" /\ life' = "paused"
  /\ UNCHANGED <<gameVars, diskVars, closer, stuck, sealed>>

ResumeRecording ==
  /\ GameRuns /\ life = "paused" /\ life' = "recording"
  /\ UNCHANGED <<gameVars, diskVars, closer, stuck, sealed>>

\* Close, from the recorder's panel or through the task bridge.
AskClose(th) ==
  /\ closer[th].at = "off" /\ (th = "game" \/ RemoteClose)
  /\ life \in {"recording", "paused"} /\ life' = "closing"
  /\ closer' = [closer EXCEPT ![th].at = "asked"]
  /\ UNCHANGED <<gameVars, diskVars, stuck, sealed>>

\* Every frame of a closing recording tries again.
FrameCloses ==
  /\ GameRuns /\ life = "closing" /\ ~stuck
  /\ closer' = [closer EXCEPT !["game"].at = "asked"]
  /\ UNCHANGED <<gameVars, diskVars, life, stuck, sealed>>

Preview(th) ==
  /\ closer[th].at = "asked"
  /\ LET off == life # "closing" \/ stuck \/ stream # "healthy"
     IN /\ closer' = [closer EXCEPT ![th] =
              IF off THEN Idle ELSE [at |-> "previewed", drafts |-> Unresolved(tracker)]]
        /\ stuck' = (stuck \/ (life = "closing" /\ stream # "healthy"))
  /\ UNCHANGED <<gameVars, diskVars, life, sealed>>

\* Bug: the tracker disposes of its inputs although their rows were not appended.
Bug_WriteClose(th) ==
  /\ closer[th].at = "previewed"
  /\ LET S == closer[th].drafts
         t == Disposed(tracker, Unresolved(tracker))
     IN Observe({Kept(Now, Gives(t, Unknowns(S)))} \cup
                (IF CanFail(Now) THEN {[Mishap(Now) EXCEPT !.t = t]} ELSE {}))
  /\ closer' = [closer EXCEPT ![th] = [at |-> "written", drafts |-> {}]]
  /\ UNCHANGED <<gameVars, life, stuck, sealed>>

\* The rows of the preview are appended without the lock; the tracker then
\* disposes of every unresolved input.
WriteClose(th) ==
  /\ closer[th].at = "previewed"
  /\ LET S == closer[th].drafts
         m == Gives(Disposed(tracker, Unresolved(tracker)), Unknowns(S))
         open == stream = "healthy" /\ life = "closing"
     IN \E rec \in IF S = {} THEN {Now}
                   ELSE IF ~open THEN {[Now EXCEPT !.ok = FALSE]}
                   ELSE {Kept(Now, m)} \cup
                        (IF CanFail(Now)
                         THEN {Mishap(Now), [Mishap(Now) EXCEPT !.stream = "torn"]} ELSE {}) :
          /\ Observe({rec})
          /\ stuck' = (stuck \/ ~rec.ok)
          /\ closer' = [closer EXCEPT ![th] =
               IF rec.ok THEN [@ EXCEPT !.at = "written", !.drafts = {}] ELSE Idle]
  /\ UNCHANGED <<gameVars, life, sealed>>

\* The journal says session_closed, the streams are flushed, and then the
\* receipt is published; a flush may fail, or the process may end, in between.
Seal(th) ==
  /\ closer[th].at = "written"
  /\ closer' = [closer EXCEPT ![th] = Idle]
  /\ IF life # "closing"
     THEN UNCHANGED <<ended, tracker, mishaps, life, stuck, sealed>>
     ELSE /\ ended' = <<>>
          /\ IF Unresolved(tracker) # {}
             THEN UNCHANGED <<tracker, mishaps, life, stuck, sealed>>
             ELSE \/ /\ sealed' = "receipt" /\ life' = "closed" /\ tracker' = NewTracker
                     /\ UNCHANGED <<mishaps, stuck>>
                  \/ /\ mishaps < MaxMishaps /\ mishaps' = mishaps + 1
                     /\ sealed' = "journaled" /\ stuck' = TRUE
                     /\ UNCHANGED <<tracker, life>>
  /\ UNCHANGED <<cast, native, scope, head, queue, world, trace, stream>>

RecordingInit ==
  /\ cast \in Casts
  /\ native = [a \in Plays |-> "idle"]
  /\ scope = [a \in Plays |-> "none"]
  /\ head = [a \in Plays |-> a]
  /\ queue = <<>> /\ ended = <<>> /\ world = {}
  /\ tracker = NewTracker /\ trace = <<>> /\ stream = "healthy" /\ mishaps = 0
  /\ life = "recording" /\ closer = [th \in Threads |-> Idle]
  /\ stuck = FALSE /\ sealed = "open"

RecordingNext ==
  \/ \E a \in Plays : \/ Press(a) \/ Submit(a) \/ Enqueue(a) \/ Execute(a)
                      \/ PauseForChoice(a) \/ Resume(a) \/ Abort(a)
                      \/ Finish(a) \/ Cancel(a) \/ TaskEnds(a)
  \/ \E k, p \in Plays : Choose(k, p)
  \/ ObserveTask \/ OwnerReady
  \/ PauseRecording \/ ResumeRecording \/ FrameCloses
  \/ \E th \in Threads : AskClose(th) \/ Preview(th) \/ WriteClose(th) \/ Seal(th)

RecordingSpec == RecordingInit /\ [][RecordingNext]_recordVars

-----------------------------------------------------------------------------
(* SemanticBoundaryTraceValidator, which audits every sealed recording, and *)
(* the copy of an interrupted recording.                                    *)

Dispositions == {"proved", "unknown", "cancelled_before", "cancelled_after", "aborted"}

At(tr, a, kinds) == {i \in DOMAIN tr : tr[i].act = a /\ tr[i].kind \in kinds}
Accepted(tr)     == {a \in Plays : At(tr, a, {"accepted"}) # {}}
Disposition(tr, a) == At(tr, a, Dispositions)

\* A handoff to an exact selector stands for the lifecycle of a direct input.
\* The state before is the one of the last boundary before the execution.
ProofValid(tr, i) ==
  LET r == tr[i]
      before(kinds) == \E j \in At(tr, r.act, kinds) : j < i
      handoff == cast[r.act] = "task" /\ r.cont /\ before({"continued"})
  IN /\ {r.pre, r.next} \subseteq SUBSET Plays /\ r.pre # r.next
     /\ NeedsCommit(r.act) => r.commit \/ r.cont
     /\ handoff \/ before({"finished", "paused"})
     /\ r.cont => handoff \/ before({"paused"})
     /\ At(tr, r.act, {"started"}) # {}
     /\ \A s \in At(tr, r.act, {"started"}) :
          /\ ~\E j \in s + 1 .. i - 1 : tr[j].kind = "started" /\ tr[j].act # r.act
          /\ \E b \in At(tr, r.act, {"boundary"}) :
               /\ b < s /\ tr[b].pre = r.pre
               /\ \A j \in At(tr, r.act, {"boundary"}) : j <= b \/ j > s

ActionValid(tr, a) ==
  LET mine == {i \in DOMAIN tr : tr[i].act = a}
      started == At(tr, a, {"started"}) # {}
  IN /\ \E i \in At(tr, a, {"accepted"}) : \A j \in mine : i <= j
     /\ Cardinality(At(tr, a, {"accepted"})) = 1
     /\ Cardinality(At(tr, a, {"started"})) <= 1
     /\ Cardinality(Disposition(tr, a)) = 1
     /\ \A i \in Disposition(tr, a) :
          CASE tr[i].kind = "proved" -> ProofValid(tr, i)
            [] tr[i].kind = "cancelled_before" -> ~started
            [] tr[i].kind \in {"cancelled_after", "aborted"} -> started
            [] OTHER -> TRUE

Valid(tr) == \A a \in {tr[i].act : i \in DOMAIN tr} : ActionValid(tr, a)

\* RecoverCopy: what the process left open becomes unknown.
Recovered(tr) ==
  tr \o Unknowns({a \in Accepted(tr) : Disposition(tr, a) = {}})

-----------------------------------------------------------------------------
(* Properties.                                                              *)

\* A recording with a close receipt passes the audit of its trace: one end of
\* every accepted input, and proofs that no other input ran into.
SealedTraceValid == sealed = "receipt" => Valid(trace)

\* Whenever the process ends, a recording that is neither torn nor caught
\* between its last journal row and its receipt can be recovered.
InterruptedRecoverable ==
  sealed = "open" /\ stream # "torn" => Valid(Recovered(trace))

RecordingAudits == SealedTraceValid /\ InterruptedRecoverable

\* A proved transition holds the effect of its own input and of no other that
\* started in the trace or that was refused as it acted.
Noticed(b) ==
  \/ At(trace, b, {"started"}) # {}
  \/ scope[b] = "failed" /\ cast[b] # "game"
TransitionsPure ==
  \A i \in DOMAIN trace : trace[i].kind = "proved" =>
    /\ trace[i].act \in trace[i].next \ trace[i].pre
    /\ \A b \in (trace[i].next \ trace[i].pre) \ {trace[i].act} : ~Noticed(b)

\* One end of every accepted input, in every state of the trace.
OneSemanticDisposition ==
  \A a \in Plays : Cardinality(Disposition(trace, a)) <= 1
=============================================================================
