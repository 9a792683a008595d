--------------------------- MODULE RecordsProofs ---------------------------
(***************************************************************************)
(* Proofs about what is kept on record, for any number of inputs, members, *)
(* computers, flows, datasets, sources and trainings.                      *)
(*                                                                         *)
(* Recordings of Human play: the inductive invariant relates the tracker,  *)
(* the rows on disk and the game at the end of every step (RecordingInv).  *)
(*                                                                         *)
(* Members: the inductive invariant adds to the safety property that an    *)
(* active member has a bound subject, so that disabling it never skips its *)
(* sessions, and that a session's computer belongs to the member who       *)
(* approved it.                                                            *)
(*                                                                         *)
(* Reservations: what is reserved as Gold is trained on by nobody,         *)
(* datasets with a common run are kept apart, and what is reserved was     *)
(* selected under the annotations then in force.  The invariant is the one *)
(* at the end of HubCuration.                                              *)
(***************************************************************************)
EXTENDS HubMembership, HubCuration, HumanRecording, FiniteSetTheorems,
        FunctionTheorems, SequenceTheorems, TLAPS

-----------------------------------------------------------------------------
(* Recordings.  What the tracker says of an input and what the trace holds  *)
(* of it agree (Synced); the tracker's open inputs can still be settled     *)
(* without absorbing another one (Pending).  Both speak of the game, as a   *)
(* record of sets, because a handler persists several times in one step and *)
(* each batch belongs to a moment of the step.                              *)

Frames   == {NoFrame} \cup SUBSET Plays
RowKinds == {"accepted", "boundary", "started", "paused", "resumed", "ready",
             "finished", "commit", "continued"} \cup Dispositions
TraceRows == [kind: RowKinds, act: Plays, pre: Frames, next: Frames,
              commit: BOOLEAN, cont: BOOLEAN]
Entries  == [held: BOOLEAN, pre: Frames, paused: BOOLEAN, finished: BOOLEAN,
             commit: BOOLEAN, cont: BOOLEAN, disposed: BOOLEAN]
Trackers == [entry: [Plays -> Entries], order: Seq(Plays)]
Moments  == [seen: SUBSET Plays, new: SUBSET Plays, fresh: SUBSET Plays,
             await: SUBSET Plays, over: SUBSET Plays, refused: SUBSET Plays]

\* seen: the effect has begun; new: nothing can be known of the input yet;
\* fresh: no boundary was observed; await: its start was not observed.
Moment(n, w, s) ==
  [seen    |-> w,
   new     |-> {a \in Plays : n[a] \in {"idle", "sent"}},
   fresh   |-> {a \in Plays : n[a] \in {"idle", "sent", "queued"}},
   await   |-> {a \in Plays : n[a] \in {"idle", "sent", "queued"}},
   over    |-> {a \in Plays : n[a] = "over"},
   refused |-> {a \in Plays : s[a] = "failed" /\ cast[a] # "game"}]
GameNow == Moment(native, world, scope)

HeldRows(t, tr, a) ==
  IF t.entry[a].held
  THEN \E i \in At(tr, a, {"accepted"}) : \A j \in DOMAIN tr :
         tr[j].act = a => i <= j /\ (tr[j].kind = "accepted" => j = i)
  ELSE \A j \in DOMAIN tr : tr[j].act # a

StartRows(t, tr, a) ==
  /\ HasStarted(t, a) <=> At(tr, a, {"started"}) # {}
  /\ \A i, j \in At(tr, a, {"started"}) : i = j

BoundaryRows(t, tr, a) ==
  /\ \A i, j \in At(tr, a, {"boundary"}) : i = j
  /\ \A i \in At(tr, a, {"boundary"}) :
       /\ tr[i].pre = t.entry[a].pre
       /\ \A s \in At(tr, a, {"started"}) : i < s
  /\ t.entry[a].pre # NoFrame =>
       a \notin t.entry[a].pre /\ At(tr, a, {"boundary"}) # {}

EndRows(t, tr, a) ==
  /\ t.entry[a].disposed <=> Disposition(tr, a) # {}
  /\ \A i, j \in Disposition(tr, a) : i = j

LifeRows(t, tr, a) ==
  /\ t.entry[a].finished => At(tr, a, {"finished"}) # {}
  /\ t.entry[a].paused => At(tr, a, {"paused"}) # {}
  /\ t.entry[a].cont => /\ At(tr, a, {"continued"}) # {}
                        /\ cast[a] = "task" \/ At(tr, a, {"paused"}) # {}
  /\ t.entry[a].commit => t.entry[a].finished

Begun(t, tr, a, g) ==
  /\ HasStarted(t, a) => a \in g.seen
  /\ At(tr, a, {"boundary"}) # {} => a \notin g.fresh
  /\ a \in g.new => ~t.entry[a].held

LastStart(t, tr) ==
  t.order # <<>> =>
    \E s \in At(tr, Last(t.order), {"started"}) :
      \A j \in DOMAIN tr : tr[j].kind = "started" => j <= s

RowValid(tr, i, g) ==
  /\ tr[i].kind = "proved" => ProofValid(tr, i)
  /\ tr[i].kind = "cancelled_before" =>
       At(tr, tr[i].act, {"started"}) = {} /\ tr[i].act \in g.over
  /\ tr[i].kind \in {"cancelled_after", "aborted"} =>
       At(tr, tr[i].act, {"started"}) # {}

RowPure(tr, i, g) ==
  tr[i].kind = "proved" =>
    /\ tr[i].next \subseteq g.seen
    /\ tr[i].act \in tr[i].next \ tr[i].pre
    /\ \A b \in (tr[i].next \ tr[i].pre) \ {tr[i].act} :
         At(tr, b, {"started"}) = {} /\ b \notin g.refused

PureRows(tr, g) == \A i \in DOMAIN tr : RowPure(tr, i, g)

Synced(t, tr, g) ==
  /\ t \in Trackers /\ tr \in Seq(TraceRows) /\ g \in Moments
  /\ \A a \in Plays : /\ HeldRows(t, tr, a)
                      /\ StartRows(t, tr, a)
                      /\ BoundaryRows(t, tr, a)
                      /\ EndRows(t, tr, a)
                      /\ LifeRows(t, tr, a)
                      /\ Begun(t, tr, a, g)
  /\ LastStart(t, tr)
  /\ \A i \in DOMAIN tr : RowValid(tr, i, g)
  /\ PureRows(tr, g)

Alone(t, a, g) ==
  HasStarted(t, a) /\ Last(t.order) = a /\ t.entry[a].pre # NoFrame =>
    \A b \in (g.seen \ t.entry[a].pre) \ {a} : ~HasStarted(t, b) /\ b \notin g.refused

Pending(t, g) ==
  \A a \in Plays : t.entry[a].held /\ ~t.entry[a].disposed =>
    /\ Alone(t, a, g)
    /\ a \notin g.await => HasStarted(t, a)
    /\ cast[a] = "game" /\ t.entry[a].finished => t.entry[a].commit

Reached(rec, g) ==
  /\ Synced(rec.t, rec.trace, g)
  /\ rec.stream = "healthy" => Pending(rec.t, g)

Streams == {"healthy", "disabled", "torn"}
Steps   == [t: Trackers, trace: Seq(TraceRows), stream: Streams, cost: Nat, ok: BOOLEAN]
Arrived(r, g) == r \in Steps /\ Reached(r, g)

\* Where inputs are in the game.
NativeStates == {"idle", "sent", "queued", "running", "choosing", "resumed",
                 "aborted", "working", "over"}
GameOK ==
  /\ native \in [Plays -> NativeStates] /\ head \in [Plays -> Plays]
  /\ scope \in [Plays -> {"none", "held", "failed"}]
  /\ world \subseteq Plays
  /\ ended \in Seq([act: Plays, ok: BOOLEAN])
  /\ \A a \in Plays :
       /\ native[a] \in {"idle", "sent", "queued"} => a \notin world
       /\ native[a] \in {"sent", "queued", "running", "choosing", "resumed", "aborted"}
            => cast[a] = "game"
       /\ native[a] = "working" => cast[a] = "task"
  /\ \A i \in DOMAIN ended : cast[ended[i].act] = "task" /\ native[ended[i].act] = "over"

CloseOK ==
  /\ closer \in [Threads -> [at: {"off", "asked", "previewed", "written"},
                             drafts: SUBSET Plays]]
  /\ closer["remote"].at = "off"
  /\ closer["game"].at = "previewed" =>
       life = "closing" /\ closer["game"].drafts = Unresolved(tracker)
  /\ stream \in Streams /\ mishaps \in Nat
  /\ sealed = "receipt" <=> life = "closed"

Sealed == trace \in Seq(TraceRows) /\ Valid(trace) /\ PureRows(trace, GameNow)

RecordingInv ==
  /\ GameOK
  /\ CloseOK
  /\ life # "closed" => Arrived(Now, GameNow)
  /\ life = "closed" => Sealed

-----------------------------------------------------------------------------

\* A nonempty set of naturals has a greatest element below a bound.
LEMMA Greatest ==
  ASSUME NEW N \in Nat, NEW T \in SUBSET (1 .. N), T # {}
  PROVE  \E m \in T : \A n \in T : n <= m
<1> DEFINE R == OpToRel(<, Nat)
           U == {N - n : n \in T}
<1>1. IsWellFoundedOn(R, Nat)
  BY NatLessThanWellFounded
<1>2. U \subseteq Nat /\ U # {}
  <2>1. \A n \in T : N - n \in Nat
    OBVIOUS
  <2> QED BY <2>1
<1>3. PICK u \in U : \A v \in U : <<v, u>> \notin R
  <2> HIDE DEF R, U
  <2> QED BY <1>1, <1>2, WFMin
<1>4. PICK m \in T : u = N - m
  OBVIOUS
<1>5. ASSUME NEW n \in T PROVE n <= m
  <2>1. <<N - n, u>> \notin R
    BY <1>3
  <2>2. ~(N - n < u)
    BY <2>1, <1>4 DEF OpToRel
  <2> QED BY <2>2, <1>4
<1> QED BY <1>5

\* A finite set as a sequence: every member once.
LEMMA Sequenced ==
  ASSUME NEW S, IsFiniteSet(S)
  PROVE  /\ SetToSeq(S) \in Seq(S)
         /\ \A i, j \in 1 .. Len(SetToSeq(S)) : SetToSeq(S)[i] = SetToSeq(S)[j] => i = j
         /\ \A x \in S : \E i \in 1 .. Len(SetToSeq(S)) : SetToSeq(S)[i] = x
<1> DEFINE n == Cardinality(S)
           s == SetToSeq(S)
<1>1. n \in Nat /\ ExistsBijection(1 .. n, S)
  BY FS_CardinalityType
<1>2. \E f \in [1 .. n -> S] : IsInjective(f)
  BY <1>1, Fun_BijectionProperties DEF ExistsBijection, IsInjective
<1>3. s \in [1 .. n -> S] /\ IsInjective(s)
  BY <1>2 DEF SetToSeq
<1>4. s \in Seq(S) /\ Len(s) = n
  <2> HIDE DEF s, n
  <2>1. s \in Seq(S)
    BY <1>1, <1>3, SeqDef
  <2>2. DOMAIN s = 1 .. n /\ DOMAIN s = 1 .. Len(s) /\ Len(s) \in Nat
    BY <1>3, <2>1, LenProperties
  <2>3. /\ n \in 1 .. n <=> n \in 1 .. Len(s)
        /\ Len(s) \in 1 .. n <=> Len(s) \in 1 .. Len(s)
    BY <2>2
  <2>4. Len(s) = n
    BY <1>1, <2>2, <2>3
  <2> QED BY <2>1, <2>4
<1>5. s \in Injection(1 .. n, S)
  BY <1>3, Fun_IsInj DEF IsInjective
<1>6. IsFiniteSet(1 .. n) /\ Cardinality(1 .. n) = n
  BY <1>1, FS_Interval
<1>7. s \in Surjection(1 .. n, S)
  BY <1>5, <1>6, FS_Injection
<1>8. \A x \in S : \E i \in 1 .. n : s[i] = x
  <2> HIDE DEF s, n
  <2> QED BY <1>7 DEF Surjection
<1> QED BY <1>3, <1>4, <1>8 DEF IsInjective

LEMMA FinitePlays == ASSUME NEW S \in SUBSET Plays PROVE IsFiniteSet(S)
  BY RecordingConstants, FS_Subset

\* The rows of a trace stay where they are when a batch is appended.
LEMMA Joined ==
  ASSUME NEW tr \in Seq(TraceRows), NEW rows \in Seq(TraceRows)
  PROVE  /\ tr \o rows \in Seq(TraceRows)
         /\ Len(tr) \in Nat /\ DOMAIN tr = 1 .. Len(tr) /\ DOMAIN rows \subseteq Nat
         /\ \A i \in DOMAIN tr : i \in DOMAIN (tr \o rows) /\ (tr \o rows)[i] = tr[i]
         /\ \A j \in DOMAIN rows : /\ Len(tr) + j \in DOMAIN (tr \o rows)
                                   /\ (tr \o rows)[Len(tr) + j] = rows[j]
                                   /\ \A i \in DOMAIN tr : i < Len(tr) + j
         /\ \A k \in DOMAIN (tr \o rows) :
              k \in DOMAIN tr \/ \E j \in DOMAIN rows : k = Len(tr) + j
<1> DEFINE w == tr \o rows
           N == Len(tr)
           M == Len(rows)
<1>1. /\ w \in Seq(TraceRows) /\ Len(w) = N + M
      /\ \A i \in 1 .. N + M : w[i] = IF i <= N THEN tr[i] ELSE rows[i - N]
  BY ConcatProperties
<1>2. /\ N \in Nat /\ M \in Nat /\ DOMAIN tr = 1 .. N /\ DOMAIN rows = 1 .. M
      /\ DOMAIN w = 1 .. N + M
  BY <1>1, LenProperties
<1> HIDE DEF w, N, M
<1>3. \A i \in DOMAIN tr : i \in DOMAIN w /\ w[i] = tr[i]
  BY <1>1, <1>2
<1>4. \A j \in DOMAIN rows : /\ N + j \in DOMAIN w /\ w[N + j] = rows[j]
                             /\ \A i \in DOMAIN tr : i < N + j
  <2> SUFFICES ASSUME NEW j \in 1 .. M
               PROVE  /\ N + j \in 1 .. N + M /\ w[N + j] = rows[j]
                      /\ \A i \in 1 .. N : i < N + j
    BY <1>2
  <2>1. N + j \in 1 .. N + M /\ ~(N + j <= N) /\ (N + j) - N = j
    BY <1>2
  <2> QED BY <1>1, <1>2, <2>1
<1>5. \A k \in DOMAIN w : k \in DOMAIN tr \/ \E j \in DOMAIN rows : k = N + j
  <2> SUFFICES ASSUME NEW k \in 1 .. N + M, k \notin 1 .. N
               PROVE  \E j \in 1 .. M : k = N + j
    BY <1>2
  <2>1. k - N \in 1 .. M /\ k = N + (k - N)
    BY <1>2
  <2> QED BY <2>1
<1> QED BY <1>1, <1>2, <1>3, <1>4, <1>5 DEF w, N, M

\* The rows of an input in an extended trace.
LEMMA JoinedAt ==
  ASSUME NEW tr \in Seq(TraceRows), NEW rows \in Seq(TraceRows), NEW a, NEW K
  PROVE  /\ At(tr, a, K) \subseteq At(tr \o rows, a, K)
         /\ \A k \in At(tr \o rows, a, K) :
              k \in At(tr, a, K) \/ \E j \in At(rows, a, K) : k = Len(tr) + j
         /\ \A j \in At(rows, a, K) : Len(tr) + j \in At(tr \o rows, a, K)
         /\ At(tr \o rows, a, K) = {} <=> At(tr, a, K) = {} /\ At(rows, a, K) = {}
<1>1. At(tr, a, K) \subseteq At(tr \o rows, a, K)
  BY Joined DEF At
<1>2. \A k \in At(tr \o rows, a, K) :
        k \in At(tr, a, K) \/ \E j \in At(rows, a, K) : k = Len(tr) + j
  BY Joined DEF At
<1>3. \A j \in At(rows, a, K) : Len(tr) + j \in At(tr \o rows, a, K)
  BY Joined DEF At
<1> QED BY <1>1, <1>2, <1>3

\* A proof stays valid: its rows are all in the trace already.
LEMMA ProofStays ==
  ASSUME NEW tr \in Seq(TraceRows), NEW rows \in Seq(TraceRows), NEW i \in DOMAIN tr,
         ProofValid(tr, i), At(rows, tr[i].act, {"started"}) = {}
  PROVE  ProofValid(tr \o rows, i)
<1> DEFINE w == tr \o rows
           a == tr[i].act
<1>1. /\ w[i] = tr[i] /\ i \in Nat
      /\ \A K : At(tr, a, K) \subseteq At(w, a, K)
      /\ \A j \in DOMAIN tr : w[j] = tr[j] /\ j \in Nat
  BY Joined, JoinedAt
<1>2. At(w, a, {"started"}) = At(tr, a, {"started"})
  <2>1. \A k \in At(w, a, {"started"}) : k \in At(tr, a, {"started"})
    BY JoinedAt
  <2> QED BY <1>1, <2>1
<1>3. \A s \in At(tr, a, {"started"}) : \A j \in s + 1 .. i - 1 : j \in DOMAIN tr
  BY Joined DEF At
<1>4. \A s \in At(tr, a, {"started"}), j \in At(w, a, {"boundary"}) :
        j \in At(tr, a, {"boundary"}) \/ j > s
  BY Joined, JoinedAt DEF At
<1>5. \A K : \A j \in At(tr, a, K) : w[j] = tr[j]
  BY <1>1 DEF At
<1>6. \A K : (\E j \in At(tr, a, K) : j < i) => \E j \in At(w, a, K) : j < i
  BY <1>1
<1> HIDE DEF w
<1>7. \A s \in At(tr, a, {"started"}) :
          \E b \in At(w, a, {"boundary"}) :
               /\ b < s /\ w[b].pre = tr[i].pre
               /\ \A j \in At(w, a, {"boundary"}) : j <= b \/ j > s
  BY <1>1, <1>4, <1>5 DEF ProofValid
<1>8. \A s \in At(tr, a, {"started"}) :
          ~\E j \in s + 1 .. i - 1 : w[j].kind = "started" /\ w[j].act # a
  BY <1>1, <1>3 DEF ProofValid
<1> DEFINE was(K) == \E j \in At(tr, a, K) : j < i
           is(K)  == \E j \in At(w, a, K) : j < i
           hand   == cast[a] = "task" /\ tr[i].cont /\ was({"continued"})
<1>9. /\ {tr[i].pre, tr[i].next} \subseteq SUBSET Plays /\ tr[i].pre # tr[i].next
      /\ NeedsCommit(a) => tr[i].commit \/ tr[i].cont
      /\ hand \/ was({"finished", "paused"})
      /\ tr[i].cont => hand \/ was({"paused"})
      /\ At(tr, a, {"started"}) # {}
  BY DEF ProofValid
<1>10. is({"continued"}) \/ ~was({"continued"})
  BY <1>6
<1>11. is({"finished", "paused"}) \/ ~was({"finished", "paused"})
  BY <1>6
<1>12. is({"paused"}) \/ ~was({"paused"})
  BY <1>6
<1> HIDE DEF was
<1> QED BY <1>1, <1>2, <1>7, <1>8, <1>9, <1>10, <1>11, <1>12 DEF ProofValid, w

\* A batch about inputs that were accepted, which starts none of them: what a
\* row says must be true of the tracker, and what the tracker gains be a row.
RowAdded(t, tr, rows, i, g) ==
  LET r == rows[i]
  IN /\ t.entry[r.act].held
     /\ r.kind \notin {"accepted", "started", "boundary"}
     /\ r.kind \in Dispositions => ~t.entry[r.act].disposed
     /\ r.kind = "cancelled_before" => ~HasStarted(t, r.act) /\ r.act \in g.over
     /\ r.kind \in {"cancelled_after", "aborted"} => HasStarted(t, r.act)
     /\ r.kind = "proved" =>
          /\ ProofValid(tr \o rows, Len(tr) + i)
          /\ r.next \subseteq g.seen /\ r.act \in r.next \ r.pre
          /\ \A b \in (r.next \ r.pre) \ {r.act} : ~HasStarted(t, b) /\ b \notin g.refused

EntryAdded(t, u, tr, rows, a) ==
  /\ u.entry[a].held = t.entry[a].held /\ u.entry[a].pre = t.entry[a].pre
  /\ u.entry[a].disposed <=> t.entry[a].disposed \/ Disposition(rows, a) # {}
  /\ \A i, j \in Disposition(rows, a) : i = j
  /\ u.entry[a].finished => t.entry[a].finished \/ At(rows, a, {"finished"}) # {}
  /\ u.entry[a].paused => t.entry[a].paused \/ At(rows, a, {"paused"}) # {}
  /\ u.entry[a].cont =>
       \/ t.entry[a].cont
       \/ /\ At(rows, a, {"continued"}) # {}
          /\ cast[a] = "task" \/ At(tr, a, {"paused"}) # {}
  /\ u.entry[a].commit => u.entry[a].finished

Adds(t, u, tr, rows, g) ==
  /\ u \in Trackers /\ rows \in Seq(TraceRows) /\ u.order = t.order
  /\ \A i \in DOMAIN rows : RowAdded(t, tr, rows, i, g)
  /\ \A a \in Plays : EntryAdded(t, u, tr, rows, a)

LEMMA NoRowsUnheld ==
  ASSUME NEW t, NEW tr \in Seq(TraceRows), NEW a \in Plays, NEW K,
         HeldRows(t, tr, a), ~t.entry[a].held
  PROVE  At(tr, a, K) = {}
  BY DEF At, HeldRows

LEMMA ExtendEntry ==
  ASSUME NEW t, NEW u, NEW tr, NEW rows, NEW g, NEW a \in Plays,
         Synced(t, tr, g), Adds(t, u, tr, rows, g)
  PROVE  /\ HeldRows(u, tr \o rows, a)
         /\ StartRows(u, tr \o rows, a)
         /\ BoundaryRows(u, tr \o rows, a)
         /\ EndRows(u, tr \o rows, a)
         /\ LifeRows(u, tr \o rows, a)
         /\ Begun(u, tr \o rows, a, g)
<1> DEFINE w == tr \o rows
           N == Len(tr)
<1>1. /\ tr \in Seq(TraceRows) /\ rows \in Seq(TraceRows) /\ u.order = t.order
      /\ HeldRows(t, tr, a) /\ StartRows(t, tr, a) /\ BoundaryRows(t, tr, a)
      /\ EndRows(t, tr, a) /\ LifeRows(t, tr, a) /\ Begun(t, tr, a, g)
      /\ EntryAdded(t, u, tr, rows, a)
      /\ \A i \in DOMAIN rows : RowAdded(t, tr, rows, i, g)
  BY DEF Synced, Adds
<1>2. /\ \A i \in DOMAIN tr : i \in DOMAIN w /\ w[i] = tr[i] /\ i \in Nat
      /\ \A j \in DOMAIN rows : /\ N + j \in DOMAIN w /\ w[N + j] = rows[j]
                                /\ N + j \in Nat
                                /\ \A i \in DOMAIN tr : i < N + j
      /\ \A k \in DOMAIN w : k \in DOMAIN tr \/ \E j \in DOMAIN rows : k = N + j
  BY <1>1, Joined
<1>3. \A K : /\ At(tr, a, K) \subseteq At(w, a, K)
             /\ At(w, a, K) = {} <=> At(tr, a, K) = {} /\ At(rows, a, K) = {}
             /\ \A k \in At(w, a, K) :
                  k \in At(tr, a, K) \/ \E j \in At(rows, a, K) : k = N + j
  BY <1>1, JoinedAt
<1>4. \A j \in DOMAIN rows :
        /\ t.entry[rows[j].act].held
        /\ rows[j].kind \notin {"accepted", "started", "boundary"}
        /\ rows[j].kind \in Dispositions => ~t.entry[rows[j].act].disposed
  BY <1>1 DEF RowAdded
<1>5. At(rows, a, {"started"}) = {} /\ At(rows, a, {"boundary"}) = {}
  BY <1>4 DEF At
<1>6. At(w, a, {"started"}) = At(tr, a, {"started"})
  <2>1. \A k \in At(w, a, {"started"}) : k \in At(tr, a, {"started"})
    BY <1>3, <1>5
  <2> QED BY <1>3, <2>1
<1>7. At(w, a, {"boundary"}) = At(tr, a, {"boundary"})
  <2>1. \A k \in At(w, a, {"boundary"}) : k \in At(tr, a, {"boundary"})
    BY <1>3, <1>5
  <2> QED BY <1>3, <2>1
<1>8. HasStarted(u, a) <=> HasStarted(t, a)
  BY <1>1 DEF HasStarted
<1> HIDE DEF w, N
<1>9. HeldRows(u, w, a)
  <2>1. CASE t.entry[a].held
    <3>1. PICK i \in At(tr, a, {"accepted"}) : \A j \in DOMAIN tr :
            tr[j].act = a => i <= j /\ (tr[j].kind = "accepted" => j = i)
      BY <1>1, <2>1 DEF HeldRows
    <3>2. i \in At(w, a, {"accepted"}) /\ i \in DOMAIN tr
      BY <1>3, <3>1 DEF At
    <3>3. \A j \in DOMAIN w : w[j].act = a => i <= j /\ (w[j].kind = "accepted" => j = i)
      <4> SUFFICES ASSUME NEW k \in DOMAIN w, w[k].act = a
                   PROVE  i <= k /\ (w[k].kind = "accepted" => k = i)
        OBVIOUS
      <4>1. CASE k \in DOMAIN tr
        BY <1>2, <3>1, <4>1
      <4>2. CASE \E j \in DOMAIN rows : k = N + j
        BY <1>2, <1>4, <3>2, <4>2
      <4> QED BY <1>2, <4>1, <4>2
    <3> QED BY <1>1, <2>1, <3>2, <3>3 DEF HeldRows, EntryAdded
  <2>2. CASE ~t.entry[a].held
    BY <1>1, <1>2, <1>4, <2>2 DEF HeldRows, EntryAdded
  <2> QED BY <2>1, <2>2
<1>10. StartRows(u, w, a)
  BY <1>1, <1>6, <1>8 DEF StartRows
<1>11. BoundaryRows(u, w, a)
  <2>1. \A i \in At(tr, a, {"boundary"}) : w[i] = tr[i]
    BY <1>2 DEF At
  <2> QED BY <1>1, <1>6, <1>7, <2>1 DEF BoundaryRows, EntryAdded
<1>12. EndRows(u, w, a)
  <2>1. u.entry[a].disposed <=> Disposition(w, a) # {}
    BY <1>1, <1>3 DEF EndRows, EntryAdded, Disposition
  <2>2. Disposition(rows, a) # {} => Disposition(tr, a) = {}
    BY <1>1, <1>4 DEF EndRows, Disposition, At
  <2>3. \A i, j \in Disposition(w, a) : i = j
    BY <1>1, <1>3, <2>2 DEF EndRows, EntryAdded, Disposition
  <2> QED BY <2>1, <2>3 DEF EndRows
<1>13. LifeRows(u, w, a)
  <2>1. \A K : At(tr, a, K) # {} \/ At(rows, a, K) # {} => At(w, a, K) # {}
    BY <1>3
  <2>2. u.entry[a].finished => At(w, a, {"finished"}) # {}
    BY <1>1, <2>1 DEF LifeRows, EntryAdded
  <2>3. u.entry[a].paused => At(w, a, {"paused"}) # {}
    BY <1>1, <2>1 DEF LifeRows, EntryAdded
  <2>4. u.entry[a].cont => /\ At(w, a, {"continued"}) # {}
                           /\ cast[a] = "task" \/ At(w, a, {"paused"}) # {}
    BY <1>1, <2>1 DEF LifeRows, EntryAdded
  <2> QED BY <1>1, <2>2, <2>3, <2>4 DEF LifeRows, EntryAdded
<1>14. Begun(u, w, a, g)
  BY <1>1, <1>7, <1>8 DEF Begun, EntryAdded
<1> QED BY <1>9, <1>10, <1>11, <1>12, <1>13, <1>14 DEF w

LEMMA Extend ==
  ASSUME NEW t, NEW u, NEW tr, NEW rows, NEW g,
         Synced(t, tr, g), Adds(t, u, tr, rows, g)
  PROVE  Synced(u, tr \o rows, g)
<1> DEFINE w == tr \o rows
           N == Len(tr)
<1>1. /\ tr \in Seq(TraceRows) /\ rows \in Seq(TraceRows) /\ u.order = t.order
      /\ u \in Trackers /\ g \in Moments /\ LastStart(t, tr)
      /\ \A i \in DOMAIN tr : RowValid(tr, i, g)
      /\ PureRows(tr, g)
      /\ \A i \in DOMAIN rows : RowAdded(t, tr, rows, i, g)
      /\ \A a \in Plays : StartRows(t, tr, a)
  BY DEF Synced, Adds
<1>2. /\ w \in Seq(TraceRows)
      /\ \A i \in DOMAIN tr : i \in DOMAIN w /\ w[i] = tr[i] /\ i \in Nat
      /\ \A j \in DOMAIN rows : N + j \in DOMAIN w /\ w[N + j] = rows[j]
      /\ \A k \in DOMAIN w : k \in DOMAIN tr \/ \E j \in DOMAIN rows : k = N + j
  BY <1>1, Joined
<1>3. /\ \A i \in DOMAIN tr : tr[i].act \in Plays
      /\ \A i \in DOMAIN rows : rows[i].act \in Plays /\ rows[i].kind # "started"
  <2>1. \A i \in DOMAIN tr : tr[i] \in TraceRows
    BY <1>1, LenProperties, ElementOfSeq
  <2>2. \A i \in DOMAIN rows : rows[i] \in TraceRows
    BY <1>1, LenProperties, ElementOfSeq
  <2> QED BY <1>1, <2>1, <2>2 DEF TraceRows, RowAdded
<1>4. \A a : At(rows, a, {"started"}) = {}
  BY <1>3 DEF At
<1>5. \A a : At(w, a, {"started"}) = {} <=> At(tr, a, {"started"}) = {}
  BY <1>1, <1>4, JoinedAt
<1>6. \A a \in Plays : HasStarted(t, a) <=> At(tr, a, {"started"}) # {}
  BY <1>1 DEF StartRows
<1>7. \A i \in DOMAIN tr : ProofValid(tr, i) => ProofValid(w, i)
  BY <1>1, <1>4, ProofStays
<1>8. LastStart(u, w)
  <2> SUFFICES ASSUME t.order # <<>>
               PROVE  \E s \in At(w, Last(t.order), {"started"}) :
                        \A j \in DOMAIN w : w[j].kind = "started" => j <= s
    BY <1>1 DEF LastStart
  <2>1. PICK s \in At(tr, Last(t.order), {"started"}) :
          \A j \in DOMAIN tr : tr[j].kind = "started" => j <= s
    BY <1>1 DEF LastStart
  <2>2. s \in At(w, Last(t.order), {"started"})
    BY <1>1, <2>1, JoinedAt
  <2>3. \A j \in DOMAIN w : w[j].kind = "started" => j <= s
    BY <1>2, <1>3, <2>1
  <2> QED BY <2>2, <2>3
<1> HIDE DEF w, N
<1>9. ASSUME NEW k \in DOMAIN w PROVE RowValid(w, k, g) /\ RowPure(w, k, g)
  <2>1. CASE k \in DOMAIN tr
    <3>1. w[k] = tr[k] /\ RowValid(tr, k, g) /\ RowPure(tr, k, g)
      BY <1>1, <1>2, <2>1 DEF PureRows
    <3> QED BY <1>5, <1>7, <2>1, <3>1 DEF RowValid, RowPure
  <2>2. ASSUME NEW j \in DOMAIN rows, k = N + j
        PROVE RowValid(w, k, g) /\ RowPure(w, k, g)
    <3>1. w[k] = rows[j] /\ RowAdded(t, tr, rows, j, g) /\ rows[j].act \in Plays
      BY <1>1, <1>2, <1>3, <2>2
    <3>2. RowValid(w, k, g)
      BY <1>5, <1>6, <2>2, <3>1 DEF RowValid, RowAdded, w, N
    <3>3. RowPure(w, k, g)
      <4>1. \A b \in g.seen : ~HasStarted(t, b) => At(w, b, {"started"}) = {}
        BY <1>1, <1>5, <1>6 DEF Moments
      <4> QED BY <3>1, <4>1 DEF RowPure, RowAdded
    <3> QED BY <3>2, <3>3
  <2> QED BY <1>2, <2>1, <2>2
<1>10. \A a \in Plays : /\ HeldRows(u, w, a) /\ StartRows(u, w, a)
                        /\ BoundaryRows(u, w, a) /\ EndRows(u, w, a)
                        /\ LifeRows(u, w, a) /\ Begun(u, w, a, g)
  BY ExtendEntry DEF w
<1>11. PureRows(w, g)
  BY <1>9 DEF PureRows
<1> QED BY <1>1, <1>2, <1>8, <1>9, <1>10, <1>11 DEF Synced, w

-----------------------------------------------------------------------------
(* The operations of the tracker.                                           *)

\* What disposing of inputs changes.
Settled(t, u) ==
  /\ u \in Trackers /\ u.order = t.order
  /\ \A a \in Plays :
       /\ u.entry[a].held = t.entry[a].held /\ u.entry[a].pre = t.entry[a].pre
       /\ u.entry[a].paused = t.entry[a].paused
       /\ u.entry[a].finished = t.entry[a].finished
       /\ u.entry[a].commit = t.entry[a].commit /\ u.entry[a].cont = t.entry[a].cont
       /\ t.entry[a].disposed => u.entry[a].disposed

\* What an operation has done: its batch keeps the trace in step with it.
Reaches(tr, m, g) == m.rows \in Seq(TraceRows) /\ Synced(m.t, tr \o m.rows, g)

LEMMA SettledOnce == ASSUME NEW t \in Trackers PROVE Settled(t, t)
  BY DEF Settled

LEMMA SettledTwice ==
  ASSUME NEW t, NEW u, NEW v, Settled(t, u), Settled(u, v)
  PROVE  Settled(t, v)
  BY DEF Settled

LEMMA SettledPending ==
  ASSUME NEW t, NEW u, NEW g, Settled(t, u), Pending(t, g)
  PROVE  Pending(u, g)
<1>1. \A a : HasStarted(u, a) <=> HasStarted(t, a)
  BY DEF HasStarted, Settled
<1> QED BY <1>1 DEF Pending, Alone, Settled

LEMMA DisposedFacts ==
  ASSUME NEW t \in Trackers, NEW S
  PROVE  /\ Settled(t, Disposed(t, S))
         /\ \A a \in Plays : Disposed(t, S).entry[a].disposed <=>
                               t.entry[a].disposed \/ a \in S
<1> DEFINE u == Disposed(t, S)
           e(a) == [t.entry[a] EXCEPT !.disposed = t.entry[a].disposed \/ a \in S]
<1>1. \A a \in Plays :
        /\ e(a) \in Entries
        /\ e(a).held = t.entry[a].held /\ e(a).pre = t.entry[a].pre
        /\ e(a).paused = t.entry[a].paused /\ e(a).finished = t.entry[a].finished
        /\ e(a).commit = t.entry[a].commit /\ e(a).cont = t.entry[a].cont
        /\ e(a).disposed <=> t.entry[a].disposed \/ a \in S
  <2> SUFFICES ASSUME NEW a \in Plays, NEW x \in Entries, x = t.entry[a]
               PROVE  LET y == [x EXCEPT !.disposed = x.disposed \/ a \in S]
                      IN /\ y \in Entries
                         /\ y.held = x.held /\ y.pre = x.pre
                         /\ y.paused = x.paused /\ y.finished = x.finished
                         /\ y.commit = x.commit /\ y.cont = x.cont
                         /\ y.disposed <=> x.disposed \/ a \in S
    BY DEF Trackers
  <2> QED BY DEF Entries
<1>2. u.order = t.order /\ u.entry = [a \in Plays |-> e(a)]
  BY DEF Disposed, Trackers
<1>3. u \in Trackers
  BY <1>1 DEF Disposed, Trackers
<1> HIDE DEF u, e
<1>4. \A a \in Plays : u.entry[a] = e(a)
  BY <1>2
<1> QED BY <1>1, <1>2, <1>3, <1>4 DEF Settled, u

LEMMA UnknownRows ==
  ASSUME NEW S \in SUBSET Plays
  PROVE  /\ Unknowns(S) \in Seq(TraceRows)
         /\ \A i \in DOMAIN Unknowns(S) :
              Unknowns(S)[i].act \in S /\ Unknowns(S)[i] = Row("unknown", Unknowns(S)[i].act)
         /\ \A i, j \in DOMAIN Unknowns(S) :
              Unknowns(S)[i].act = Unknowns(S)[j].act => i = j
         /\ \A x \in S : \E i \in DOMAIN Unknowns(S) : Unknowns(S)[i].act = x
<1> DEFINE q == SetToSeq(S)
           U == Unknowns(S)
<1>1. /\ q \in Seq(S)
      /\ \A i, j \in 1 .. Len(q) : q[i] = q[j] => i = j
      /\ \A x \in S : \E i \in 1 .. Len(q) : q[i] = x
  BY FinitePlays, Sequenced
<1>2. Len(q) \in Nat /\ \A i \in 1 .. Len(q) : q[i] \in S
  BY <1>1, LenProperties, ElementOfSeq
<1>3. U = [i \in 1 .. Len(q) |-> Row("unknown", q[i])]
  BY DEF Unknowns
<1>0. NoFrame \in Frames
  BY DEF Frames
<1>4. \A x \in Plays : Row("unknown", x) \in TraceRows /\ Row("unknown", x).act = x
  BY DEF Row, TraceRows, RowKinds, Dispositions, Frames
<1> HIDE DEF q, U
<1>5. U \in [1 .. Len(q) -> TraceRows]
  BY <1>2, <1>3, <1>4
<1>6. U \in Seq(TraceRows)
  BY <1>2, <1>5, SeqDef
<1>7. \A i \in 1 .. Len(q) : U[i].act = q[i] /\ U[i] = Row("unknown", q[i])
  BY <1>2, <1>3, <1>4
<1>8. DOMAIN U = 1 .. Len(q)
  BY <1>5
<1>9. \A i \in DOMAIN U : U[i].act \in S /\ U[i] = Row("unknown", U[i].act)
  BY <1>2, <1>7, <1>8
<1>10. \A i, j \in DOMAIN U : U[i].act = U[j].act => i = j
  BY <1>1, <1>7, <1>8
<1>11. \A x \in S : \E i \in DOMAIN U : U[i].act = x
  BY <1>1, <1>7, <1>8
<1> QED BY <1>6, <1>9, <1>10, <1>11 DEF U

LEMMA UnknownSync ==
  ASSUME NEW t, NEW tr, NEW g, Synced(t, tr, g), NEW S \in SUBSET Unresolved(t)
  PROVE  Reaches(tr, Unknown(t, S), g) /\ Settled(t, Unknown(t, S).t)
<1> DEFINE U == Unknowns(S)
           u == Disposed(t, S)
<1>1. /\ S \in SUBSET Plays /\ t \in Trackers
      /\ \A a \in S : t.entry[a].held /\ ~t.entry[a].disposed
  BY DEF Unresolved, Synced
<1>2. /\ U \in Seq(TraceRows)
      /\ \A i \in DOMAIN U : U[i].act \in S /\ U[i] = Row("unknown", U[i].act)
      /\ \A i, j \in DOMAIN U : U[i].act = U[j].act => i = j
      /\ \A x \in S : \E i \in DOMAIN U : U[i].act = x
  BY <1>1, UnknownRows
<1>3. /\ Settled(t, u)
      /\ \A a \in Plays : u.entry[a].disposed <=> t.entry[a].disposed \/ a \in S
  BY <1>1, DisposedFacts
<1>4. \A i \in DOMAIN U : U[i].kind = "unknown"
  BY <1>2 DEF Row
<1> HIDE DEF U, u
<1>5. \A a : Disposition(U, a) = {i \in DOMAIN U : U[i].act = a}
  BY <1>4 DEF Disposition, At, Dispositions
<1>6. \A a \in Plays : EntryAdded(t, u, tr, U, a)
  <2>1. \A a \in Plays : LifeRows(t, tr, a)
    BY DEF Synced
  <2>2. \A a \in Plays : a \in S <=> Disposition(U, a) # {}
    <3>1. \A a \in Plays : Disposition(U, a) # {} => a \in S
      BY <1>2, <1>5
    <3>2. ASSUME NEW a \in S PROVE Disposition(U, a) # {}
      <4>1. PICK i \in DOMAIN U : U[i].act = a
        BY <1>2
      <4>2. i \in Disposition(U, a)
        BY <1>5, <4>1
      <4> QED BY <4>2
    <3> QED BY <3>1, <3>2
  <2>3. \A a \in Plays : \A i, j \in Disposition(U, a) : i = j
    BY <1>2, <1>5
  <2> QED BY <1>3, <2>1, <2>2, <2>3 DEF EntryAdded, Settled, LifeRows
<1>7. \A i \in DOMAIN U : RowAdded(t, tr, U, i, g)
  BY <1>1, <1>2, <1>4 DEF RowAdded
<1>8. Synced(u, tr \o U, g)
  BY <1>2, <1>3, <1>6, <1>7, Extend DEF Adds, Settled
<1>9. Unknown(t, S).t = u /\ Unknown(t, S).rows = U
  BY DEF Unknown, Gives, u, U
<1> QED BY <1>2, <1>3, <1>8, <1>9 DEF Reaches

LEMMA NothingSync ==
  ASSUME NEW t, NEW tr, NEW g, Synced(t, tr, g)
  PROVE  Reaches(tr, Nothing(t), g) /\ Nothing(t).t = t
  BY ConcatEmptySeq, EmptySeq DEF Reaches, Nothing, Gives, Synced

LEMMA GivesReaches ==
  ASSUME NEW tr, NEW u, NEW rows \in Seq(TraceRows), NEW g, Synced(u, tr \o rows, g)
  PROVE  /\ Reaches(tr, Gives(u, rows), g)
         /\ Gives(u, rows).t = u /\ Gives(u, rows).rows = rows
<1> DEFINE m == Gives(u, rows)
<1>1. m.t = u /\ m.rows = rows
  BY DEF Gives
<1> HIDE DEF m
<1>2. Reaches(tr, m, g)
  BY <1>1 DEF Reaches
<1> QED BY <1>1, <1>2 DEF m

\* One operation after another, in one batch.
LEMMA ThenSync ==
  ASSUME NEW tr \in Seq(TraceRows), NEW g, NEW m, NEW n,
         m.rows \in Seq(TraceRows), Reaches(tr \o m.rows, n, g)
  PROVE  Reaches(tr, Gives(n.t, m.rows \o n.rows), g)
<1>1. n.rows \in Seq(TraceRows) /\ Synced(n.t, (tr \o m.rows) \o n.rows, g)
  BY DEF Reaches
<1>2. m.rows \o n.rows \in Seq(TraceRows)
  BY <1>1, ConcatProperties
<1>3. (tr \o m.rows) \o n.rows = tr \o (m.rows \o n.rows)
  <2>1. \A q, r, s \in Seq(TraceRows) : (q \o r) \o s = q \o (r \o s)
    BY ConcatAssociative
  <2>2. n.rows \in Seq(TraceRows)
    BY <1>1
  <2> QED BY <2>1, <2>2
<1>4. Synced(n.t, tr \o (m.rows \o n.rows), g)
  BY <1>1, <1>3
<1> QED BY <1>2, <1>4, GivesReaches

LEMMA OneRow ==
  ASSUME NEW r \in TraceRows
  PROVE  /\ <<r>> \in Seq(TraceRows) /\ DOMAIN <<r>> = {1} /\ <<r>>[1] = r
         /\ \A a, K : At(<<r>>, a, K) # {} <=> r.act = a /\ r.kind \in K
         /\ \A a, K : \A i, j \in At(<<r>>, a, K) : i = j
<1>1. <<r>> \in Seq(TraceRows) /\ DOMAIN <<r>> = {1} /\ <<r>>[1] = r
  OBVIOUS
<1>2. \A a, K : At(<<r>>, a, K) = {i \in {1} : r.act = a /\ r.kind \in K}
  BY <1>1 DEF At
<1> QED BY <1>1, <1>2

LEMMA ExtendOne ==
  ASSUME NEW t, NEW u \in Trackers, NEW tr, NEW g, NEW r \in TraceRows,
         Synced(t, tr, g), u.order = t.order, RowAdded(t, tr, <<r>>, 1, g),
         \A b \in Plays : EntryAdded(t, u, tr, <<r>>, b)
  PROVE  Reaches(tr, Gives(u, <<r>>), g) /\ Gives(u, <<r>>).t = u
<1> DEFINE rows == <<r>>
<1>1. rows \in Seq(TraceRows) /\ DOMAIN rows = {1}
  BY OneRow
<1> HIDE DEF rows
<1>2. \A i \in DOMAIN rows : RowAdded(t, tr, rows, i, g)
  BY <1>1 DEF rows
<1>3. \A b \in Plays : EntryAdded(t, u, tr, rows, b)
  BY DEF rows
<1>4. Adds(t, u, tr, rows, g)
  BY <1>1, <1>2, <1>3 DEF Adds
<1>5. Synced(u, tr \o rows, g)
  BY <1>4, Extend
<1> QED BY <1>1, <1>5, GivesReaches DEF rows

\* A row that says what the tracker knows is a valid proof.
LEMMA ProofAdded ==
  ASSUME NEW t, NEW tr, NEW g, Synced(t, tr, g), NEW a \in Plays, NEW r \in TraceRows,
         HasStarted(t, a), Last(t.order) = a, t.entry[a].pre # NoFrame,
         t.entry[a].finished \/ t.entry[a].paused \/ (cast[a] = "task" /\ t.entry[a].cont),
         NeedsCommit(a) => t.entry[a].commit \/ t.entry[a].cont,
         r.act = a, r.kind = "proved", r.pre = t.entry[a].pre, r.cont = t.entry[a].cont,
         r.commit = t.entry[a].commit, r.next \in SUBSET Plays, a \in r.next
  PROVE  ProofValid(tr \o <<r>>, Len(tr) + 1)
<1> DEFINE w == tr \o <<r>>
           N == Len(tr)
           is(K) == \E j \in At(w, a, K) : j < N + 1
<1>1. /\ tr \in Seq(TraceRows) /\ <<r>> \in Seq(TraceRows) /\ LastStart(t, tr)
      /\ StartRows(t, tr, a) /\ BoundaryRows(t, tr, a) /\ LifeRows(t, tr, a)
      /\ t.entry[a].pre \in Frames
  BY OneRow DEF Synced, Trackers, Entries
<1>2. /\ N \in Nat /\ DOMAIN tr = 1 .. N /\ w[N + 1] = r
      /\ \A i \in DOMAIN tr : w[i] = tr[i] /\ i < N + 1 /\ i \in Nat
  BY <1>1, OneRow, Joined
<1>3. /\ \A K : At(tr, a, K) \subseteq At(w, a, K)
      /\ \A K : "proved" \notin K => At(w, a, K) \subseteq At(tr, a, K)
  <2>1. \A K : "proved" \notin K => At(<<r>>, a, K) = {}
    BY OneRow
  <2>2. \A K : /\ At(tr, a, K) \subseteq At(w, a, K)
               /\ \A k \in At(w, a, K) : k \in At(tr, a, K)
                                      \/ \E j \in At(<<r>>, a, K) : k = N + j
    BY <1>1, JoinedAt
  <2> HIDE DEF w
  <2> QED BY <2>1, <2>2
<1>4. /\ At(w, a, {"started"}) = At(tr, a, {"started"})
      /\ At(w, a, {"boundary"}) = At(tr, a, {"boundary"})
  <2>1. "proved" \notin {"started"} /\ "proved" \notin {"boundary"}
    OBVIOUS
  <2> HIDE DEF w
  <2>2. ASSUME NEW K, "proved" \notin K PROVE At(w, a, K) = At(tr, a, K)
    <3>1. /\ \A k \in At(tr, a, K) : k \in At(w, a, K)
          /\ \A k \in At(w, a, K) : k \in At(tr, a, K)
      BY <1>3, <2>2
    <3> QED BY <3>1
  <2> QED BY <2>1, <2>2
<1> HIDE DEF w, N
<1>5. \A K : At(tr, a, K) # {} => is(K)
  BY <1>2, <1>3 DEF At
<1>6. {r.pre, r.next} \subseteq SUBSET Plays /\ r.pre # r.next
  BY <1>1 DEF BoundaryRows, Frames
<1>7. is({"finished", "paused"}) \/ (cast[a] = "task" /\ r.cont /\ is({"continued"}))
  <2>1. \A i \in At(tr, a, {"finished"}) \cup At(tr, a, {"paused"}) :
          i \in At(tr, a, {"finished", "paused"})
    BY DEF At
  <2>2. CASE t.entry[a].finished \/ t.entry[a].paused
    <3>1. At(tr, a, {"finished", "paused"}) # {}
      BY <1>1, <2>1, <2>2 DEF LifeRows
    <3> QED BY <1>5, <3>1
  <2>3. CASE cast[a] = "task" /\ t.entry[a].cont
    BY <1>1, <1>5, <2>3 DEF LifeRows
  <2> QED BY <2>2, <2>3
<1>8. r.cont => (cast[a] = "task" /\ r.cont /\ is({"continued"})) \/ is({"paused"})
  BY <1>1, <1>5 DEF LifeRows
<1>9. At(tr, a, {"started"}) # {}
  BY <1>1 DEF StartRows
<1>10. ASSUME NEW s \in At(tr, a, {"started"})
       PROVE ~\E j \in s + 1 .. (N + 1) - 1 : w[j].kind = "started" /\ w[j].act # a
  <2>1. t.order # <<>>
    BY DEF HasStarted, Contains
  <2>2. \A j \in DOMAIN tr : tr[j].kind = "started" => j <= s
    BY <1>1, <2>1 DEF LastStart, StartRows
  <2>3. s \in 1 .. N
    BY <1>2 DEF At
  <2> QED BY <1>2, <2>2, <2>3
<1>11. ASSUME NEW s \in At(tr, a, {"started"})
       PROVE \E b \in At(tr, a, {"boundary"}) :
               /\ b < s /\ w[b].pre = r.pre
               /\ \A j \in At(tr, a, {"boundary"}) : j <= b \/ j > s
  <2>1. PICK b \in At(tr, a, {"boundary"}) : TRUE
    BY <1>1 DEF BoundaryRows
  <2>2. b < s /\ tr[b].pre = r.pre /\ \A j \in At(tr, a, {"boundary"}) : j = b
    BY <1>1, <2>1 DEF BoundaryRows
  <2>3. w[b] = tr[b] /\ b \in Nat
    BY <1>2, <2>1 DEF At
  <2> QED BY <2>1, <2>2, <2>3
<1> HIDE DEF is
<1>12. ProofValid(w, N + 1)
  BY <1>2, <1>4, <1>6, <1>7, <1>8, <1>9, <1>10, <1>11 DEF ProofValid, is
<1> QED BY <1>12 DEF w, N

LEMMA StartedHeld ==
  ASSUME NEW t, NEW tr, NEW g, Synced(t, tr, g), NEW a \in Plays,
         HasStarted(t, a) \/ t.entry[a].finished \/ t.entry[a].paused
  PROVE  t.entry[a].held
  BY DEF Synced, HeldRows, StartRows, LifeRows, At

LEMMA SettleSync ==
  ASSUME NEW t, NEW tr, NEW g, Synced(t, tr, g), Pending(t, g), NEW a \in Plays,
         HasStarted(t, a), ~t.entry[a].disposed,
         t.entry[a].finished \/ t.entry[a].paused \/ (cast[a] = "task" /\ t.entry[a].cont),
         NEW frame, frame = NoFrame \/ (frame \subseteq g.seen /\ a \in frame),
         NEW handoff \in BOOLEAN
  PROVE  /\ Reaches(tr, Settle(t, a, frame, handoff), g)
         /\ Settled(t, Settle(t, a, frame, handoff).t)
<1> DEFINE e == t.entry[a]
           bare == NeedsCommit(a) /\ ~e.commit /\ ~e.cont
           r == [kind |-> "proved", act |-> a, pre |-> e.pre,
                 next |-> frame, commit |-> e.commit, cont |-> e.cont]
           u == Disposed(t, {a})
<1>1. t \in Trackers /\ tr \in Seq(TraceRows) /\ g \in Moments /\ e \in Entries
  BY DEF Synced, Trackers
<1>2. a \in Unresolved(t)
  BY StartedHeld DEF Unresolved
<1>3. Reaches(tr, Unknown(t, {a}), g) /\ Settled(t, Unknown(t, {a}).t)
  <2>1. {a} \in SUBSET Unresolved(t)
    BY <1>2
  <2> QED BY <2>1, UnknownSync
<1>4. Reaches(tr, Nothing(t), g) /\ Settled(t, Nothing(t).t)
  BY <1>1, NothingSync, SettledOnce
<1>5. ASSUME Last(t.order) = a, ~bare, frame # NoFrame, e.pre # NoFrame
      PROVE  Reaches(tr, Gives(u, <<r>>), g) /\ Settled(t, Gives(u, <<r>>).t)
  <2>1. r \in TraceRows
    <3>1. frame \in Frames
      BY <1>1, <1>5 DEF Frames, Moments
    <3>2. "proved" \in RowKinds
      BY DEF RowKinds, Dispositions
    <3> QED BY <1>1, <3>1, <3>2 DEF TraceRows, Entries
  <2>2. /\ r.kind = "proved" /\ r.act = a /\ r.pre = e.pre /\ r.next = frame
        /\ r.commit = e.commit /\ r.cont = e.cont
    OBVIOUS
  <2>3. /\ Settled(t, u)
        /\ \A b \in Plays : u.entry[b].disposed <=> t.entry[b].disposed \/ b = a
    BY <1>1, DisposedFacts
  <2> HIDE DEF r, u
  <2>4. frame \in SUBSET Plays
    BY <1>1, <1>5 DEF Moments
  <2>5. ProofValid(tr \o <<r>>, Len(tr) + 1)
    BY <1>5, <2>1, <2>2, <2>4, ProofAdded
  <2>6. e.held
    BY StartedHeld
  <2>7. a \in frame \ e.pre
    BY <1>5 DEF Synced, BoundaryRows
  <2>8. \A b \in (frame \ e.pre) \ {a} : ~HasStarted(t, b) /\ b \notin g.refused
    BY <1>5, <2>6 DEF Pending, Alone
  <2>9. RowAdded(t, tr, <<r>>, 1, g)
    BY <1>5, <2>1, <2>2, <2>5, <2>6, <2>7, <2>8, OneRow DEF RowAdded
  <2>10. \A b \in Plays : EntryAdded(t, u, tr, <<r>>, b)
    <3>1. \A b \in Plays : LifeRows(t, tr, b)
      BY DEF Synced
    <3>2. \A b \in Plays : Disposition(<<r>>, b) # {} <=> b = a
      BY <2>1, <2>2, OneRow DEF Disposition, Dispositions
    <3>3. \A b \in Plays : \A i, j \in Disposition(<<r>>, b) : i = j
      BY <2>1, OneRow DEF Disposition
    <3> QED BY <2>3, <3>1, <3>2, <3>3 DEF EntryAdded, Settled, LifeRows
  <2>11. u \in Trackers /\ u.order = t.order
    BY <2>3 DEF Settled
  <2>12. Reaches(tr, Gives(u, <<r>>), g) /\ Gives(u, <<r>>).t = u
    BY <2>1, <2>9, <2>10, <2>11, ExtendOne
  <2> QED BY <2>3, <2>12
<1>6. Settle(t, a, frame, handoff) \in {Unknown(t, {a}), Nothing(t)}
      \/ /\ Last(t.order) = a /\ ~bare /\ frame # NoFrame /\ e.pre # NoFrame
         /\ Settle(t, a, frame, handoff) = Gives(u, <<r>>)
  <2> HIDE DEF u
  <2> QED BY DEF Settle, u
<1> HIDE DEF u, r
<1> QED BY <1>3, <1>4, <1>5, <1>6

\* What an operation may do to the tracker, short of a start.
Later(t, u) ==
  /\ u \in Trackers /\ u.order = t.order
  /\ \A a \in Plays :
       /\ u.entry[a].held = t.entry[a].held /\ u.entry[a].pre = t.entry[a].pre
       /\ t.entry[a].disposed => u.entry[a].disposed
       /\ cast[a] = "game" /\ u.entry[a].finished =>
            \/ u.entry[a].disposed \/ u.entry[a].commit
            \/ t.entry[a].finished /\ (t.entry[a].commit => u.entry[a].commit)

LEMMA LaterStarted ==
  ASSUME NEW t, NEW u, Later(t, u)
  PROVE  \A a : HasStarted(u, a) <=> HasStarted(t, a)
  BY DEF HasStarted, Later

LEMMA LaterPending ==
  ASSUME NEW t, NEW u, NEW g, Later(t, u), Pending(t, g)
  PROVE  Pending(u, g)
<1>1. u.order = t.order
  BY DEF Later
<1> QED BY <1>1, LaterStarted DEF Pending, Alone, Later

LEMMA SettledLater == ASSUME NEW t, NEW u, Settled(t, u) PROVE Later(t, u)
  BY DEF Settled, Later

LEMMA LaterTwice ==
  ASSUME NEW t, NEW u, NEW v, Later(t, u), Later(u, v)
  PROVE  Later(t, v)
<1>1. v \in Trackers /\ v.order = t.order
  BY DEF Later
<1>2. ASSUME NEW a \in Plays
      PROVE  /\ v.entry[a].held = t.entry[a].held /\ v.entry[a].pre = t.entry[a].pre
             /\ t.entry[a].disposed => v.entry[a].disposed
             /\ cast[a] = "game" /\ v.entry[a].finished =>
                  \/ v.entry[a].disposed \/ v.entry[a].commit
                  \/ t.entry[a].finished /\ (t.entry[a].commit => v.entry[a].commit)
  BY DEF Later
<1> QED BY <1>1, <1>2 DEF Later

\* An operation that notes something of one accepted input.
Marks == {"paused", "resumed", "ready", "finished", "commit", "continued"}
Marked(t, u, tr, kind, a) ==
  /\ u \in Trackers /\ u.order = t.order
  /\ \A b \in Plays \ {a} : u.entry[b] = t.entry[b]
  /\ u.entry[a].held = t.entry[a].held /\ u.entry[a].pre = t.entry[a].pre
  /\ u.entry[a].disposed = t.entry[a].disposed
  /\ u.entry[a].finished => t.entry[a].finished \/ kind = "finished"
  /\ u.entry[a].paused => t.entry[a].paused \/ kind = "paused"
  /\ u.entry[a].cont =>
       \/ t.entry[a].cont
       \/ kind = "continued" /\ (cast[a] = "task" \/ At(tr, a, {"paused"}) # {})
  /\ u.entry[a].commit => u.entry[a].finished

LEMMA RowFacts ==
  ASSUME NEW kind \in RowKinds, NEW a \in Plays
  PROVE  /\ Row(kind, a) \in TraceRows
         /\ Row(kind, a).kind = kind /\ Row(kind, a).act = a
         /\ Row(kind, a).pre = NoFrame
<1>1. NoFrame \in Frames
  BY DEF Frames
<1> QED BY <1>1 DEF Row, TraceRows

LEMMA MarkSync ==
  ASSUME NEW t, NEW u, NEW tr, NEW g, NEW a \in Plays, NEW kind \in Marks,
         Synced(t, tr, g), t.entry[a].held, Marked(t, u, tr, kind, a),
         NEW r, r = Row(kind, a)
  PROVE  Reaches(tr, Gives(u, <<r>>), g) /\ Gives(u, <<r>>).t = u
<1>1. r \in TraceRows /\ r.kind = kind /\ r.act = a
  BY RowFacts DEF Marks, RowKinds
<1>2. kind \notin Dispositions /\ kind \notin {"accepted", "started", "boundary"}
  BY DEF Marks, Dispositions
<1>3. <<r>>[1] = r
  BY <1>1, OneRow
<1>4. RowAdded(t, tr, <<r>>, 1, g)
  BY <1>1, <1>2, <1>3 DEF RowAdded, Dispositions
<1>5. ASSUME NEW b \in Plays PROVE EntryAdded(t, u, tr, <<r>>, b)
  <2>1. LifeRows(t, tr, b)
    BY DEF Synced
  <2>2. Disposition(<<r>>, b) = {}
    BY <1>1, <1>2, OneRow DEF Disposition
  <2>3. \A K : At(<<r>>, a, K) # {} <=> kind \in K
    BY <1>1, OneRow
  <2>4. CASE b = a
    BY <2>1, <2>2, <2>3, <2>4 DEF EntryAdded, Marked
  <2>5. CASE b # a
    BY <2>1, <2>2, <2>5 DEF EntryAdded, Marked, LifeRows
  <2> QED BY <2>4, <2>5
<1>6. u \in Trackers /\ u.order = t.order
  BY DEF Marked
<1>7. Reaches(tr, Gives(u, <<r>>), g) /\ Gives(u, <<r>>).t = u
  BY <1>1, <1>4, <1>5, <1>6, ExtendOne
<1> QED BY <1>7

\* A change of one entry.
LEMMA EntryChanged ==
  ASSUME NEW t \in Trackers, NEW a \in Plays, NEW e \in Entries
  PROVE  /\ [t EXCEPT !.entry[a] = e] \in Trackers
         /\ [t EXCEPT !.entry[a] = e].order = t.order
         /\ [t EXCEPT !.entry[a] = e].entry[a] = e
         /\ \A b \in Plays \ {a} : [t EXCEPT !.entry[a] = e].entry[b] = t.entry[b]
  BY DEF Trackers

LEMMA FieldChanged ==
  ASSUME NEW t \in Trackers, NEW a \in Plays
  PROVE  /\ \A f : [t EXCEPT !.entry[a].pre = f] =
                     [t EXCEPT !.entry[a] = [t.entry[a] EXCEPT !.pre = f]]
         /\ \A v : [t EXCEPT !.entry[a].paused = v] =
                     [t EXCEPT !.entry[a] = [t.entry[a] EXCEPT !.paused = v]]
         /\ [t EXCEPT !.entry[a].finished = TRUE] =
              [t EXCEPT !.entry[a] = [t.entry[a] EXCEPT !.finished = TRUE]]
         /\ [t EXCEPT !.entry[a].commit = TRUE] =
              [t EXCEPT !.entry[a] = [t.entry[a] EXCEPT !.commit = TRUE]]
         /\ [t EXCEPT !.entry[a].cont = TRUE] =
              [t EXCEPT !.entry[a] = [t.entry[a] EXCEPT !.cont = TRUE]]
  BY DEF Trackers

LEMMA PausedSync ==
  ASSUME NEW t, NEW tr, NEW g, Synced(t, tr, g), NEW a \in Plays, t.entry[a].held
  PROVE  /\ Reaches(tr, Paused(t, a), g) /\ Later(t, Paused(t, a).t)
         /\ At(tr \o Paused(t, a).rows, a, {"paused"}) # {}
<1> DEFINE e == [t.entry[a] EXCEPT !.paused = TRUE]
           u == [t EXCEPT !.entry[a] = e]
           r == Row("paused", a)
<1>1. t \in Trackers /\ t.entry[a] \in Entries /\ LifeRows(t, tr, a) /\ tr \in Seq(TraceRows)
  BY DEF Synced, Trackers
<1>2. /\ e \in Entries /\ e.held = t.entry[a].held /\ e.pre = t.entry[a].pre
      /\ e.disposed = t.entry[a].disposed /\ e.finished = t.entry[a].finished
      /\ e.cont = t.entry[a].cont /\ e.commit = t.entry[a].commit
  BY <1>1 DEF Entries
<1>3. Paused(t, a) = Gives(u, <<r>>)
  BY <1>1, FieldChanged DEF Paused
<1> HIDE DEF e
<1>4. /\ u \in Trackers /\ u.order = t.order /\ u.entry[a] = e
      /\ \A b \in Plays \ {a} : u.entry[b] = t.entry[b]
  BY <1>1, <1>2, EntryChanged
<1> HIDE DEF u
<1>5. Marked(t, u, tr, "paused", a)
  BY <1>1, <1>2, <1>4 DEF Marked, LifeRows
<1>0. r = Row("paused", a) /\ "paused" \in Marks
  BY DEF Marks
<1> HIDE DEF r
<1>6. Reaches(tr, Gives(u, <<r>>), g) /\ Gives(u, <<r>>).t = u
  BY <1>0, <1>5, MarkSync
<1>7. Later(t, u)
  BY <1>2, <1>4 DEF Later
<1>8. At(tr \o <<r>>, a, {"paused"}) # {}
  <2>0. "paused" \in RowKinds
    BY DEF RowKinds
  <2>1. r \in TraceRows /\ r.act = a /\ r.kind = "paused"
    BY <1>0, <2>0, RowFacts
  <2> DEFINE rows == <<r>>
  <2>2. rows \in Seq(TraceRows) /\ At(rows, a, {"paused"}) # {}
    BY <2>1, OneRow
  <2> HIDE DEF rows
  <2>3. At(tr \o rows, a, {"paused"}) # {}
    BY <1>1, <2>2, JoinedAt
  <2> QED BY <2>3 DEF rows
<1>9. Gives(u, <<r>>).rows = <<r>>
  BY DEF Gives
<1> QED BY <1>3, <1>6, <1>7, <1>8, <1>9

LEMMA ReadySync ==
  ASSUME NEW t, NEW tr, NEW g, Synced(t, tr, g), NEW a \in Plays, t.entry[a].held
  PROVE  /\ Reaches(tr, Gives(t, <<Row("ready", a)>>), g)
         /\ Gives(t, <<Row("ready", a)>>).t = t /\ Later(t, t)
<1>1. t \in Trackers /\ LifeRows(t, tr, a)
  BY DEF Synced
<1>2. Marked(t, t, tr, "ready", a)
  BY <1>1 DEF Marked, LifeRows
<1>3. Later(t, t)
  BY <1>1, SettledOnce, SettledLater
<1> DEFINE r == Row("ready", a)
<1>4. r = Row("ready", a) /\ "ready" \in Marks
  BY DEF Marks
<1> HIDE DEF r
<1>5. Reaches(tr, Gives(t, <<r>>), g) /\ Gives(t, <<r>>).t = t
  BY <1>2, <1>4, MarkSync
<1> QED BY <1>3, <1>5 DEF r

LEMMA ResumedSync ==
  ASSUME NEW t, NEW tr, NEW g, Synced(t, tr, g), NEW a \in Plays, t.entry[a].held
  PROVE  Reaches(tr, Resumed(t, a), g) /\ Later(t, Resumed(t, a).t)
<1> DEFINE e == [t.entry[a] EXCEPT !.paused = FALSE]
           u == [t EXCEPT !.entry[a] = e]
           r == Row("resumed", a)
<1>1. t \in Trackers /\ t.entry[a] \in Entries /\ LifeRows(t, tr, a)
  BY DEF Synced, Trackers
<1>2. /\ e \in Entries /\ e.held = t.entry[a].held /\ e.pre = t.entry[a].pre
      /\ e.disposed = t.entry[a].disposed /\ e.finished = t.entry[a].finished
      /\ e.cont = t.entry[a].cont /\ e.commit = t.entry[a].commit /\ ~e.paused
  BY <1>1 DEF Entries
<1>3. Resumed(t, a) = Gives(u, <<r>>)
  BY <1>1, FieldChanged DEF Resumed
<1> HIDE DEF e
<1>4. /\ u \in Trackers /\ u.order = t.order /\ u.entry[a] = e
      /\ \A b \in Plays \ {a} : u.entry[b] = t.entry[b]
  BY <1>1, <1>2, EntryChanged
<1> HIDE DEF u
<1>5. Marked(t, u, tr, "resumed", a)
  BY <1>1, <1>2, <1>4 DEF Marked, LifeRows
<1>0. r = Row("resumed", a) /\ "resumed" \in Marks
  BY DEF Marks
<1> HIDE DEF r
<1>6. Reaches(tr, Gives(u, <<r>>), g) /\ Gives(u, <<r>>).t = u
  BY <1>0, <1>5, MarkSync
<1>7. Later(t, u)
  BY <1>2, <1>4 DEF Later
<1> QED BY <1>3, <1>6, <1>7

\* A continuation of an input that paused, or of one that has a task.
LEMMA ContinuationSync ==
  ASSUME NEW t, NEW tr, NEW g, Synced(t, tr, g), NEW a \in Plays, t.entry[a].held,
         \/ t.entry[a].disposed \/ cast[a] = "task" \/ At(tr, a, {"paused"}) # {}
  PROVE  /\ Reaches(tr, Continuation(t, a), g) /\ Later(t, Continuation(t, a).t)
         /\ LET e == Continuation(t, a).t.entry[a]
            IN /\ e.disposed = t.entry[a].disposed /\ e.finished = t.entry[a].finished
               /\ e.paused = t.entry[a].paused
               /\ ~e.disposed => e.cont
<1> DEFINE e == [t.entry[a] EXCEPT !.cont = TRUE]
           u == [t EXCEPT !.entry[a] = e]
           r == Row("continued", a)
<1>1. t \in Trackers /\ t.entry[a] \in Entries /\ LifeRows(t, tr, a)
  BY DEF Synced, Trackers
<1>2. /\ e \in Entries /\ e.held = t.entry[a].held /\ e.pre = t.entry[a].pre
      /\ e.disposed = t.entry[a].disposed /\ e.finished = t.entry[a].finished
      /\ e.paused = t.entry[a].paused /\ e.commit = t.entry[a].commit /\ e.cont
  BY <1>1 DEF Entries
<1>3. CASE t.entry[a].disposed
  <2>1. Continuation(t, a) = Nothing(t)
    BY <1>3 DEF Continuation
  <2>2. Reaches(tr, Nothing(t), g) /\ Nothing(t).t = t
    BY NothingSync
  <2>3. Later(t, t)
    BY <1>1, SettledOnce, SettledLater
  <2> QED BY <1>3, <2>1, <2>2, <2>3
<1>4. CASE ~t.entry[a].disposed
  <2>1. Continuation(t, a) = Gives(u, <<r>>)
    BY <1>1, <1>4, FieldChanged DEF Continuation
  <2> HIDE DEF e
  <2>2. /\ u \in Trackers /\ u.order = t.order /\ u.entry[a] = e
        /\ \A b \in Plays \ {a} : u.entry[b] = t.entry[b]
    BY <1>1, <1>2, EntryChanged
  <2> HIDE DEF u
  <2>3. Marked(t, u, tr, "continued", a)
    BY <1>1, <1>2, <1>4, <2>2 DEF Marked, LifeRows
  <2>6. r = Row("continued", a) /\ "continued" \in Marks
    BY DEF Marks
  <2> HIDE DEF r
  <2>4. Reaches(tr, Gives(u, <<r>>), g) /\ Gives(u, <<r>>).t = u
    BY <2>3, <2>6, MarkSync
  <2>5. Later(t, u)
    BY <1>2, <2>2 DEF Later
  <2> QED BY <1>2, <2>1, <2>2, <2>4, <2>5
<1> QED BY <1>3, <1>4

\* An end without a successor.
LEMMA EndsSync ==
  ASSUME NEW t, NEW tr, NEW g, Synced(t, tr, g), NEW a \in Plays, t.entry[a].held,
         NEW kind \in {"unknown", "cancelled_before", "cancelled_after", "aborted"},
         kind = "cancelled_before" => ~HasStarted(t, a) /\ a \in g.over,
         kind \in {"cancelled_after", "aborted"} => t.entry[a].disposed \/ HasStarted(t, a)
  PROVE  /\ Reaches(tr, Ends(t, a, kind), g) /\ Later(t, Ends(t, a, kind).t)
         /\ Ends(t, a, kind).t.entry[a].disposed
<1> DEFINE u == Disposed(t, {a})
           r == Row(kind, a)
<1>1. t \in Trackers /\ \A b \in Plays : LifeRows(t, tr, b)
  BY DEF Synced
<1>2. CASE t.entry[a].disposed
  <2>1. Ends(t, a, kind) = Nothing(t)
    BY <1>2 DEF Ends
  <2>2. Reaches(tr, Nothing(t), g) /\ Nothing(t).t = t
    BY NothingSync
  <2>3. Later(t, t)
    BY <1>1, SettledOnce, SettledLater
  <2> QED BY <1>2, <2>1, <2>2, <2>3
<1>3. CASE ~t.entry[a].disposed
  <2>1. Ends(t, a, kind) = Gives(u, <<r>>)
    BY <1>3 DEF Ends
  <2>2. /\ Settled(t, u)
        /\ \A b \in Plays : u.entry[b].disposed <=> t.entry[b].disposed \/ b = a
    BY <1>1, DisposedFacts
  <2>3. r \in TraceRows /\ r.act = a /\ r.kind = kind /\ kind \in Dispositions
    BY RowFacts DEF RowKinds, Dispositions
  <2> HIDE DEF u, r
  <2>4. RowAdded(t, tr, <<r>>, 1, g)
    BY <1>3, <2>3, OneRow DEF RowAdded
  <2>5. \A b \in Plays : EntryAdded(t, u, tr, <<r>>, b)
    <3>1. \A b \in Plays : Disposition(<<r>>, b) # {} <=> b = a
      BY <2>3, OneRow DEF Disposition
    <3>2. \A b \in Plays : \A i, j \in Disposition(<<r>>, b) : i = j
      BY <2>3, OneRow DEF Disposition
    <3> QED BY <1>1, <2>2, <3>1, <3>2 DEF EntryAdded, Settled, LifeRows
  <2>6. u \in Trackers /\ u.order = t.order
    BY <2>2 DEF Settled
  <2>7. Reaches(tr, Gives(u, <<r>>), g) /\ Gives(u, <<r>>).t = u
    BY <2>3, <2>4, <2>5, <2>6, ExtendOne
  <2> QED BY <2>1, <2>2, <2>7, SettledLater
<1> QED BY <1>2, <1>3

\* The place of an input in the order of execution.
LEMMA PlaceFacts ==
  ASSUME NEW t \in Trackers, NEW a, HasStarted(t, a)
  PROVE  Place(t, a) \in 1 .. Len(t.order) /\ Len(t.order) \in Nat
<1>1. Len(t.order) \in Nat /\ DOMAIN t.order = 1 .. Len(t.order)
  BY LenProperties DEF Trackers
<1>2. \E i \in DOMAIN t.order : t.order[i] = a
  BY <1>1 DEF HasStarted, Contains
<1> QED BY <1>1, <1>2 DEF Place

LEMMA WaitingFacts ==
  ASSUME NEW t, NEW tr, NEW g, Synced(t, tr, g)
  PROVE  /\ Waiting(t) \subseteq Unresolved(t)
         /\ \A a \in Waiting(t) :
              /\ a \in Plays /\ HasStarted(t, a) /\ ~t.entry[a].disposed
              /\ t.entry[a].finished \/ t.entry[a].paused
         /\ Waiting(t) # {} => LastWaiting(t) \in Waiting(t)
<1>1. \A a \in Waiting(t) : /\ a \in Plays /\ HasStarted(t, a) /\ ~t.entry[a].disposed
                            /\ t.entry[a].finished \/ t.entry[a].paused
  BY DEF Waiting, Waits
<1>2. Waiting(t) \subseteq Unresolved(t)
  BY <1>1, StartedHeld DEF Unresolved
<1>3. ASSUME Waiting(t) # {} PROVE LastWaiting(t) \in Waiting(t)
  <2> DEFINE P == {Place(t, b) : b \in Waiting(t)}
             n == Len(t.order)
  <2>1. t \in Trackers
    BY DEF Synced
  <2>2. n \in Nat /\ P \in SUBSET (1 .. n) /\ P # {}
    BY <1>1, <1>3, <2>1, PlaceFacts
  <2> HIDE DEF n
  <2>3. PICK m \in P : \A k \in P : k <= m
    <3> HIDE DEF P
    <3> QED BY <2>2, Greatest
  <2>4. \E a \in Waiting(t) : \A b \in Waiting(t) : Place(t, b) <= Place(t, a)
    BY <2>3
  <2> QED BY <2>4 DEF LastWaiting
<1> QED BY <1>1, <1>2, <1>3

-----------------------------------------------------------------------------
(* From one moment of a step to a later one.                                *)

Shift(g, h) ==
  /\ h \in Moments /\ g.seen \subseteq h.seen /\ g.over \subseteq h.over
  /\ h.new \subseteq g.new /\ h.fresh \subseteq g.fresh
  /\ \A b \in h.refused : b \in g.refused \/ b \notin g.seen

LEMMA SyncedShift ==
  ASSUME NEW t, NEW tr, NEW g, NEW h, Synced(t, tr, g), Shift(g, h)
  PROVE  Synced(t, tr, h)
<1>1. \A a \in Plays : Begun(t, tr, a, h)
  BY DEF Synced, Begun, Shift
<1>2. \A i \in DOMAIN tr : RowValid(tr, i, h)
  BY DEF Synced, RowValid, Shift
<1>3. PureRows(tr, h)
  <2> SUFFICES ASSUME NEW i \in DOMAIN tr PROVE RowPure(tr, i, h)
    BY DEF PureRows
  <2>1. RowPure(tr, i, g)
    BY DEF Synced, PureRows
  <2> QED BY <2>1 DEF RowPure, Shift
<1> QED BY <1>1, <1>2, <1>3 DEF Synced, Shift

\* Nothing that started or was refused is seen for the first time.
LEMMA PendingShift ==
  ASSUME NEW t, NEW g, NEW h, Pending(t, g), Shift(g, h),
         h.refused \cap h.seen \subseteq g.refused \cap g.seen,
         \A b \in (h.seen \ g.seen) : ~HasStarted(t, b),
         \A a \in g.await \ h.await :
           t.entry[a].disposed \/ ~t.entry[a].held \/ HasStarted(t, a)
  PROVE  Pending(t, h)
<1> SUFFICES ASSUME NEW a \in Plays, t.entry[a].held, ~t.entry[a].disposed
             PROVE  /\ Alone(t, a, h)
                    /\ a \notin h.await => HasStarted(t, a)
                    /\ cast[a] = "game" /\ t.entry[a].finished => t.entry[a].commit
  BY DEF Pending
<1>1. /\ Alone(t, a, g)
      /\ a \notin g.await => HasStarted(t, a)
      /\ cast[a] = "game" /\ t.entry[a].finished => t.entry[a].commit
  BY DEF Pending
<1>2. Alone(t, a, h)
  BY <1>1 DEF Alone
<1> QED BY <1>1, <1>2

LEMMA PendingNone ==
  ASSUME NEW t, NEW g, Unresolved(t) = {} PROVE Pending(t, g)
  BY DEF Pending, Unresolved
-----------------------------------------------------------------------------
(* The operations that settle.                                              *)

LEMMA LaterOpen ==
  ASSUME NEW t, NEW u, Settled(t, u), NEW a \in Plays
  PROVE  /\ HasStarted(u, a) <=> HasStarted(t, a)
         /\ u.entry[a].held = t.entry[a].held
         /\ u.entry[a].finished = t.entry[a].finished
         /\ u.entry[a].paused = t.entry[a].paused
         /\ u.entry[a].cont = t.entry[a].cont
  BY DEF Settled, HasStarted

LEMMA SettleWaitingSync ==
  ASSUME NEW t, NEW tr, NEW g, Synced(t, tr, g), Pending(t, g),
         NEW frame \in {NoFrame, g.seen}, NEW handoff \in BOOLEAN
  PROVE  /\ Reaches(tr, SettleWaiting(t, frame, handoff), g)
         /\ Settled(t, SettleWaiting(t, frame, handoff).t)
<1> DEFINE a == LastWaiting(t)
           m == Unknown(t, Waiting(t) \ {a})
           n == Settle(m.t, a, frame, handoff)
<1>1. t \in Trackers /\ tr \in Seq(TraceRows)
  BY DEF Synced
<1>2. CASE Waiting(t) = {}
  <2>1. SettleWaiting(t, frame, handoff) = Nothing(t)
    BY <1>2 DEF SettleWaiting
  <2>2. Reaches(tr, Nothing(t), g) /\ Nothing(t).t = t
    BY NothingSync
  <2> QED BY <1>1, <2>1, <2>2, SettledOnce
<1>3. CASE Waiting(t) # {}
  <2>1. SettleWaiting(t, frame, handoff) = Gives(n.t, m.rows \o n.rows)
    BY <1>3 DEF SettleWaiting, Then
  <2>2. /\ Waiting(t) \subseteq Unresolved(t) /\ a \in Waiting(t)
        /\ a \in Plays /\ HasStarted(t, a) /\ ~t.entry[a].disposed
        /\ t.entry[a].finished \/ t.entry[a].paused
    BY <1>3, WaitingFacts
  <2> HIDE DEF a
  <2>3. Waiting(t) \ {a} \in SUBSET Unresolved(t)
    BY <2>2
  <2>4. Reaches(tr, m, g) /\ Settled(t, m.t)
    BY <2>3, UnknownSync
  <2>5. ~m.t.entry[a].disposed
    BY <1>1, <2>2, DisposedFacts DEF Unknown, Gives
  <2> HIDE DEF m
  <2>6. m.rows \in Seq(TraceRows) /\ Synced(m.t, tr \o m.rows, g) /\ Pending(m.t, g)
    BY <2>4, SettledPending DEF Reaches
  <2>7. HasStarted(m.t, a) /\ (m.t.entry[a].finished \/ m.t.entry[a].paused)
    BY <2>2, <2>4, LaterOpen
  <2>8. frame = NoFrame \/ (frame \subseteq g.seen /\ a \in frame)
    BY <2>2 DEF Synced, Begun
  <2>9. Reaches(tr \o m.rows, n, g) /\ Settled(m.t, n.t)
    BY <2>2, <2>5, <2>6, <2>7, <2>8, SettleSync
  <2> HIDE DEF n
  <2>10. Reaches(tr, Gives(n.t, m.rows \o n.rows), g)
    BY <1>1, <2>6, <2>9, ThenSync
  <2>11. Settled(t, n.t)
    BY <2>4, <2>9, SettledTwice
  <2>12. Gives(n.t, m.rows \o n.rows).t = n.t
    BY DEF Gives
  <2> QED BY <2>1, <2>10, <2>11, <2>12
<1> QED BY <1>2, <1>3

LEMMA BarrierSync ==
  ASSUME NEW t, NEW tr, NEW g, Synced(t, tr, g)
  PROVE  /\ Reaches(tr, Barrier(t), g) /\ Settled(t, Barrier(t).t)
         /\ Unresolved(Barrier(t).t) = {}
<1>1. Reaches(tr, Barrier(t), g) /\ Settled(t, Barrier(t).t)
  BY UnknownSync DEF Barrier
<1>2. t \in Trackers
  BY DEF Synced
<1>3. Barrier(t).t = Disposed(t, Unresolved(t))
  BY DEF Barrier, Unknown, Gives
<1>4. \A a \in Plays : Disposed(t, Unresolved(t)).entry[a].held = t.entry[a].held
  BY <1>2, DisposedFacts DEF Settled
<1>5. Unresolved(Disposed(t, Unresolved(t))) = {}
  BY <1>2, <1>4, DisposedFacts DEF Unresolved
<1> QED BY <1>1, <1>3, <1>5

\* The input in a selector settles what the selector belongs to.
LEMMA NestedSync ==
  ASSUME NEW t, NEW tr, NEW g, Synced(t, tr, g), Pending(t, g), NEW p \in Plays,
         \/ t.entry[p].disposed
         \/ t.entry[p].held /\ p \notin g.await /\ cast[p] \in {"game", "task"}
  PROVE  /\ Reaches(tr, NestedBoundary(t, p, g.seen), g)
         /\ Later(t, NestedBoundary(t, p, g.seen).t)
<1> DEFINE e == t.entry[p]
           direct == HasStarted(t, p) /\ cast[p] = "task"
           idle == e.disposed \/ (~e.paused /\ ~e.finished /\ ~direct)
           m == IF e.commit \/ e.cont THEN Nothing(t) ELSE Continuation(t, p)
           n == Settle(m.t, p, g.seen, FALSE)
<1>1. t \in Trackers /\ tr \in Seq(TraceRows) /\ LifeRows(t, tr, p) /\ Begun(t, tr, p, g)
  BY DEF Synced
<1>2. Reaches(tr, Nothing(t), g) /\ Nothing(t).t = t /\ Later(t, t)
  BY <1>1, NothingSync, SettledOnce, SettledLater
<1>3. CASE idle
  <2>1. NestedBoundary(t, p, g.seen) = Nothing(t)
    BY <1>3 DEF NestedBoundary
  <2> QED BY <1>2, <2>1
<1>4. CASE ~idle
  <2>1. NestedBoundary(t, p, g.seen) = Gives(n.t, m.rows \o n.rows)
    BY <1>4 DEF NestedBoundary, Then
  <2>2. /\ e.held /\ ~e.disposed /\ p \notin g.await /\ cast[p] \in {"game", "task"}
        /\ e.paused \/ e.finished \/ cast[p] = "task"
        /\ HasStarted(t, p) /\ (cast[p] = "game" /\ e.finished => e.commit)
    BY <1>4 DEF Pending
  <2>3. /\ Reaches(tr, m, g) /\ Later(t, m.t)
        /\ m.t.entry[p].paused = e.paused /\ m.t.entry[p].finished = e.finished
        /\ ~m.t.entry[p].disposed
        /\ e.paused \/ e.finished \/ m.t.entry[p].cont
    <3>1. CASE e.commit \/ e.cont
      BY <1>1, <1>2, <2>2, <3>1 DEF LifeRows
    <3>2. CASE ~(e.commit \/ e.cont)
      <4>1. cast[p] = "task" \/ At(tr, p, {"paused"}) # {}
        BY <1>1, <2>2, <3>2 DEF LifeRows
      <4> QED BY <2>2, <3>2, <4>1, ContinuationSync
    <3> QED BY <3>1, <3>2
  <2> HIDE DEF m
  <2>4. m.rows \in Seq(TraceRows) /\ Synced(m.t, tr \o m.rows, g) /\ Pending(m.t, g)
    BY <2>3, LaterPending DEF Reaches
  <2>5. HasStarted(m.t, p) /\ p \in g.seen
    BY <1>1, <2>2, <2>3, LaterStarted DEF Begun
  <2>6. Reaches(tr \o m.rows, n, g) /\ Settled(m.t, n.t)
    BY <2>2, <2>3, <2>4, <2>5, SettleSync
  <2> HIDE DEF n
  <2>7. Reaches(tr, Gives(n.t, m.rows \o n.rows), g)
    BY <1>1, <2>4, <2>6, ThenSync
  <2>8. Later(t, n.t)
    BY <2>3, <2>6, SettledLater, LaterTwice
  <2>9. Gives(n.t, m.rows \o n.rows).t = n.t
    BY DEF Gives
  <2> QED BY <2>1, <2>7, <2>8, <2>9
<1> QED BY <1>3, <1>4

\* An input that was cancelled.
LEMMA CancelledSync ==
  ASSUME NEW t, NEW tr, NEW g, Synced(t, tr, g), NEW a \in Plays, t.entry[a].held,
         a \in g.over
  PROVE  /\ Reaches(tr, Cancelled(t, a), g) /\ Later(t, Cancelled(t, a).t)
         /\ Cancelled(t, a).t.entry[a].disposed
<1> DEFINE kind == IF HasStarted(t, a) THEN "cancelled_after" ELSE "cancelled_before"
<1>1. kind \in {"unknown", "cancelled_before", "cancelled_after", "aborted"}
  OBVIOUS
<1>2. /\ kind = "cancelled_before" => ~HasStarted(t, a) /\ a \in g.over
      /\ kind \in {"cancelled_after", "aborted"} => t.entry[a].disposed \/ HasStarted(t, a)
  OBVIOUS
<1>3. Cancelled(t, a) = Ends(t, a, kind)
  BY DEF Cancelled
<1> HIDE DEF kind
<1> QED BY <1>1, <1>2, <1>3, EndsSync
-----------------------------------------------------------------------------
(* The operations on one input.                                             *)

\* The commit of an input that finished, in the same batch.
LEMMA CommitSync ==
  ASSUME NEW t, NEW tr, NEW g, Synced(t, tr, g), NEW a \in Plays, t.entry[a].held,
         t.entry[a].finished
  PROVE  LET m == NativeCommit(t, a)
         IN /\ Reaches(tr, m, g)
            /\ m.t \in Trackers /\ m.t.order = t.order
            /\ m.t.entry[a].disposed \/ m.t.entry[a].commit
            /\ t.entry[a].disposed => m.t.entry[a].disposed
            /\ m.t.entry[a].held /\ m.t.entry[a].pre = t.entry[a].pre
            /\ \A b \in Plays \ {a} :
                 /\ m.t.entry[b].held = t.entry[b].held /\ m.t.entry[b].pre = t.entry[b].pre
                 /\ m.t.entry[b].finished = t.entry[b].finished
                 /\ m.t.entry[b].commit = t.entry[b].commit
                 /\ t.entry[b].disposed => m.t.entry[b].disposed
<1> DEFINE earlier == {b \in Waiting(t) : HasStarted(t, a) /\ Place(t, b) < Place(t, a)}
           later   == {b \in Waiting(t) : HasStarted(t, a) /\ Place(t, b) > Place(t, a)}
           m == Unknown(t, earlier)
           e == [m.t.entry[a] EXCEPT !.commit = TRUE]
           v == [m.t EXCEPT !.entry[a] = e]
           r == Row("commit", a)
           n == IF later # {} THEN Unknown(m.t, {a}) ELSE Gives(v, <<r>>)
           all == Gives(n.t, m.rows \o n.rows)
<1>1. t \in Trackers /\ tr \in Seq(TraceRows)
  BY DEF Synced
<1>2. CASE t.entry[a].disposed
  <2>1. NativeCommit(t, a) = Nothing(t)
    BY <1>2 DEF NativeCommit
  <2>2. Reaches(tr, Nothing(t), g) /\ Nothing(t).t = t
    BY NothingSync
  <2> QED BY <1>1, <1>2, <2>1, <2>2
<1>3. CASE ~t.entry[a].disposed
  <2>1. earlier \in SUBSET Unresolved(t)
    BY WaitingFacts
  <2>2. a \notin earlier
    <3>1. HasStarted(t, a) => Place(t, a) \in Int
      BY <1>1, PlaceFacts
    <3> QED BY <3>1
  <2> HIDE DEF earlier, later
  <2>3. /\ Reaches(tr, m, g) /\ Settled(t, m.t)
        /\ ~m.t.entry[a].disposed
    BY <1>1, <1>3, <2>1, <2>2, UnknownSync, DisposedFacts DEF Unknown, Gives
  <2>4. /\ m.t.entry[a] \in Entries /\ m.t \in Trackers
        /\ m.t.entry[a].held /\ m.t.entry[a].finished /\ m.t.entry[a].pre = t.entry[a].pre
    BY <2>3 DEF Settled, Trackers
  <2>5. m.rows \in Seq(TraceRows) /\ Synced(m.t, tr \o m.rows, g)
    BY <2>3 DEF Reaches
  <2>6. NativeCommit(t, a) = all
    <3>1. [m.t EXCEPT !.entry[a].commit = TRUE] = v
      <4> HIDE DEF m
      <4> QED BY <2>4, FieldChanged
    <3> QED BY <1>3, <3>1 DEF NativeCommit, Then, earlier, later
  <2> HIDE DEF m
  <2>7. LifeRows(m.t, tr \o m.rows, a)
    BY <2>5 DEF Synced
  <2>8. CASE later # {}
    <3>1. {a} \in SUBSET Unresolved(m.t)
      BY <2>3, <2>4 DEF Unresolved
    <3>2. Reaches(tr \o m.rows, n, g) /\ Settled(m.t, n.t)
      BY <2>5, <2>8, <3>1, UnknownSync
    <3>3. n.t.entry[a].disposed
      BY <2>4, <2>8, DisposedFacts DEF Unknown, Gives
    <3> HIDE DEF n
    <3>4. Reaches(tr, all, g) /\ all.t = n.t
      BY <1>1, <2>5, <3>2, ThenSync DEF Gives
    <3>5. Settled(t, n.t)
      BY <2>3, <3>2, SettledTwice
    <3> HIDE DEF all
    <3> QED BY <1>3, <2>6, <3>3, <3>4, <3>5 DEF Settled
  <2>9. CASE later = {}
    <3>1. /\ e \in Entries /\ e.held = m.t.entry[a].held /\ e.pre = m.t.entry[a].pre
          /\ e.disposed = m.t.entry[a].disposed /\ e.finished = m.t.entry[a].finished
          /\ e.cont = m.t.entry[a].cont /\ e.paused = m.t.entry[a].paused /\ e.commit
      BY <2>4 DEF Entries
    <3> HIDE DEF e
    <3>2. /\ v \in Trackers /\ v.order = m.t.order /\ v.entry[a] = e
          /\ \A b \in Plays \ {a} : v.entry[b] = m.t.entry[b]
      BY <2>4, <3>1, EntryChanged
    <3> HIDE DEF v
    <3>3. Marked(m.t, v, tr \o m.rows, "commit", a)
      BY <2>4, <2>7, <3>1, <3>2 DEF Marked, LifeRows
    <3>4. r = Row("commit", a) /\ "commit" \in Marks
      BY DEF Marks
    <3> HIDE DEF r
    <3>5. Reaches(tr \o m.rows, Gives(v, <<r>>), g) /\ Gives(v, <<r>>).t = v
      BY <2>4, <2>5, <3>3, <3>4, MarkSync
    <3>6. n = Gives(v, <<r>>)
      BY <2>9
    <3> HIDE DEF n
    <3>7. Reaches(tr, all, g) /\ all.t = v
      BY <1>1, <2>5, <3>5, <3>6, ThenSync DEF Gives
    <3>8. /\ v.order = t.order /\ v.entry[a].commit /\ v.entry[a].held
          /\ v.entry[a].pre = t.entry[a].pre
      BY <2>3, <2>4, <3>1, <3>2 DEF Settled
    <3>9. ASSUME NEW b \in Plays \ {a}
          PROVE  /\ v.entry[b].held = t.entry[b].held /\ v.entry[b].pre = t.entry[b].pre
                 /\ v.entry[b].finished = t.entry[b].finished
                 /\ v.entry[b].commit = t.entry[b].commit
                 /\ t.entry[b].disposed => v.entry[b].disposed
      BY <2>3, <3>2 DEF Settled
    <3> HIDE DEF all
    <3>10. NativeCommit(t, a).t = v /\ Reaches(tr, NativeCommit(t, a), g)
      BY <2>6, <3>7
    <3> QED BY <1>3, <3>2, <3>8, <3>9, <3>10
  <2> QED BY <2>8, <2>9
<1> QED BY <1>2, <1>3

LEMMA FinishedSync ==
  ASSUME NEW t, NEW tr, NEW g, Synced(t, tr, g), NEW a \in Plays, t.entry[a].held
  PROVE  LET m == Finished(t, a)
         IN /\ Reaches(tr, m, g)
            /\ m.t \in Trackers /\ m.t.order = t.order
            /\ m.t.entry[a].held /\ m.t.entry[a].pre = t.entry[a].pre
            /\ m.t.entry[a].finished /\ m.t.entry[a].disposed = t.entry[a].disposed
            /\ \A b \in Plays \ {a} : m.t.entry[b] = t.entry[b]
<1> DEFINE e == [t.entry[a] EXCEPT !.finished = TRUE]
           u == [t EXCEPT !.entry[a] = e]
           r == Row("finished", a)
<1>1. t \in Trackers /\ t.entry[a] \in Entries /\ LifeRows(t, tr, a)
  BY DEF Synced, Trackers
<1>2. CASE t.entry[a].finished
  <2>1. Finished(t, a) = Nothing(t)
    BY <1>2 DEF Finished
  <2>2. Reaches(tr, Nothing(t), g) /\ Nothing(t).t = t
    BY NothingSync
  <2> QED BY <1>1, <1>2, <2>1, <2>2
<1>3. CASE ~t.entry[a].finished
  <2>1. /\ e \in Entries /\ e.held = t.entry[a].held /\ e.pre = t.entry[a].pre
        /\ e.disposed = t.entry[a].disposed /\ e.finished
        /\ e.cont = t.entry[a].cont /\ e.commit = t.entry[a].commit
        /\ e.paused = t.entry[a].paused
    BY <1>1 DEF Entries
  <2>2. Finished(t, a) = Gives(u, <<r>>)
    BY <1>1, <1>3, FieldChanged DEF Finished
  <2> HIDE DEF e
  <2>3. /\ u \in Trackers /\ u.order = t.order /\ u.entry[a] = e
        /\ \A b \in Plays \ {a} : u.entry[b] = t.entry[b]
    BY <1>1, <2>1, EntryChanged
  <2> HIDE DEF u
  <2>4. Marked(t, u, tr, "finished", a)
    BY <1>1, <2>1, <2>3 DEF Marked, LifeRows
  <2>5. r = Row("finished", a) /\ "finished" \in Marks
    BY DEF Marks
  <2> HIDE DEF r
  <2>6. Reaches(tr, Gives(u, <<r>>), g) /\ Gives(u, <<r>>).t = u
    BY <2>4, <2>5, MarkSync
  <2> QED BY <2>1, <2>2, <2>3, <2>6
<1> QED BY <1>2, <1>3

LEMMA FinishSync ==
  ASSUME NEW t, NEW tr, NEW g, Synced(t, tr, g), NEW a \in Plays, t.entry[a].held
  PROVE  LET m == Then(Finished(t, a), LAMBDA u : NativeCommit(u, a))
         IN Reaches(tr, m, g) /\ Later(t, m.t)
<1> DEFINE m == Finished(t, a)
           n == NativeCommit(m.t, a)
<1>1. t \in Trackers /\ tr \in Seq(TraceRows)
  BY DEF Synced
<1>2. Then(Finished(t, a), LAMBDA u : NativeCommit(u, a)) = Gives(n.t, m.rows \o n.rows)
  BY DEF Then
<1>3. /\ Reaches(tr, m, g)
      /\ m.t \in Trackers /\ m.t.order = t.order
      /\ m.t.entry[a].held /\ m.t.entry[a].pre = t.entry[a].pre
      /\ m.t.entry[a].finished /\ m.t.entry[a].disposed = t.entry[a].disposed
      /\ \A b \in Plays \ {a} : m.t.entry[b] = t.entry[b]
  BY FinishedSync
<1> HIDE DEF m
<1>4. m.rows \in Seq(TraceRows) /\ Synced(m.t, tr \o m.rows, g)
  BY <1>3 DEF Reaches
<1>5. /\ Reaches(tr \o m.rows, n, g)
      /\ n.t \in Trackers /\ n.t.order = m.t.order
      /\ n.t.entry[a].disposed \/ n.t.entry[a].commit
      /\ m.t.entry[a].disposed => n.t.entry[a].disposed
      /\ n.t.entry[a].held /\ n.t.entry[a].pre = m.t.entry[a].pre
      /\ \A b \in Plays \ {a} :
           /\ n.t.entry[b].held = m.t.entry[b].held /\ n.t.entry[b].pre = m.t.entry[b].pre
           /\ n.t.entry[b].finished = m.t.entry[b].finished
           /\ n.t.entry[b].commit = m.t.entry[b].commit
           /\ m.t.entry[b].disposed => n.t.entry[b].disposed
  BY <1>3, <1>4, CommitSync
<1> HIDE DEF n
<1>6. Reaches(tr, Gives(n.t, m.rows \o n.rows), g)
  BY <1>1, <1>4, <1>5, ThenSync
<1>7. Later(t, n.t)
  <2>1. n.t \in Trackers /\ n.t.order = t.order
    BY <1>3, <1>5
  <2>2. \A b \in Plays :
          /\ n.t.entry[b].held = t.entry[b].held /\ n.t.entry[b].pre = t.entry[b].pre
          /\ t.entry[b].disposed => n.t.entry[b].disposed
          /\ cast[b] = "game" /\ n.t.entry[b].finished =>
               \/ n.t.entry[b].disposed \/ n.t.entry[b].commit
               \/ t.entry[b].finished /\ (t.entry[b].commit => n.t.entry[b].commit)
    <3>1. ASSUME NEW b \in Plays \ {a}
          PROVE  /\ n.t.entry[b].held = t.entry[b].held /\ n.t.entry[b].pre = t.entry[b].pre
                 /\ t.entry[b].disposed => n.t.entry[b].disposed
                 /\ n.t.entry[b].finished = t.entry[b].finished
                 /\ n.t.entry[b].commit = t.entry[b].commit
      BY <1>3, <1>5
    <3>2. /\ n.t.entry[a].held = t.entry[a].held /\ n.t.entry[a].pre = t.entry[a].pre
          /\ t.entry[a].disposed => n.t.entry[a].disposed
          /\ n.t.entry[a].disposed \/ n.t.entry[a].commit
      BY <1>3, <1>5
    <3> QED BY <3>1, <3>2
  <2> QED BY <2>1, <2>2 DEF Later
<1>8. Gives(n.t, m.rows \o n.rows).t = n.t
  BY DEF Gives
<1> QED BY <1>2, <1>6, <1>7, <1>8
-----------------------------------------------------------------------------
(* The first rows of an input: accepted, boundary, started.                 *)

LEMMA OneMore ==
  ASSUME NEW tr \in Seq(TraceRows), NEW r \in TraceRows
  PROVE  LET w == tr \o <<r>>
         IN /\ w \in Seq(TraceRows) /\ Len(tr) \in Nat /\ <<r>> \in Seq(TraceRows)
            /\ \A i \in DOMAIN tr :
                 i \in DOMAIN w /\ w[i] = tr[i] /\ i \in Nat /\ i < Len(tr) + 1
            /\ Len(tr) + 1 \in DOMAIN w /\ w[Len(tr) + 1] = r
            /\ \A k \in DOMAIN w : k \in DOMAIN tr \/ k = Len(tr) + 1
<1> DEFINE rows == <<r>>
<1>1. rows \in Seq(TraceRows) /\ DOMAIN rows = {1} /\ rows[1] = r
  BY OneRow
<1> HIDE DEF rows
<1>2. LET w == tr \o rows
      IN /\ w \in Seq(TraceRows) /\ Len(tr) \in Nat
         /\ \A i \in DOMAIN tr :
              i \in DOMAIN w /\ w[i] = tr[i] /\ i \in Nat /\ i < Len(tr) + 1
         /\ Len(tr) + 1 \in DOMAIN w /\ w[Len(tr) + 1] = r
         /\ \A k \in DOMAIN w : k \in DOMAIN tr \/ k = Len(tr) + 1
  BY <1>1, Joined
<1> QED BY <1>1, <1>2 DEF rows

LEMMA OneMoreAt ==
  ASSUME NEW tr \in Seq(TraceRows), NEW r \in TraceRows, NEW b, NEW K
  PROVE  LET w == tr \o <<r>>
         IN /\ At(tr, b, K) \subseteq At(w, b, K)
            /\ \A k \in At(w, b, K) :
                 k \in At(tr, b, K) \/ (k = Len(tr) + 1 /\ r.act = b /\ r.kind \in K)
            /\ r.act = b /\ r.kind \in K => Len(tr) + 1 \in At(w, b, K)
            /\ r.act # b \/ r.kind \notin K => At(w, b, K) = At(tr, b, K)
<1> DEFINE w == tr \o <<r>>
           N == Len(tr)
<1>1. /\ \A i \in DOMAIN tr : i \in DOMAIN w /\ w[i] = tr[i]
      /\ N + 1 \in DOMAIN w /\ w[N + 1] = r
      /\ \A k \in DOMAIN w : k \in DOMAIN tr \/ k = N + 1
  BY OneMore
<1> HIDE DEF w, N
<1>2. At(tr, b, K) \subseteq At(w, b, K)
  BY <1>1 DEF At
<1>3. \A k \in At(w, b, K) :
        k \in At(tr, b, K) \/ (k = N + 1 /\ r.act = b /\ r.kind \in K)
  BY <1>1 DEF At
<1>4. r.act = b /\ r.kind \in K => N + 1 \in At(w, b, K)
  BY <1>1 DEF At
<1>5. ASSUME r.act # b \/ r.kind \notin K PROVE At(w, b, K) = At(tr, b, K)
  <2>1. \A k \in At(w, b, K) : k \in At(tr, b, K)
    BY <1>3, <1>5
  <2> QED BY <1>2, <2>1
<1> QED BY <1>2, <1>3, <1>4, <1>5 DEF w, N

\* A row about one input leaves the others alone.
LEMMA OthersKept ==
  ASSUME NEW t, NEW tr, NEW g, Synced(t, tr, g), NEW u, NEW r \in TraceRows,
         NEW w, w = tr \o <<r>>, NEW b \in Plays, b # r.act,
         u.entry[b] = t.entry[b], HasStarted(u, b) <=> HasStarted(t, b)
  PROVE  /\ HeldRows(u, w, b) /\ StartRows(u, w, b) /\ BoundaryRows(u, w, b)
         /\ EndRows(u, w, b) /\ LifeRows(u, w, b) /\ Begun(u, w, b, g)
<1>1. /\ tr \in Seq(TraceRows)
      /\ HeldRows(t, tr, b) /\ StartRows(t, tr, b) /\ BoundaryRows(t, tr, b)
      /\ EndRows(t, tr, b) /\ LifeRows(t, tr, b) /\ Begun(t, tr, b, g)
  BY DEF Synced
<1>2. /\ \A i \in DOMAIN tr : i \in DOMAIN w /\ w[i] = tr[i] /\ i \in Nat /\ i < Len(tr) + 1
      /\ Len(tr) + 1 \in DOMAIN w /\ w[Len(tr) + 1] = r
      /\ \A k \in DOMAIN w : k \in DOMAIN tr \/ k = Len(tr) + 1
      /\ \A K : At(w, b, K) = At(tr, b, K)
  <2>1. ASSUME NEW K PROVE At(w, b, K) = At(tr, b, K)
    BY <1>1, OneMoreAt
  <2> QED BY <1>1, <2>1, OneMore
<1>3. HeldRows(u, w, b)
  <2>1. \A j \in DOMAIN w : w[j].act = b => j \in DOMAIN tr /\ w[j] = tr[j]
    BY <1>2
  <2>2. CASE t.entry[b].held
    <3>1. PICK i \in At(tr, b, {"accepted"}) : \A j \in DOMAIN tr :
            tr[j].act = b => i <= j /\ (tr[j].kind = "accepted" => j = i)
      BY <1>1, <2>2 DEF HeldRows
    <3>2. i \in At(w, b, {"accepted"})
      BY <1>2, <3>1
    <3> QED BY <2>1, <2>2, <3>1, <3>2 DEF HeldRows
  <2>3. CASE ~t.entry[b].held
    BY <1>1, <2>1, <2>3 DEF HeldRows
  <2> QED BY <2>2, <2>3
<1>4. StartRows(u, w, b) /\ EndRows(u, w, b) /\ LifeRows(u, w, b) /\ Begun(u, w, b, g)
  BY <1>1, <1>2 DEF StartRows, EndRows, Disposition, LifeRows, Begun
<1>5. BoundaryRows(u, w, b)
  <2>1. \A i \in At(tr, b, {"boundary"}) : i \in DOMAIN tr
    BY DEF At
  <2> QED BY <1>1, <1>2, <2>1 DEF BoundaryRows
<1> QED BY <1>3, <1>4, <1>5

\* A row that starts no input and ends none leaves the other rows as they are.
LEMMA RowsKept ==
  ASSUME NEW t, NEW tr, NEW g, Synced(t, tr, g), NEW r \in TraceRows,
         NEW w, w = tr \o <<r>>, r.kind \notin Dispositions, r.kind # "started"
  PROVE  \A i \in DOMAIN w : RowValid(w, i, g) /\ RowPure(w, i, g)
<1>1. tr \in Seq(TraceRows)
  BY DEF Synced
<1>2. /\ <<r>> \in Seq(TraceRows)
      /\ \A i \in DOMAIN tr : i \in DOMAIN w /\ w[i] = tr[i]
      /\ w[Len(tr) + 1] = r
      /\ \A k \in DOMAIN w : k \in DOMAIN tr \/ k = Len(tr) + 1
      /\ \A b : At(w, b, {"started"}) = At(tr, b, {"started"})
  <2>1. ASSUME NEW b PROVE At(w, b, {"started"}) = At(tr, b, {"started"})
    <3>1. r.kind \notin {"started"}
      OBVIOUS
    <3> QED BY <1>1, <3>1, OneMoreAt
  <2> QED BY <1>1, <2>1, OneMore
<1>3. \A b : At(<<r>>, b, {"started"}) = {}
  BY OneRow
<1>4. ASSUME NEW i \in DOMAIN tr PROVE RowValid(w, i, g) /\ RowPure(w, i, g)
  <2>1. RowValid(tr, i, g) /\ RowPure(tr, i, g) /\ w[i] = tr[i]
    BY <1>2 DEF Synced, PureRows
  <2>2. ProofValid(tr, i) => ProofValid(w, i)
    BY <1>1, <1>2, <1>3, ProofStays
  <2>3. RowValid(w, i, g)
    BY <1>2, <2>1, <2>2 DEF RowValid
  <2>4. RowPure(w, i, g)
    BY <1>2, <2>1 DEF RowPure
  <2> QED BY <2>3, <2>4
<1>5. RowValid(w, Len(tr) + 1, g) /\ RowPure(w, Len(tr) + 1, g)
  BY <1>2 DEF RowValid, RowPure, Dispositions
<1> QED BY <1>2, <1>4, <1>5

LEMMA LastStartKept ==
  ASSUME NEW t, NEW tr, NEW g, Synced(t, tr, g), NEW u, u.order = t.order,
         NEW r \in TraceRows, NEW w, w = tr \o <<r>>, r.kind # "started"
  PROVE  LastStart(u, w)
<1>1. tr \in Seq(TraceRows) /\ LastStart(t, tr)
  BY DEF Synced
<1>2. /\ \A i \in DOMAIN tr : i \in DOMAIN w /\ w[i] = tr[i]
      /\ w[Len(tr) + 1] = r
      /\ \A k \in DOMAIN w : k \in DOMAIN tr \/ k = Len(tr) + 1
      /\ \A b : At(w, b, {"started"}) = At(tr, b, {"started"})
  <2>1. ASSUME NEW b PROVE At(w, b, {"started"}) = At(tr, b, {"started"})
    <3>1. r.kind \notin {"started"}
      OBVIOUS
    <3> QED BY <1>1, <3>1, OneMoreAt
  <2> QED BY <1>1, <2>1, OneMore
<1> QED BY <1>1, <1>2 DEF LastStart

LEMMA AcceptSync ==
  ASSUME NEW t, NEW tr, NEW g, Synced(t, tr, g), NEW a \in Plays, ~t.entry[a].held,
         NEW h, h = [g EXCEPT !.new = g.new \ {a}]
  PROVE  LET m == Accept(t, a)
         IN /\ Reaches(tr, m, h)
            /\ m.t \in Trackers /\ m.t.order = t.order /\ ~HasStarted(t, a)
            /\ m.t.entry[a].held /\ m.t.entry[a].pre = NoFrame
            /\ ~m.t.entry[a].disposed /\ ~m.t.entry[a].finished
            /\ \A b \in Plays \ {a} : m.t.entry[b] = t.entry[b]
<1> DEFINE e == [NoEntry EXCEPT !.held = TRUE]
           u == [t EXCEPT !.entry[a] = e]
           r == Row("accepted", a)
           w == tr \o <<r>>
           N == Len(tr)
<1>1. /\ t \in Trackers /\ tr \in Seq(TraceRows) /\ g \in Moments
      /\ \A j \in DOMAIN tr : tr[j].act # a
  BY DEF Synced, HeldRows
<1>2. /\ e \in Entries /\ e.held /\ e.pre = NoFrame /\ ~e.paused /\ ~e.finished
      /\ ~e.commit /\ ~e.cont /\ ~e.disposed
  BY DEF NoEntry, Entries, Frames
<1>3. h \in Moments /\ Shift(g, h) /\ a \notin h.new
  BY <1>1 DEF Shift, Moments
<1>4. Synced(t, tr, h)
  BY <1>3, SyncedShift
<1>5. Accept(t, a) = Gives(u, <<r>>)
  BY DEF Accept
<1> HIDE DEF e
<1>6. /\ u \in Trackers /\ u.order = t.order /\ u.entry[a] = e
      /\ \A b \in Plays \ {a} : u.entry[b] = t.entry[b]
  BY <1>1, <1>2, EntryChanged
<1>7. r \in TraceRows /\ r.act = a /\ r.kind = "accepted"
  <2>1. "accepted" \in RowKinds
    BY DEF RowKinds
  <2> QED BY <2>1, RowFacts
<1> HIDE DEF u, r
<1>0. w = tr \o <<r>>
  OBVIOUS
<1> HIDE DEF w
<1>8. \A b : HasStarted(u, b) <=> HasStarted(t, b)
  BY <1>6 DEF HasStarted
<1>9. /\ w \in Seq(TraceRows) /\ N \in Nat /\ <<r>> \in Seq(TraceRows)
      /\ \A i \in DOMAIN tr : i \in DOMAIN w /\ w[i] = tr[i] /\ i \in Nat /\ i < N + 1
      /\ N + 1 \in DOMAIN w /\ w[N + 1] = r
      /\ \A k \in DOMAIN w : k \in DOMAIN tr \/ k = N + 1
  BY <1>0, <1>1, <1>7, OneMore
<1>10. \A K : At(tr, a, K) = {}
  BY <1>1 DEF At
<1>11. /\ N + 1 \in At(w, a, {"accepted"})
       /\ \A K : "accepted" \notin K => At(w, a, K) = {}
  <2>1. N + 1 \in At(w, a, {"accepted"})
    BY <1>0, <1>1, <1>7, OneMoreAt
  <2>2. ASSUME NEW K, "accepted" \notin K PROVE At(w, a, K) = {}
    <3>1. At(w, a, K) = At(tr, a, K)
      BY <1>0, <1>1, <1>7, <2>2, OneMoreAt
    <3> QED BY <1>10, <3>1
  <2> QED BY <2>1, <2>2
<1>12. ~HasStarted(t, a)
  BY StartedHeld
<1> HIDE DEF N
<1>13. HeldRows(u, w, a)
  <2>1. \A j \in DOMAIN w : w[j].act = a => j = N + 1
    BY <1>1, <1>9
  <2> QED BY <1>2, <1>6, <1>9, <1>11, <2>1 DEF HeldRows
<1>14. StartRows(u, w, a)
  BY <1>8, <1>11, <1>12 DEF StartRows
<1>15. BoundaryRows(u, w, a)
  BY <1>2, <1>6, <1>11 DEF BoundaryRows
<1>16. EndRows(u, w, a)
  <2>1. "accepted" \notin Dispositions
    BY DEF Dispositions
  <2> QED BY <1>2, <1>6, <1>11, <2>1 DEF EndRows, Disposition
<1>17. LifeRows(u, w, a)
  BY <1>2, <1>6 DEF LifeRows
<1>18. Begun(u, w, a, h)
  BY <1>3, <1>8, <1>11, <1>12 DEF Begun
<1>19. ASSUME NEW b \in Plays, b # a
       PROVE /\ HeldRows(u, w, b) /\ StartRows(u, w, b) /\ BoundaryRows(u, w, b)
             /\ EndRows(u, w, b) /\ LifeRows(u, w, b) /\ Begun(u, w, b, h)
  BY <1>4, <1>6, <1>7, <1>8, <1>19, <1>0, OthersKept
<1>20. /\ LastStart(u, w)
       /\ \A i \in DOMAIN w : RowValid(w, i, h) /\ RowPure(w, i, h)
  <2>1. r.kind \notin Dispositions /\ r.kind # "started"
    BY <1>7 DEF Dispositions
  <2> QED BY <1>4, <1>6, <1>7, <2>1, RowsKept, <1>0, LastStartKept
<1>21. Synced(u, w, h)
  BY <1>3, <1>6, <1>9, <1>13, <1>14, <1>15, <1>16, <1>17, <1>18, <1>19, <1>20
     DEF Synced, PureRows
<1>22. Reaches(tr, Gives(u, <<r>>), h) /\ Gives(u, <<r>>).t = u
  <2> DEFINE rows == <<r>>
  <2>1. rows \in Seq(TraceRows) /\ Synced(u, tr \o rows, h)
    BY <1>0, <1>9, <1>21
  <2> HIDE DEF rows
  <2>2. Reaches(tr, Gives(u, rows), h) /\ Gives(u, rows).t = u
    BY <2>1, GivesReaches
  <2> QED BY <2>2 DEF rows
<1> QED BY <1>2, <1>5, <1>6, <1>12, <1>22

LEMMA BoundarySync ==
  ASSUME NEW t, NEW tr, NEW g, Synced(t, tr, g), NEW a \in Plays, t.entry[a].held,
         a \in g.fresh, a \notin g.seen, NEW frame \in {NoFrame, g.seen},
         NEW h, h = [g EXCEPT !.fresh = g.fresh \ {a}]
  PROVE  LET m == Boundary(t, a, frame)
         IN /\ Reaches(tr, m, h)
            /\ m.t \in Trackers /\ m.t.order = t.order /\ ~HasStarted(t, a)
            /\ m.t.entry[a].held /\ m.t.entry[a].pre = frame
            /\ m.t.entry[a].disposed = t.entry[a].disposed
            /\ m.t.entry[a].finished = t.entry[a].finished
            /\ m.t.entry[a].commit = t.entry[a].commit
            /\ \A b \in Plays \ {a} : m.t.entry[b] = t.entry[b]
<1> DEFINE e == [t.entry[a] EXCEPT !.pre = frame]
           u == [t EXCEPT !.entry[a] = e]
           r == [Row("boundary", a) EXCEPT !.pre = frame]
           w == tr \o <<r>>
           N == Len(tr)
<1>1. /\ t \in Trackers /\ tr \in Seq(TraceRows) /\ g \in Moments /\ t.entry[a] \in Entries
      /\ HeldRows(t, tr, a) /\ StartRows(t, tr, a) /\ BoundaryRows(t, tr, a)
      /\ EndRows(t, tr, a) /\ LifeRows(t, tr, a) /\ Begun(t, tr, a, g)
  BY DEF Synced, Trackers
<1>2. frame \in Frames
  BY <1>1 DEF Frames, Moments
<1>3. /\ e \in Entries /\ e.held = t.entry[a].held /\ e.pre = frame
      /\ e.paused = t.entry[a].paused /\ e.finished = t.entry[a].finished
      /\ e.commit = t.entry[a].commit /\ e.cont = t.entry[a].cont
      /\ e.disposed = t.entry[a].disposed
  BY <1>1, <1>2 DEF Entries
<1>4. h \in Moments /\ Shift(g, h) /\ a \notin h.fresh /\ h.new = g.new /\ h.seen = g.seen
  BY <1>1 DEF Shift, Moments
<1>5. Synced(t, tr, h)
  BY <1>4, SyncedShift
<1>6. [t EXCEPT !.entry[a].pre = frame] = u
  BY <1>1, FieldChanged
<1> HIDE DEF e
<1>7. /\ u \in Trackers /\ u.order = t.order /\ u.entry[a] = e
      /\ \A b \in Plays \ {a} : u.entry[b] = t.entry[b]
  BY <1>1, <1>3, EntryChanged
<1>8. r \in TraceRows /\ r.act = a /\ r.kind = "boundary" /\ r.pre = frame
  <2>1. "boundary" \in RowKinds /\ NoFrame \in Frames
    BY DEF RowKinds, Frames
  <2> QED BY <1>2, <2>1 DEF Row, TraceRows
<1> HIDE DEF u, r
<1>0. w = tr \o <<r>>
  OBVIOUS
<1> HIDE DEF w
<1>9. \A b : HasStarted(u, b) <=> HasStarted(t, b)
  BY <1>7 DEF HasStarted
<1>10. /\ w \in Seq(TraceRows) /\ N \in Nat /\ <<r>> \in Seq(TraceRows)
       /\ \A i \in DOMAIN tr : i \in DOMAIN w /\ w[i] = tr[i] /\ i \in Nat /\ i < N + 1
       /\ N + 1 \in DOMAIN w /\ w[N + 1] = r
       /\ \A k \in DOMAIN w : k \in DOMAIN tr \/ k = N + 1
  BY <1>0, <1>1, <1>8, OneMore
<1>11. ~HasStarted(t, a) /\ At(tr, a, {"started"}) = {} /\ At(tr, a, {"boundary"}) = {}
  BY <1>1 DEF Begun, StartRows
<1>12. At(w, a, {"boundary"}) = {N + 1}
  <2>1. "boundary" \in {"boundary"}
    OBVIOUS
  <2>2. /\ N + 1 \in At(w, a, {"boundary"})
        /\ \A k \in At(w, a, {"boundary"}) : k \in At(tr, a, {"boundary"}) \/ k = N + 1
    BY <1>0, <1>1, <1>8, <2>1, OneMoreAt
  <2> QED BY <1>11, <2>2
<1>13. ASSUME NEW K, "boundary" \notin K PROVE At(w, a, K) = At(tr, a, K)
  BY <1>0, <1>1, <1>8, <1>13, OneMoreAt
<1>14. \A K : At(tr, a, K) \subseteq At(w, a, K)
  <2>1. ASSUME NEW K PROVE At(tr, a, K) \subseteq At(w, a, K)
    BY <1>0, <1>1, <1>8, OneMoreAt
  <2> QED BY <2>1
<1>15. At(w, a, {"started"}) = {} /\ Disposition(w, a) = Disposition(tr, a)
  <2>1. "boundary" \notin {"started"} /\ "boundary" \notin Dispositions
    BY DEF Dispositions
  <2> QED BY <1>11, <1>13, <2>1 DEF Disposition
<1> HIDE DEF N
<1>16. HeldRows(u, w, a)
  <2>1. PICK i \in At(tr, a, {"accepted"}) : \A j \in DOMAIN tr :
          tr[j].act = a => i <= j /\ (tr[j].kind = "accepted" => j = i)
    BY <1>1 DEF HeldRows
  <2>2. i \in At(w, a, {"accepted"}) /\ i \in DOMAIN tr
    BY <1>14, <2>1 DEF At
  <2>3. \A j \in DOMAIN w : w[j].act = a => i <= j /\ (w[j].kind = "accepted" => j = i)
    BY <1>8, <1>10, <2>1, <2>2
  <2> QED BY <1>3, <1>7, <2>2, <2>3 DEF HeldRows
<1>17. StartRows(u, w, a)
  BY <1>9, <1>11, <1>15 DEF StartRows
<1>18. BoundaryRows(u, w, a)
  BY <1>3, <1>7, <1>8, <1>10, <1>12, <1>15 DEF BoundaryRows
<1>19. EndRows(u, w, a)
  BY <1>1, <1>3, <1>7, <1>15 DEF EndRows
<1>20. LifeRows(u, w, a)
  BY <1>1, <1>3, <1>7, <1>14 DEF LifeRows
<1>21. Begun(u, w, a, h)
  BY <1>1, <1>3, <1>4, <1>7, <1>9, <1>11 DEF Begun
<1>22. ASSUME NEW b \in Plays, b # a
       PROVE /\ HeldRows(u, w, b) /\ StartRows(u, w, b) /\ BoundaryRows(u, w, b)
             /\ EndRows(u, w, b) /\ LifeRows(u, w, b) /\ Begun(u, w, b, h)
  BY <1>5, <1>7, <1>8, <1>9, <1>22, <1>0, OthersKept
<1>23. /\ LastStart(u, w)
       /\ \A i \in DOMAIN w : RowValid(w, i, h) /\ RowPure(w, i, h)
  <2>1. r.kind \notin Dispositions /\ r.kind # "started"
    BY <1>8 DEF Dispositions
  <2> QED BY <1>5, <1>7, <1>8, <2>1, RowsKept, <1>0, LastStartKept
<1>24. Synced(u, w, h)
  BY <1>4, <1>7, <1>10, <1>16, <1>17, <1>18, <1>19, <1>20, <1>21, <1>22, <1>23
     DEF Synced, PureRows
<1>25. Reaches(tr, Gives(u, <<r>>), h) /\ Gives(u, <<r>>).t = u
  <2> DEFINE rows == <<r>>
  <2>1. rows \in Seq(TraceRows) /\ Synced(u, tr \o rows, h)
    BY <1>0, <1>10, <1>24
  <2> HIDE DEF rows
  <2>2. Reaches(tr, Gives(u, rows), h) /\ Gives(u, rows).t = u
    BY <2>1, GivesReaches
  <2> QED BY <2>2 DEF rows
<1>26. [Row("boundary", a) EXCEPT !.pre = frame] = r
  BY DEF r
<1>27. Boundary(t, a, frame) = Gives(u, <<r>>)
  BY <1>6, <1>26 DEF Boundary
<1>28. Reaches(tr, Boundary(t, a, frame), h) /\ Boundary(t, a, frame).t = u
  BY <1>25, <1>27
<1> QED BY <1>3, <1>7, <1>11, <1>28

LEMMA SettleOthers ==
  ASSUME NEW t \in Trackers, NEW a \in Plays, NEW frame, NEW handoff, NEW b \in Plays \ {a}
  PROVE  Settle(t, a, frame, handoff).t.entry[b].disposed = t.entry[b].disposed
<1> DEFINE u == Disposed(t, {a})
<1>1. u.entry[b].disposed = t.entry[b].disposed
  <2>1. /\ u.entry[b].disposed <=> t.entry[b].disposed
        /\ u \in Trackers
    BY DisposedFacts DEF Settled
  <2>2. u.entry[b].disposed \in BOOLEAN /\ t.entry[b].disposed \in BOOLEAN
    BY <2>1 DEF Trackers, Entries
  <2> QED BY <2>1, <2>2
<1>2. Settle(t, a, frame, handoff).t \in {t, u}
  BY DEF Settle, Unknown, Gives, Nothing
<1> HIDE DEF u
<1> QED BY <1>1, <1>2

\* Only what waits is settled.
LEMMA SettleWaitingOthers ==
  ASSUME NEW t, NEW tr, NEW g, Synced(t, tr, g), NEW frame, NEW handoff,
         NEW b \in Plays \ Waiting(t), ~t.entry[b].disposed
  PROVE  ~SettleWaiting(t, frame, handoff).t.entry[b].disposed
<1> DEFINE a == LastWaiting(t)
           u == Disposed(t, Waiting(t) \ {a})
<1>1. t \in Trackers
  BY DEF Synced
<1>2. CASE Waiting(t) = {}
  BY <1>2 DEF SettleWaiting, Nothing, Gives
<1>3. CASE Waiting(t) # {}
  <2>1. a \in Plays /\ a # b
    BY <1>3, WaitingFacts
  <2>2. u \in Trackers /\ ~u.entry[b].disposed
    BY <1>1, DisposedFacts DEF Settled
  <2>3. SettleWaiting(t, frame, handoff).t = Settle(u, a, frame, handoff).t
    BY <1>3 DEF SettleWaiting, Then, Unknown, Gives
  <2> HIDE DEF a, u
  <2> QED BY <2>1, <2>2, <2>3, SettleOthers
<1> QED BY <1>2, <1>3

\* The announcement of an execution: what waits is settled by this frame.
LEMMA BeforeExecutionSync ==
  ASSUME NEW t, NEW tr, NEW g, Synced(t, tr, g), Pending(t, g),
         NEW a \in Plays, t.entry[a].held,
         a \in g.fresh, a \notin g.seen, a \in g.await, NEW frame \in {NoFrame, g.seen},
         NEW h, h = [g EXCEPT !.fresh = g.fresh \ {a}]
  PROVE  LET m == BeforeExecution(t, a, frame)
         IN /\ Reaches(tr, m, h) /\ Pending(m.t, h)
            /\ m.t.entry[a].held /\ ~HasStarted(m.t, a)
            /\ m.t.entry[a].pre = frame
            /\ ~t.entry[a].disposed => ~m.t.entry[a].disposed
<1> DEFINE m == SettleWaiting(t, frame, TRUE)
           n == Boundary(m.t, a, frame)
<1>1. BeforeExecution(t, a, frame) = Gives(n.t, m.rows \o n.rows)
  BY DEF BeforeExecution, Then
<1>2. t \in Trackers /\ tr \in Seq(TraceRows) /\ g \in Moments /\ ~HasStarted(t, a)
  BY DEF Synced, Begun
<1>3. Reaches(tr, m, g) /\ Settled(t, m.t)
  BY SettleWaitingSync
<1>4. ~t.entry[a].disposed => ~m.t.entry[a].disposed
  <2>1. a \notin Waiting(t)
    BY <1>2 DEF Waiting, Waits
  <2> HIDE DEF m
  <2> QED BY <2>1, SettleWaitingOthers DEF m
<1> HIDE DEF m
<1>5. m.rows \in Seq(TraceRows) /\ Synced(m.t, tr \o m.rows, g) /\ Pending(m.t, g)
  BY <1>3, SettledPending DEF Reaches
<1>6. m.t.entry[a].held
  BY <1>3, LaterOpen
<1>7. /\ Reaches(tr \o m.rows, n, h)
      /\ n.t \in Trackers /\ n.t.order = m.t.order /\ ~HasStarted(m.t, a)
      /\ n.t.entry[a].held /\ n.t.entry[a].pre = frame
      /\ n.t.entry[a].disposed = m.t.entry[a].disposed
      /\ n.t.entry[a].finished = m.t.entry[a].finished
      /\ n.t.entry[a].commit = m.t.entry[a].commit
      /\ \A b \in Plays \ {a} : n.t.entry[b] = m.t.entry[b]
  BY <1>5, <1>6, BoundarySync
<1> HIDE DEF n
<1>8. \A b : HasStarted(n.t, b) <=> HasStarted(m.t, b)
  BY <1>7 DEF HasStarted
<1>9. Pending(n.t, h)
  <2>1. h.seen = g.seen /\ h.await = g.await /\ h.refused = g.refused
    BY <1>2 DEF Moments
  <2> SUFFICES ASSUME NEW b \in Plays, n.t.entry[b].held, ~n.t.entry[b].disposed
               PROVE  /\ Alone(n.t, b, h)
                      /\ b \notin h.await => HasStarted(n.t, b)
                      /\ cast[b] = "game" /\ n.t.entry[b].finished => n.t.entry[b].commit
    BY DEF Pending
  <2>2. CASE b = a
    BY <1>5, <1>6, <1>7, <1>8, <2>1, <2>2 DEF Pending, Alone
  <2>3. CASE b # a
    BY <1>5, <1>7, <1>8, <2>1, <2>3 DEF Pending, Alone
  <2> QED BY <2>2, <2>3
<1>10. Reaches(tr, Gives(n.t, m.rows \o n.rows), h)
  BY <1>2, <1>5, <1>7, ThenSync
<1>11. Gives(n.t, m.rows \o n.rows).t = n.t
  BY DEF Gives
<1> QED BY <1>1, <1>4, <1>7, <1>8, <1>9, <1>10, <1>11

LEMMA OrderGrows ==
  ASSUME NEW q \in Seq(Plays), NEW a \in Plays
  PROVE  /\ Append(q, a) \in Seq(Plays) /\ Last(Append(q, a)) = a
         /\ \A b : Contains(Append(q, a), b) <=> Contains(q, b) \/ b = a
<1> DEFINE p == Append(q, a)
           n == Len(q)
<1>1. /\ p \in Seq(Plays) /\ Len(p) = n + 1 /\ n \in Nat
      /\ \A i \in 1 .. n : p[i] = q[i]
      /\ p[n + 1] = a
  BY AppendProperties, LenProperties
<1> HIDE DEF p, n
<1>2. Last(p) = a
  BY <1>1 DEF Last
<1>3. ASSUME NEW b PROVE Contains(p, b) <=> Contains(q, b) \/ b = a
  <2>1. Contains(q, b) \/ b = a => Contains(p, b)
    <3>1. 1 .. n \subseteq 1 .. n + 1 /\ n + 1 \in 1 .. n + 1
      BY <1>1
    <3> QED BY <1>1, <3>1 DEF Contains, n
  <2>2. Contains(p, b) => Contains(q, b) \/ b = a
    <3>1. \A i \in 1 .. n + 1 : i \in 1 .. n \/ i = n + 1
      BY <1>1
    <3> QED BY <1>1, <3>1 DEF Contains, n
  <2> QED BY <2>1, <2>2
<1> QED BY <1>1, <1>2, <1>3 DEF p

LEMMA StartedSync ==
  ASSUME NEW t, NEW tr, NEW g, Synced(t, tr, g), NEW a \in Plays, t.entry[a].held,
         a \notin g.seen, a \notin g.over, NEW h, Shift(g, h), a \in h.seen
  PROVE  LET m == Started(t, a)
         IN /\ Reaches(tr, m, h)
            /\ m.t \in Trackers /\ m.t.entry = t.entry /\ Last(m.t.order) = a
            /\ \A b : HasStarted(m.t, b) <=> HasStarted(t, b) \/ b = a
<1> DEFINE u == [t EXCEPT !.order = Append(t.order, a)]
           r == Row("started", a)
           w == tr \o <<r>>
           N == Len(tr)
<1>1. /\ t \in Trackers /\ tr \in Seq(TraceRows) /\ g \in Moments /\ t.order \in Seq(Plays)
      /\ HeldRows(t, tr, a) /\ StartRows(t, tr, a) /\ BoundaryRows(t, tr, a)
      /\ EndRows(t, tr, a) /\ LifeRows(t, tr, a) /\ Begun(t, tr, a, g)
  BY DEF Synced, Trackers
<1>2. ~HasStarted(t, a) /\ At(tr, a, {"started"}) = {}
  BY <1>1 DEF Begun, StartRows
<1>3. Started(t, a) = Gives(u, <<r>>)
  BY <1>2 DEF Started
<1>4. /\ u \in Trackers /\ u.entry = t.entry /\ u.order = Append(t.order, a)
  <2>1. Append(t.order, a) \in Seq(Plays)
    BY <1>1, OrderGrows
  <2> QED BY <1>1, <2>1 DEF Trackers
<1>5. Last(u.order) = a /\ \A b : HasStarted(u, b) <=> HasStarted(t, b) \/ b = a
  BY <1>1, <1>4, OrderGrows DEF HasStarted
<1>6. r \in TraceRows /\ r.act = a /\ r.kind = "started"
  <2>1. "started" \in RowKinds
    BY DEF RowKinds
  <2> QED BY <2>1, RowFacts
<1>7. Synced(t, tr, h)
  BY SyncedShift
<1> HIDE DEF u, r
<1>0. w = tr \o <<r>>
  OBVIOUS
<1> HIDE DEF w
<1>8. /\ w \in Seq(TraceRows) /\ N \in Nat /\ <<r>> \in Seq(TraceRows)
      /\ \A i \in DOMAIN tr : i \in DOMAIN w /\ w[i] = tr[i] /\ i \in Nat /\ i < N + 1
      /\ N + 1 \in DOMAIN w /\ w[N + 1] = r
      /\ \A k \in DOMAIN w : k \in DOMAIN tr \/ k = N + 1
  BY <1>0, <1>1, <1>6, OneMore
<1>9. At(w, a, {"started"}) = {N + 1}
  <2>1. "started" \in {"started"}
    OBVIOUS
  <2>2. /\ N + 1 \in At(w, a, {"started"})
        /\ \A k \in At(w, a, {"started"}) : k \in At(tr, a, {"started"}) \/ k = N + 1
    BY <1>0, <1>1, <1>6, <2>1, OneMoreAt
  <2> QED BY <1>2, <2>2
<1>10. ASSUME NEW K, "started" \notin K PROVE At(w, a, K) = At(tr, a, K)
  BY <1>0, <1>1, <1>6, <1>10, OneMoreAt
<1>11. ASSUME NEW b, b # a PROVE At(w, b, {"started"}) = At(tr, b, {"started"})
  BY <1>0, <1>1, <1>6, <1>11, OneMoreAt
<1>12. \A b : At(tr, b, {"started"}) \subseteq At(w, b, {"started"})
  <2>1. ASSUME NEW b PROVE At(tr, b, {"started"}) \subseteq At(w, b, {"started"})
    BY <1>0, <1>1, <1>6, OneMoreAt
  <2> QED BY <2>1
<1>13. /\ At(w, a, {"accepted"}) = At(tr, a, {"accepted"})
       /\ At(w, a, {"boundary"}) = At(tr, a, {"boundary"})
       /\ At(w, a, {"finished"}) = At(tr, a, {"finished"})
       /\ At(w, a, {"paused"}) = At(tr, a, {"paused"})
       /\ At(w, a, {"continued"}) = At(tr, a, {"continued"})
       /\ Disposition(w, a) = Disposition(tr, a)
  <2>1. /\ "started" \notin {"accepted"} /\ "started" \notin {"boundary"}
        /\ "started" \notin {"finished"} /\ "started" \notin {"paused"}
        /\ "started" \notin {"continued"} /\ "started" \notin Dispositions
    BY DEF Dispositions
  <2> QED BY <1>10, <2>1 DEF Disposition
<1> HIDE DEF N
<1>16. HeldRows(u, w, a)
  <2>1. PICK i \in At(tr, a, {"accepted"}) : \A j \in DOMAIN tr :
          tr[j].act = a => i <= j /\ (tr[j].kind = "accepted" => j = i)
    BY <1>1 DEF HeldRows
  <2>2. i \in At(w, a, {"accepted"}) /\ i \in DOMAIN tr
    BY <1>13, <2>1 DEF At
  <2>3. \A j \in DOMAIN w : w[j].act = a => i <= j /\ (w[j].kind = "accepted" => j = i)
    BY <1>6, <1>8, <2>1, <2>2
  <2> QED BY <1>4, <2>2, <2>3 DEF HeldRows
<1>17. StartRows(u, w, a)
  BY <1>5, <1>9 DEF StartRows
<1>18. BoundaryRows(u, w, a)
  <2>1. \A i \in At(tr, a, {"boundary"}) : i \in DOMAIN tr
    BY DEF At
  <2> QED BY <1>1, <1>4, <1>8, <1>9, <1>13, <2>1 DEF BoundaryRows
<1>19. EndRows(u, w, a)
  BY <1>1, <1>4, <1>13 DEF EndRows
<1>20. LifeRows(u, w, a)
  BY <1>1, <1>4, <1>13 DEF LifeRows
<1>21. Begun(u, w, a, h)
  BY <1>1, <1>4, <1>13 DEF Begun, Shift
<1>22. ASSUME NEW b \in Plays, b # a
       PROVE /\ HeldRows(u, w, b) /\ StartRows(u, w, b) /\ BoundaryRows(u, w, b)
             /\ EndRows(u, w, b) /\ LifeRows(u, w, b) /\ Begun(u, w, b, h)
  <2>1. u.entry[b] = t.entry[b] /\ (HasStarted(u, b) <=> HasStarted(t, b)) /\ b # r.act
    BY <1>4, <1>5, <1>6, <1>22
  <2> QED BY <1>0, <1>6, <1>7, <2>1, OthersKept
<1>23. LastStart(u, w)
  <2>1. N + 1 \in At(w, Last(u.order), {"started"})
    BY <1>5, <1>9
  <2>2. \A j \in DOMAIN w : j <= N + 1
    BY <1>8
  <2> QED BY <2>1, <2>2 DEF LastStart
<1>24. ASSUME NEW i \in DOMAIN tr PROVE RowValid(w, i, h) /\ RowPure(w, i, h)
  <2>1. RowValid(tr, i, g) /\ RowPure(tr, i, g) /\ w[i] = tr[i]
    BY <1>8 DEF Synced, PureRows
  <2>2. tr[i].kind = "proved" => ProofValid(w, i)
    <3>1. SUFFICES ASSUME tr[i].kind = "proved" PROVE ProofValid(w, i)
      OBVIOUS
    <3>2. ProofValid(tr, i) /\ At(tr, tr[i].act, {"started"}) # {}
      BY <2>1, <3>1 DEF RowValid, ProofValid
    <3>3. At(<<r>>, tr[i].act, {"started"}) = {}
      BY <1>2, <1>6, <3>2, OneRow
    <3> QED BY <1>0, <1>1, <1>8, <3>2, <3>3, ProofStays
  <2>3. tr[i].kind = "cancelled_before" =>
          At(w, tr[i].act, {"started"}) = {} /\ tr[i].act \in h.over
    BY <1>11, <2>1 DEF RowValid, Shift
  <2>4. tr[i].kind \in {"cancelled_after", "aborted"} => At(w, tr[i].act, {"started"}) # {}
    BY <1>12, <2>1 DEF RowValid
  <2>5. RowPure(w, i, h)
    <3> SUFFICES ASSUME tr[i].kind = "proved"
                 PROVE  /\ tr[i].next \subseteq h.seen
                        /\ tr[i].act \in tr[i].next \ tr[i].pre
                        /\ \A b \in (tr[i].next \ tr[i].pre) \ {tr[i].act} :
                             At(w, b, {"started"}) = {} /\ b \notin h.refused
      BY <2>1 DEF RowPure
    <3>1. /\ tr[i].next \subseteq g.seen
          /\ tr[i].act \in tr[i].next \ tr[i].pre
          /\ \A b \in (tr[i].next \ tr[i].pre) \ {tr[i].act} :
               At(tr, b, {"started"}) = {} /\ b \notin g.refused
      BY <2>1 DEF RowPure
    <3>2. \A b \in tr[i].next : b # a /\ b \in g.seen
      BY <3>1
    <3> QED BY <1>11, <3>1, <3>2 DEF Shift
  <2> QED BY <2>1, <2>2, <2>3, <2>4, <2>5 DEF RowValid
<1>25. RowValid(w, N + 1, h) /\ RowPure(w, N + 1, h)
  BY <1>6, <1>8 DEF RowValid, RowPure
<1>26. Synced(u, w, h)
  BY <1>4, <1>8, <1>16, <1>17, <1>18, <1>19, <1>20, <1>21, <1>22, <1>23, <1>24, <1>25
     DEF Synced, PureRows, Shift
<1>27. Reaches(tr, Gives(u, <<r>>), h) /\ Gives(u, <<r>>).t = u
  <2> DEFINE rows == <<r>>
  <2>1. rows \in Seq(TraceRows) /\ Synced(u, tr \o rows, h)
    BY <1>0, <1>8, <1>26
  <2> HIDE DEF rows
  <2>2. Reaches(tr, Gives(u, rows), h) /\ Gives(u, rows).t = u
    BY <2>1, GivesReaches
  <2> QED BY <2>2 DEF rows
<1> QED BY <1>3, <1>4, <1>5, <1>27

\* What starts is alone with its own effect since the frame before it.
LEMMA StartedPending ==
  ASSUME NEW t, NEW u, NEW g, NEW h, Pending(t, g), NEW a \in Plays,
         u.entry = t.entry, Last(u.order) = a,
         \A b : HasStarted(u, b) <=> HasStarted(t, b) \/ b = a,
         t.entry[a].disposed \/ t.entry[a].pre \in {NoFrame, g.seen},
         h.seen = g.seen \cup {a}, g.await \subseteq h.await \cup {a}
  PROVE  Pending(u, h)
  BY DEF Pending, Alone

\* An input that acts at once is accepted, bounded, started and finished.
LEMMA DirectRootSync ==
  ASSUME NEW t, NEW tr, NEW g, Synced(t, tr, g), Pending(t, g), NEW a \in Plays,
         a \in g.new, a \in g.fresh, a \in g.await, a \notin g.seen, a \notin g.over,
         cast[a] # "game", NEW h \in Moments, h.seen = g.seen \cup {a},
         h.new = g.new \ {a}, h.fresh = g.fresh \ {a}, h.await = g.await \ {a},
         g.over \subseteq h.over, h.refused \subseteq g.refused
  PROVE  LET m == DirectRoot(t, a, g.seen)
         IN /\ Reaches(tr, m, h) /\ Pending(m.t, h)
            /\ HasStarted(m.t, a) /\ ~m.t.entry[a].disposed
            /\ cast[a] # "task" => m.t.entry[a].finished
<1> DEFINE g1 == [g EXCEPT !.new = g.new \ {a}]
           g2 == [g1 EXCEPT !.fresh = g1.fresh \ {a}]
           A == Accept(t, a)
           B == BeforeExecution(A.t, a, g.seen)
           C == Started(B.t, a)
           D == IF cast[a] = "task" THEN Nothing(C.t) ELSE Finished(C.t, a)
           m1 == Gives(B.t, A.rows \o B.rows)
           m2 == Gives(C.t, m1.rows \o C.rows)
           m3 == Gives(D.t, m2.rows \o D.rows)
<1>1. DirectRoot(t, a, g.seen) = m3
  BY DEF DirectRoot, Then, Gives
<1>2. tr \in Seq(TraceRows) /\ g \in Moments /\ ~t.entry[a].held
  BY DEF Synced, Begun
<1>3. /\ g1 \in Moments /\ g1.new = g.new \ {a} /\ g1.seen = g.seen /\ g1.fresh = g.fresh
      /\ g1.await = g.await /\ g1.over = g.over /\ g1.refused = g.refused
  BY <1>2 DEF Moments
<1>0. g1 = [g EXCEPT !.new = g.new \ {a}]
  OBVIOUS
<1> HIDE DEF g1
<1>4. /\ g2 \in Moments /\ g2.new = g.new \ {a} /\ g2.seen = g.seen
      /\ g2.fresh = g.fresh \ {a}
      /\ g2.await = g.await /\ g2.over = g.over /\ g2.refused = g.refused
      /\ g2 = [g1 EXCEPT !.fresh = g1.fresh \ {a}]
  BY <1>3 DEF Moments
<1> HIDE DEF g2
<1>5. /\ Reaches(tr, A, g1)
      /\ A.t \in Trackers /\ A.t.order = t.order /\ ~HasStarted(t, a)
      /\ A.t.entry[a].held /\ A.t.entry[a].pre = NoFrame
      /\ ~A.t.entry[a].disposed /\ ~A.t.entry[a].finished
      /\ \A b \in Plays \ {a} : A.t.entry[b] = t.entry[b]
  BY <1>0, <1>2, AcceptSync
<1> HIDE DEF A
<1>6. A.rows \in Seq(TraceRows) /\ Synced(A.t, tr \o A.rows, g1)
  BY <1>5 DEF Reaches
<1>7. Pending(A.t, g1)
  <2>1. \A b : HasStarted(A.t, b) <=> HasStarted(t, b)
    BY <1>5 DEF HasStarted
  <2> QED BY <1>3, <1>5, <2>1 DEF Pending, Alone
<1>8. /\ Reaches(tr \o A.rows, B, g2) /\ Pending(B.t, g2)
      /\ B.t.entry[a].held /\ ~HasStarted(B.t, a) /\ B.t.entry[a].pre = g.seen
      /\ ~B.t.entry[a].disposed
  <2>1. g.seen \in {NoFrame, g1.seen}
    BY <1>3
  <2>2. a \in g1.fresh /\ a \notin g1.seen /\ a \in g1.await
    BY <1>3
  <2> QED BY <1>4, <1>5, <1>6, <1>7, <2>1, <2>2, BeforeExecutionSync
<1> HIDE DEF B
<1>9. Reaches(tr, m1, g2) /\ m1.t = B.t
  BY <1>2, <1>6, <1>8, ThenSync DEF Gives
<1> HIDE DEF m1
<1>10. m1.rows \in Seq(TraceRows) /\ Synced(B.t, tr \o m1.rows, g2)
  BY <1>9 DEF Reaches
<1>11. Shift(g2, h)
  BY <1>4 DEF Shift
<1>12. /\ Reaches(tr \o m1.rows, C, h)
       /\ C.t \in Trackers /\ C.t.entry = B.t.entry /\ Last(C.t.order) = a
       /\ \A b : HasStarted(C.t, b) <=> HasStarted(B.t, b) \/ b = a
  <2>1. a \notin g2.seen /\ a \notin g2.over /\ a \in h.seen
    BY <1>4
  <2> QED BY <1>8, <1>10, <1>11, <2>1, StartedSync
<1> HIDE DEF C
<1>13. Pending(C.t, h)
  <2>1. /\ B.t.entry[a].pre \in {NoFrame, g2.seen}
        /\ h.seen = g2.seen \cup {a} /\ g2.await \subseteq h.await \cup {a}
    BY <1>4, <1>8
  <2> QED BY <1>8, <1>12, <2>1, StartedPending
<1>14. Reaches(tr, m2, h) /\ m2.t = C.t
  BY <1>2, <1>10, <1>12, ThenSync DEF Gives
<1> HIDE DEF m2
<1>15. m2.rows \in Seq(TraceRows) /\ Synced(C.t, tr \o m2.rows, h)
  BY <1>14 DEF Reaches
<1>16. /\ Reaches(tr \o m2.rows, D, h) /\ Pending(D.t, h)
       /\ HasStarted(D.t, a) /\ ~D.t.entry[a].disposed
       /\ cast[a] # "task" => D.t.entry[a].finished
  <2>1. CASE cast[a] = "task"
    <3>1. Reaches(tr \o m2.rows, Nothing(C.t), h) /\ Nothing(C.t).t = C.t
      BY <1>15, NothingSync
    <3> QED BY <1>8, <1>12, <1>13, <2>1, <3>1
  <2>2. CASE cast[a] # "task"
    <3> DEFINE F == Finished(C.t, a)
    <3>1. /\ Reaches(tr \o m2.rows, F, h)
          /\ F.t \in Trackers /\ F.t.order = C.t.order
          /\ F.t.entry[a].held /\ F.t.entry[a].pre = C.t.entry[a].pre
          /\ F.t.entry[a].finished /\ F.t.entry[a].disposed = C.t.entry[a].disposed
          /\ \A b \in Plays \ {a} : F.t.entry[b] = C.t.entry[b]
      BY <1>8, <1>12, <1>15, FinishedSync
    <3> HIDE DEF F
    <3>2. Later(C.t, F.t)
      <4>1. ASSUME NEW b \in Plays \ {a}
            PROVE  F.t.entry[b] = C.t.entry[b]
        BY <3>1
      <4>2. /\ F.t.entry[a].held = C.t.entry[a].held
            /\ F.t.entry[a].pre = C.t.entry[a].pre
            /\ F.t.entry[a].disposed = C.t.entry[a].disposed
        BY <1>8, <1>12, <3>1
      <4> QED BY <3>1, <4>1, <4>2 DEF Later
    <3>3. Pending(F.t, h)
      BY <1>13, <3>2, LaterPending
    <3>4. D = F
      BY <2>2 DEF F
    <3>5. HasStarted(F.t, a)
      BY <1>12, <3>1 DEF HasStarted
    <3> HIDE DEF D
    <3> QED BY <1>8, <1>12, <3>1, <3>3, <3>4, <3>5
  <2> QED BY <2>1, <2>2
<1> HIDE DEF D
<1>17. Reaches(tr, m3, h) /\ m3.t = D.t
  BY <1>2, <1>15, <1>16, ThenSync DEF Gives
<1> HIDE DEF m3
<1> QED BY <1>1, <1>16, <1>17

-----------------------------------------------------------------------------
(* Persistence.                                                             *)

\* What is left of a step: its batch, inputs given up, or a stream that failed.
IsKept(rec, m, r) ==
  /\ r.stream = "healthy" /\ r.t = m.t /\ r.trace = rec.trace \o m.rows
IsGivenUp(rec, S, r, g) ==
  /\ r.stream = "healthy" /\ Settled(rec.t, r.t) /\ Synced(r.t, r.trace, g)
  /\ \A a \in S : r.t.entry[a].held => r.t.entry[a].disposed
IsFailed(rec, r) ==
  /\ r.stream # "healthy" /\ r.t = rec.t /\ r.trace = rec.trace

LEMMA KeptFacts ==
  ASSUME NEW rec \in Steps, NEW m, m.t \in Trackers, rec.trace \o m.rows \in Seq(TraceRows)
  PROVE  /\ Kept(rec, m) \in Steps
         /\ Kept(rec, m).t = m.t /\ Kept(rec, m).trace = rec.trace \o m.rows
         /\ Kept(rec, m).stream = rec.stream /\ Kept(rec, m).ok
         /\ Kept(rec, m).cost = rec.cost
  BY DEF Kept, Steps

LEMMA MishapFacts ==
  ASSUME NEW rec \in Steps
  PROVE  /\ Mishap(rec) \in Steps /\ ~Mishap(rec).ok
         /\ Mishap(rec).t = rec.t /\ Mishap(rec).trace = rec.trace
         /\ Mishap(rec).stream = rec.stream
<1>1. Mishap(rec) = [rec EXCEPT !.cost = rec.cost + 1, !.ok = FALSE]
  BY DEF Mishap
<1>2. rec.cost + 1 \in Nat
  BY DEF Steps
<1> QED BY <1>1, <1>2 DEF Steps

LEMMA RefusedFacts ==
  ASSUME NEW rec \in Steps, NEW r, r = [rec EXCEPT !.ok = FALSE]
  PROVE  /\ r \in Steps /\ ~r.ok
         /\ r.t = rec.t /\ r.trace = rec.trace /\ r.stream = rec.stream
  BY DEF Steps

LEMMA LostFacts ==
  ASSUME NEW rec \in Steps, NEW r \in Lost(rec)
  PROVE  r \in Steps /\ ~r.ok /\ IsFailed(rec, r)
<1>1. PICK s \in {"disabled", "torn"} : r = [Mishap(rec) EXCEPT !.stream = s]
  BY DEF Lost
<1>2. Mishap(rec) \in Steps /\ ~Mishap(rec).ok
      /\ Mishap(rec).t = rec.t /\ Mishap(rec).trace = rec.trace
  BY MishapFacts
<1> QED BY <1>1, <1>2 DEF Steps, Streams, IsFailed

LEMMA PersistCases ==
  ASSUME NEW rec \in Steps, NEW g, Synced(rec.t, rec.trace, g), NEW m,
         NEW S \in SUBSET Plays, rec.stream = "healthy" => Reaches(rec.trace, m, g),
         NEW r \in PersistOrUnknown(rec, m, S)
  PROVE  /\ r \in Steps
         /\ \/ rec.stream = "healthy" /\ IsKept(rec, m, r)
            \/ /\ rec.stream = "healthy"
               /\ IsGivenUp(rec, S \cup {m.rows[i].act : i \in DOMAIN m.rows}, r, g)
            \/ IsFailed(rec, r)
<1> DEFINE told == S \cup {m.rows[i].act : i \in DOMAIN m.rows}
           acts == {a \in told : rec.t.entry[a].held}
           left == acts \cap Unresolved(rec.t)
           lone == Mishap(rec)
           back == Kept([rec EXCEPT !.cost = @ + 1], Unknown(rec.t, left))
<1>1. CASE rec.stream # "healthy"
  <2>1. r = [rec EXCEPT !.ok = FALSE]
    BY <1>1 DEF PersistOrUnknown
  <2> QED BY <1>1, <2>1, RefusedFacts DEF IsFailed
<1>2. CASE rec.stream = "healthy"
  <2>1. m.t \in Trackers /\ rec.trace \o m.rows \in Seq(TraceRows)
    BY <1>2 DEF Reaches, Synced
  <2>2. r = Kept(rec, m) \/ r \in Lost(rec) \/ r = (IF left = {} THEN lone ELSE back)
    <3> HIDE DEF lone, back
    <3> QED BY <1>2 DEF PersistOrUnknown, lone, back
  <2>3. CASE r = Kept(rec, m)
    BY <1>2, <2>1, <2>3, KeptFacts DEF IsKept
  <2>4. CASE r \in Lost(rec)
    BY <2>4, LostFacts
  <2>5. CASE left = {} /\ r = lone
    <3>1. \A a \in told : rec.t.entry[a].held => rec.t.entry[a].disposed
      <4>1. m.rows \in Seq(TraceRows)
        BY <1>2 DEF Reaches
      <4>2. told \subseteq Plays
        <5>1. \A i \in DOMAIN m.rows : m.rows[i] \in TraceRows
          BY <4>1
        <5> QED BY <5>1 DEF TraceRows
      <4> QED BY <2>5, <4>2 DEF Unresolved
    <3>2. /\ r \in Steps /\ r.t = rec.t /\ r.trace = rec.trace /\ r.stream = "healthy"
      BY <1>2, <2>5, MishapFacts
    <3>3. Settled(rec.t, r.t)
      BY <3>2, SettledOnce DEF Steps
    <3> HIDE DEF told
    <3>4. IsGivenUp(rec, told, r, g)
      BY <3>1, <3>2, <3>3 DEF IsGivenUp
    <3> QED BY <1>2, <3>2, <3>4 DEF told
  <2>6. CASE left # {} /\ r = back
    <3> DEFINE q == [rec EXCEPT !.cost = @ + 1]
               n == Unknown(rec.t, left)
    <3>1. q \in Steps /\ q.trace = rec.trace /\ q.stream = "healthy"
      BY <1>2 DEF Steps
    <3>2. left \in SUBSET Unresolved(rec.t)
      OBVIOUS
    <3>3. told \subseteq Plays
      <4>1. m.rows \in Seq(TraceRows)
        BY <1>2 DEF Reaches
      <4>2. \A i \in DOMAIN m.rows : m.rows[i] \in TraceRows
        BY <4>1
      <4> QED BY <4>2 DEF TraceRows
    <3>4. \A a \in told : rec.t.entry[a].held => rec.t.entry[a].disposed \/ a \in left
      BY <3>3 DEF Unresolved
    <3> HIDE DEF left, told
    <3>5. Reaches(rec.trace, n, g) /\ Settled(rec.t, n.t)
      BY <3>2, UnknownSync
    <3>6. rec.t \in Trackers /\ n.t = Disposed(rec.t, left)
      BY DEF Steps, Unknown, Gives
    <3> HIDE DEF n, q
    <3>7. n.t \in Trackers /\ rec.trace \o n.rows \in Seq(TraceRows)
      BY <3>5 DEF Reaches, Synced
    <3>8. r = Kept(q, n)
      BY <2>6 DEF q, n
    <3>9. /\ r \in Steps /\ r.t = n.t /\ r.trace = rec.trace \o n.rows
          /\ r.stream = "healthy"
      BY <3>1, <3>7, <3>8, KeptFacts
    <3>10. \A a \in told : r.t.entry[a].held => r.t.entry[a].disposed
      BY <3>3, <3>4, <3>6, <3>9, DisposedFacts DEF Settled
    <3>11. IsGivenUp(rec, told, r, g)
      BY <3>5, <3>9, <3>10 DEF IsGivenUp, Reaches
    <3> QED BY <1>2, <3>9, <3>11 DEF told
  <2> HIDE DEF left, lone, back
  <2> QED BY <2>2, <2>3, <2>4, <2>5, <2>6
<1> QED BY <1>1, <1>2

LEMMA DisableCases ==
  ASSUME NEW rec \in Steps, NEW g, NEW m,
         rec.stream = "healthy" => Reaches(rec.trace, m, g),
         NEW r \in PersistOrDisable(rec, m)
  PROVE  /\ r \in Steps
         /\ \/ rec.stream = "healthy" /\ IsKept(rec, m, r)
            \/ IsFailed(rec, r) /\ ~r.ok
<1>1. CASE rec.stream # "healthy"
  <2>1. r = [rec EXCEPT !.ok = FALSE]
    BY <1>1 DEF PersistOrDisable
  <2> QED BY <1>1, <2>1, RefusedFacts DEF IsFailed
<1>2. CASE rec.stream = "healthy"
  <2>1. m.t \in Trackers /\ rec.trace \o m.rows \in Seq(TraceRows)
    BY <1>2 DEF Reaches, Synced
  <2>2. r = Kept(rec, m) \/ r \in Lost(rec)
    BY <1>2 DEF PersistOrDisable
  <2>3. CASE r = Kept(rec, m)
    BY <1>2, <2>1, <2>3, KeptFacts DEF IsKept
  <2>4. CASE r \in Lost(rec)
    BY <2>4, LostFacts
  <2> QED BY <2>2, <2>3, <2>4
<1> QED BY <1>1, <1>2

LEMMA KeptArrives ==
  ASSUME NEW rec, NEW m, NEW r \in Steps, NEW g, IsKept(rec, m, r),
         Reaches(rec.trace, m, g), Pending(m.t, g)
  PROVE  Arrived(r, g)
  BY DEF IsKept, Reaches, Arrived, Reached

LEMMA FailedArrives ==
  ASSUME NEW rec, NEW r \in Steps, NEW g, IsFailed(rec, r), Synced(rec.t, rec.trace, g)
  PROVE  Arrived(r, g)
  BY DEF IsFailed, Arrived, Reached

\* One batch about inputs which, given up, leave nothing to wait for.
LEMMA PersistArrives ==
  ASSUME NEW rec \in Steps, NEW g, Synced(rec.t, rec.trace, g), NEW m,
         NEW S \in SUBSET Plays,
         rec.stream = "healthy" => Reaches(rec.trace, m, g) /\ Pending(m.t, g),
         rec.stream = "healthy" =>
           \A u : Settled(rec.t, u) /\ (\A a \in S : u.entry[a].held => u.entry[a].disposed)
                    => Pending(u, g),
         NEW r \in PersistOrUnknown(rec, m, S)
  PROVE  Arrived(r, g)
<1> DEFINE T == S \cup {m.rows[i].act : i \in DOMAIN m.rows}
<1>1. /\ r \in Steps
      /\ \/ rec.stream = "healthy" /\ IsKept(rec, m, r)
         \/ rec.stream = "healthy" /\ IsGivenUp(rec, T, r, g)
         \/ IsFailed(rec, r)
  BY PersistCases
<1>2. S \subseteq T
  OBVIOUS
<1> HIDE DEF T
<1>3. CASE rec.stream = "healthy" /\ IsGivenUp(rec, T, r, g)
  <2>1. Settled(rec.t, r.t) /\ (\A a \in S : r.t.entry[a].held => r.t.entry[a].disposed)
    BY <1>2, <1>3 DEF IsGivenUp
  <2>2. Pending(r.t, g)
    BY <1>3, <2>1
  <2> QED BY <1>1, <1>3, <2>2 DEF IsGivenUp, Arrived, Reached
<1> QED BY <1>1, <1>3, KeptArrives, FailedArrives

\* The same, when everything open may wait at this moment.
LEMMA PersistHere ==
  ASSUME NEW rec, NEW g, Arrived(rec, g), NEW m, NEW S \in SUBSET Plays,
         rec.stream = "healthy" => Reaches(rec.trace, m, g) /\ Pending(m.t, g),
         NEW r \in PersistOrUnknown(rec, m, S)
  PROVE  Arrived(r, g)
<1>1. rec \in Steps /\ Synced(rec.t, rec.trace, g)
  BY DEF Arrived, Reached
<1>2. rec.stream = "healthy" =>
        \A u : Settled(rec.t, u) /\ (\A a \in S : u.entry[a].held => u.entry[a].disposed)
                 => Pending(u, g)
  BY SettledPending DEF Arrived, Reached
<1> QED BY <1>1, <1>2, PersistArrives

\* An effect that nothing is known of leaves no input open.
LEMMA EscapedArrives ==
  ASSUME NEW rec \in Steps, NEW g, Synced(rec.t, rec.trace, g), NEW r \in Escaped(rec)
  PROVE  Arrived(r, g)
<1> DEFINE m == Barrier(rec.t)
<1>1. PICK q \in PersistOrUnknown(rec, m, {}) :
        r = IF q.ok \/ q.stream = "torn" THEN q ELSE [q EXCEPT !.stream = "disabled"]
  BY DEF Escaped
<1>2. /\ Reaches(rec.trace, m, g) /\ Settled(rec.t, m.t) /\ Unresolved(m.t) = {}
  BY BarrierSync
<1>3. Pending(m.t, g)
  BY <1>2, PendingNone
<1>4. Unresolved(rec.t) \subseteq {m.rows[i].act : i \in DOMAIN m.rows}
  <2>1. Unresolved(rec.t) \in SUBSET Plays /\ m.rows = Unknowns(Unresolved(rec.t))
    BY DEF Unresolved, Barrier, Unknown, Gives
  <2> QED BY <2>1, UnknownRows
<1> HIDE DEF m
<1>5. Arrived(q, g)
  <2> DEFINE T == {} \cup {m.rows[i].act : i \in DOMAIN m.rows}
  <2>1. /\ q \in Steps
        /\ \/ rec.stream = "healthy" /\ IsKept(rec, m, q)
           \/ rec.stream = "healthy" /\ IsGivenUp(rec, T, q, g)
           \/ IsFailed(rec, q)
    BY <1>1, <1>2, PersistCases
  <2>2. Unresolved(rec.t) \subseteq T
    BY <1>4
  <2> HIDE DEF T
  <2>3. CASE IsGivenUp(rec, T, q, g)
    <3>1. Unresolved(q.t) = {}
      BY <2>2, <2>3 DEF IsGivenUp, Unresolved, Settled
    <3>2. Pending(q.t, g)
      BY <3>1, PendingNone
    <3> QED BY <2>1, <2>3, <3>2 DEF IsGivenUp, Arrived, Reached
  <2> QED BY <1>2, <1>3, <2>1, <2>3, KeptArrives, FailedArrives
<1>6. CASE r = q
  BY <1>5, <1>6
<1>7. CASE r = [q EXCEPT !.stream = "disabled"]
  <2>1. /\ r \in Steps /\ r.stream = "disabled" /\ r.t = q.t /\ r.trace = q.trace
    BY <1>5, <1>7 DEF Arrived, Steps, Streams
  <2> QED BY <1>5, <2>1 DEF Arrived, Reached
<1> QED BY <1>1, <1>6, <1>7

-----------------------------------------------------------------------------
(* The steps of the recording.                                              *)

\* No step changes what kind of input an input is.
LEMMA CastKept ==
  ASSUME NEW t, NEW tr, NEW g, cast' = cast
  PROVE  /\ Synced(t, tr, g)' <=> Synced(t, tr, g)
         /\ Pending(t, g)' <=> Pending(t, g)
<1>1. \A i : ProofValid(tr, i)' <=> ProofValid(tr, i)
  BY DEF ProofValid, NeedsCommit
<1>2. \A i : RowValid(tr, i, g)' <=> RowValid(tr, i, g)
  BY <1>1 DEF RowValid
<1>3. \A a : LifeRows(t, tr, a)' <=> LifeRows(t, tr, a)
  BY DEF LifeRows
<1>4. Synced(t, tr, g)' <=> Synced(t, tr, g)
  BY <1>2, <1>3 DEF Synced
<1>5. Pending(t, g)' <=> Pending(t, g)
  BY DEF Pending
<1> QED BY <1>4, <1>5

LEMMA StepArrives ==
  ASSUME NEW r, NEW g, Arrived(r, g), cast' = cast,
         tracker' = r.t, trace' = r.trace, stream' = r.stream, GameNow' = g
  PROVE  Arrived(Now, GameNow)'
<1>1. Synced(r.t, r.trace, g)'
  BY CastKept DEF Arrived, Reached
<1>2. r.stream = "healthy" => Pending(r.t, g)'
  BY CastKept DEF Arrived, Reached
<1>3. Synced(tracker, trace, GameNow)'
  BY <1>1
<1>4. stream' = "healthy" => Pending(tracker, GameNow)'
  BY <1>2
<1>5. Now' \in Steps
  BY DEF Now, Arrived, Steps
<1> QED BY <1>3, <1>4, <1>5 DEF Arrived, Reached, Now

\* Where the game is before and after a step about one input.
LEMMA OneMoves ==
  ASSUME GameOK, GameOK', cast' = cast, NEW a \in Plays,
         \A b \in Plays \ {a} : native'[b] = native[b] /\ scope'[b] = scope[b],
         NEW g, NEW h, g = GameNow, h = GameNow'
  PROVE  /\ g \in Moments /\ h \in Moments /\ g.seen = world /\ h.seen = world'
         /\ g.new \ {a} = h.new \ {a} /\ g.fresh \ {a} = h.fresh \ {a}
         /\ g.await \ {a} = h.await \ {a} /\ g.over \ {a} = h.over \ {a}
         /\ g.refused \ {a} = h.refused \ {a}
         /\ a \in g.new <=> native[a] \in {"idle", "sent"}
         /\ a \in h.new <=> native'[a] \in {"idle", "sent"}
         /\ a \in g.fresh <=> native[a] \in {"idle", "sent", "queued"}
         /\ a \in h.fresh <=> native'[a] \in {"idle", "sent", "queued"}
         /\ a \in g.await <=> native[a] \in {"idle", "sent", "queued"}
         /\ a \in h.await <=> native'[a] \in {"idle", "sent", "queued"}
         /\ a \in g.over <=> native[a] = "over"
         /\ a \in h.over <=> native'[a] = "over"
         /\ a \in h.refused <=> scope'[a] = "failed" /\ cast[a] # "game"
<1>1. world \in SUBSET Plays /\ world' \in SUBSET Plays
  BY DEF GameOK
<1>2. g = Moment(native, world, scope)
  BY DEF GameNow
<1>3. h = Moment(native', world', scope')
  BY DEF GameNow, Moment
<1>4. /\ g \in Moments /\ g.seen = world
      /\ g.new = {b \in Plays : native[b] \in {"idle", "sent"}}
      /\ g.fresh = {b \in Plays : native[b] \in {"idle", "sent", "queued"}}
      /\ g.await = {b \in Plays : native[b] \in {"idle", "sent", "queued"}}
      /\ g.over = {b \in Plays : native[b] = "over"}
      /\ g.refused = {b \in Plays : scope[b] = "failed" /\ cast[b] # "game"}
  BY <1>1, <1>2 DEF Moment, Moments
<1>5. /\ h \in Moments /\ h.seen = world'
      /\ h.new = {b \in Plays : native'[b] \in {"idle", "sent"}}
      /\ h.fresh = {b \in Plays : native'[b] \in {"idle", "sent", "queued"}}
      /\ h.await = {b \in Plays : native'[b] \in {"idle", "sent", "queued"}}
      /\ h.over = {b \in Plays : native'[b] = "over"}
      /\ h.refused = {b \in Plays : scope'[b] = "failed" /\ cast[b] # "game"}
  BY <1>1, <1>3 DEF Moment, Moments
<1>6. g.new \ {a} = h.new \ {a}
  BY <1>4, <1>5
<1>7. g.fresh \ {a} = h.fresh \ {a}
  BY <1>4, <1>5
<1>8. g.await \ {a} = h.await \ {a}
  BY <1>4, <1>5
<1>9. g.over \ {a} = h.over \ {a}
  BY <1>4, <1>5
<1>10. g.refused \ {a} = h.refused \ {a}
  BY <1>4, <1>5
<1> QED BY <1>4, <1>5, <1>6, <1>7, <1>8, <1>9, <1>10

LEMMA NowFacts ==
  /\ Now.t = tracker /\ Now.trace = trace /\ Now.stream = stream /\ Now.cost = 0 /\ Now.ok
  BY DEF Now

\* A recording that is closed stays as it is.
LEMMA SealedStays ==
  ASSUME Sealed, cast' = cast, trace' = trace, NEW g, NEW h, g = GameNow, h = GameNow',
         Shift(g, h)
  PROVE  Sealed'
<1>1. \A i : ProofValid(trace, i)' <=> ProofValid(trace, i)
  BY DEF ProofValid, NeedsCommit
<1>2. \A a : ActionValid(trace, a)' <=> ActionValid(trace, a)
  BY <1>1 DEF ActionValid
<1>3. Valid(trace)' <=> Valid(trace)
  BY <1>2 DEF Valid
<1>4. PureRows(trace, h)
  <2> SUFFICES ASSUME NEW i \in DOMAIN trace PROVE RowPure(trace, i, h)
    BY DEF PureRows
  <2>1. RowPure(trace, i, g)
    BY DEF Sealed, PureRows
  <2> QED BY <2>1 DEF RowPure, Shift
<1> QED BY <1>3, <1>4 DEF Sealed

\* A step of the game, whose handlers have reached `rec'.
LEMMA GameStep ==
  ASSUME RecordingInv, GameRuns, GameOK', cast' = cast, life' = life, sealed' = sealed,
         closer' \in {closer, [closer EXCEPT !["game"].at = "asked"]},
         NEW rec, tracker' = rec.t, trace' = rec.trace, stream' = rec.stream,
         mishaps' = mishaps + rec.cost, NEW g, NEW h, g = GameNow, h = GameNow',
         life # "closed" => Arrived(rec, h),
         life = "closed" => rec = Now /\ Shift(g, h)
  PROVE  RecordingInv'
<1>1. closer \in [Threads -> [at: {"off", "asked", "previewed", "written"},
                              drafts: SUBSET Plays]]
  BY DEF RecordingInv, CloseOK
<1>2. /\ closer' \in [Threads -> [at: {"off", "asked", "previewed", "written"},
                                  drafts: SUBSET Plays]]
      /\ closer'["remote"].at = "off" /\ closer'["game"].at # "previewed"
  BY <1>1 DEF RecordingInv, CloseOK, GameRuns, Threads
<1>3. stream' \in Streams /\ mishaps' \in Nat
  BY NowFacts DEF RecordingInv, CloseOK, Arrived, Steps
<1>4. CloseOK'
  BY <1>2, <1>3 DEF CloseOK, RecordingInv
<1>5. life' # "closed" => Arrived(Now, GameNow)'
  BY StepArrives
<1>6. life' = "closed" => Sealed'
  BY SealedStays, NowFacts DEF RecordingInv
<1> QED BY <1>4, <1>5, <1>6 DEF RecordingInv

LEMMA NowArrives ==
  ASSUME NEW rec, NEW g, NEW h, Arrived(rec, g), Shift(g, h),
         h.refused \cap h.seen \subseteq g.refused \cap g.seen,
         \A b \in (h.seen \ g.seen) : ~HasStarted(rec.t, b),
         \A a \in g.await \ h.await :
           rec.t.entry[a].disposed \/ ~rec.t.entry[a].held \/ HasStarted(rec.t, a)
  PROVE  Arrived(rec, h)
  BY SyncedShift, PendingShift DEF Arrived, Reached

LEMMA NowStep == ASSUME CloseOK, life # "closed" => Arrived(Now, GameNow) PROVE
  life # "closed" => /\ Now \in Steps
                     /\ Synced(tracker, trace, GameNow)
                     /\ stream = "healthy" => Pending(tracker, GameNow)
  BY NowFacts DEF Arrived, Reached

LEMMA PressStep ==
  ASSUME RecordingInv, NEW a \in Plays, Press(a)
  PROVE  RecordingInv'
<1> DEFINE g == GameNow
           h == GameNow'
<1>1. /\ GameOK /\ CloseOK /\ (life # "closed" => Arrived(Now, g))
      /\ GameRuns /\ native[a] = "idle" /\ cast[a] \in {"ui", "task"}
      /\ native' = [native EXCEPT ![a] = IF cast[a] = "task" THEN "working" ELSE "over"]
      /\ world' = world \cup {a} /\ cast' = cast /\ head' = head /\ ended' = ended
      /\ life' = life /\ closer' = closer /\ sealed' = sealed
  BY DEF RecordingInv, Press, closeVars
<1>10. PICK w \in Witnesses :
         /\ scope' = [scope EXCEPT ![a] = w]
         /\ Observe(CASE w = "held"   -> PersistOrDisable(Now, DirectRoot(tracker, a, world))
                      [] w = "failed" -> Escaped(Now)
                      [] OTHER        -> {Now})
  BY DEF Press
<1>2. PICK rec \in CASE w = "held"   -> PersistOrDisable(Now, DirectRoot(tracker, a, world))
                      [] w = "failed" -> Escaped(Now)
                      [] OTHER        -> {Now} :
        /\ tracker' = rec.t /\ trace' = rec.trace /\ stream' = rec.stream
        /\ mishaps' = mishaps + rec.cost
  BY <1>10 DEF Observe
<1>3. w \in {"held", "failed", "none"} /\ (life # "recording" => w = "none")
  BY DEF Witnesses
<1>4. /\ native \in [Plays -> NativeStates] /\ scope \in [Plays -> {"none", "held", "failed"}]
      /\ a \notin world
  BY <1>1 DEF GameOK
<1>5. GameOK'
  <2>1. native' \in [Plays -> NativeStates] /\ scope' \in [Plays -> {"none", "held", "failed"}]
    BY <1>1, <1>10, <1>3, <1>4 DEF NativeStates
  <2> QED BY <1>1, <2>1 DEF GameOK
<1>0. g = GameNow /\ h = GameNow'
  OBVIOUS
<1> HIDE DEF g, h
<1>6. /\ g \in Moments /\ h \in Moments /\ g.seen = world /\ h.seen = g.seen \cup {a}
      /\ h.new = g.new \ {a} /\ h.fresh = g.fresh \ {a} /\ h.await = g.await \ {a}
      /\ g.over \subseteq h.over
      /\ a \in g.new /\ a \in g.fresh /\ a \in g.await /\ a \notin g.seen /\ a \notin g.over
      /\ h.refused \subseteq g.refused \cup {a}
      /\ w # "failed" => h.refused \subseteq g.refused \ {a}
  <2>1. /\ \A b \in Plays \ {a} : native'[b] = native[b] /\ scope'[b] = scope[b]
        /\ native'[a] \in {"working", "over"} /\ native[a] = "idle" /\ scope'[a] = w
    BY <1>1, <1>10, <1>4
  <2>2. /\ g \in Moments /\ h \in Moments /\ g.seen = world /\ h.seen = world'
        /\ g.new \ {a} = h.new \ {a} /\ g.fresh \ {a} = h.fresh \ {a}
        /\ g.await \ {a} = h.await \ {a} /\ g.over \ {a} = h.over \ {a}
        /\ g.refused \ {a} = h.refused \ {a}
        /\ a \in g.new /\ a \notin h.new /\ a \in g.fresh /\ a \notin h.fresh
        /\ a \in g.await /\ a \notin h.await /\ a \notin g.over
        /\ a \in h.refused <=> w = "failed"
    BY <1>0, <1>1, <1>5, <2>1, OneMoves
  <2> QED BY <1>1, <1>4, <2>2
<1>7. Shift(g, h)
  BY <1>6 DEF Shift
<1>8. life = "closed" => rec = Now
  BY <1>2, <1>3
<1>9. life # "closed" => Arrived(rec, h)
  <2> SUFFICES ASSUME life # "closed" PROVE Arrived(rec, h)
    OBVIOUS
  <2>1. /\ Now \in Steps /\ Synced(tracker, trace, g)
        /\ stream = "healthy" => Pending(tracker, g)
        /\ Now.t = tracker /\ Now.trace = trace /\ Now.stream = stream
    BY <1>1, <1>0, NowStep, NowFacts
  <2>2. Synced(tracker, trace, h)
    BY <1>7, <2>1, SyncedShift
  <2>3. CASE w = "held"
    <3> DEFINE m == DirectRoot(tracker, a, g.seen)
    <3>1. rec \in PersistOrDisable(Now, m)
      BY <1>2, <1>6, <2>3
    <3>2. stream = "healthy" => Reaches(trace, m, h) /\ Pending(m.t, h)
      <4>1. h.refused \subseteq g.refused /\ cast[a] # "game"
        BY <1>1, <1>6, <2>3
      <4> QED BY <1>6, <2>1, <4>1, DirectRootSync
    <3> HIDE DEF m
    <3>3. /\ rec \in Steps
          /\ \/ stream = "healthy" /\ IsKept(Now, m, rec)
             \/ IsFailed(Now, rec)
      BY <2>1, <3>1, <3>2, DisableCases
    <3> QED BY <2>1, <2>2, <3>2, <3>3, KeptArrives, FailedArrives
  <2>4. CASE w = "failed"
    <3>1. rec \in Escaped(Now)
      BY <1>2, <2>4
    <3> QED BY <2>1, <2>2, <3>1, EscapedArrives
  <2>5. CASE w = "none"
    <3>1. rec = Now /\ h.refused \cap h.seen \subseteq g.refused \cap g.seen
      BY <1>2, <1>6, <2>5
    <3>2. ~tracker.entry[a].held /\ ~HasStarted(tracker, a)
      BY <1>6, <2>1 DEF Synced, Begun
    <3>3. Arrived(Now, g) /\ \A b \in (h.seen \ g.seen) \cup (g.await \ h.await) : b = a
      BY <1>0, <1>1, <1>6
    <3> QED BY <1>7, <2>1, <3>1, <3>2, <3>3, NowArrives
  <2> QED BY <1>3, <2>3, <2>4, <2>5
<1> QED BY <1>0, <1>1, <1>2, <1>5, <1>7, <1>8, <1>9, GameStep

\* A step that moves one input.
LEMMA GameMoves ==
  ASSUME GameOK, NEW a \in Plays, NEW x \in NativeStates,
         native' = [native EXCEPT ![a] = x], cast' = cast, ended' = ended,
         head' = head \/ head' \in [Plays -> Plays],
         scope' \in [Plays -> {"none", "held", "failed"}],
         world' \subseteq world \cup {a}, native[a] # "over",
         x \in {"idle", "sent", "queued"} => a \notin world',
         x \in {"sent", "queued", "running", "choosing", "resumed", "aborted"}
           => cast[a] = "game",
         x = "working" => cast[a] = "task"
  PROVE  GameOK' /\ native'[a] = x /\ \A b \in Plays \ {a} : native'[b] = native[b]
<1>1. /\ native \in [Plays -> NativeStates] /\ world \subseteq Plays
      /\ ended \in Seq([act: Plays, ok: BOOLEAN])
  BY DEF GameOK
<1>2. /\ native' \in [Plays -> NativeStates] /\ native'[a] = x
      /\ \A b \in Plays \ {a} : native'[b] = native[b]
  BY <1>1
<1>3. \A b \in Plays :
        /\ native'[b] \in {"idle", "sent", "queued"} => b \notin world'
        /\ native'[b] \in {"sent", "queued", "running", "choosing", "resumed", "aborted"}
             => cast'[b] = "game"
        /\ native'[b] = "working" => cast'[b] = "task"
  BY <1>2 DEF GameOK
<1>4. \A i \in DOMAIN ended : cast'[ended[i].act] = "task" /\ native'[ended[i].act] = "over"
  <2> SUFFICES ASSUME NEW i \in DOMAIN ended
               PROVE  cast'[ended[i].act] = "task" /\ native'[ended[i].act] = "over"
    OBVIOUS
  <2> DEFINE T == [act: Plays, ok: BOOLEAN]
  <2>1. ended \in Seq(T)
    BY <1>1
  <2>2. ended[i].act \in Plays
    <3>1. ended[i] \in T
      <4> HIDE DEF T
      <4> QED BY <2>1
    <3> QED BY <3>1
  <2> QED BY <1>2, <2>2 DEF GameOK
<1>5. world' \subseteq Plays
  BY <1>1
<1> QED BY <1>2, <1>3, <1>4, <1>5 DEF GameOK

LEMMA SubmitStep ==
  ASSUME RecordingInv, NEW a \in Plays, Submit(a)
  PROVE  RecordingInv'
<1> DEFINE g == GameNow
           h == GameNow'
<1>1. /\ GameOK /\ CloseOK /\ (life # "closed" => Arrived(Now, g))
      /\ GameRuns /\ native[a] = "idle" /\ cast[a] = "game"
      /\ native' = [native EXCEPT ![a] = "sent"]
      /\ world' = world /\ cast' = cast /\ head' = head /\ ended' = ended
      /\ life' = life /\ closer' = closer /\ sealed' = sealed
      /\ tracker' = tracker /\ trace' = trace /\ stream' = stream /\ mishaps' = mishaps
  BY DEF RecordingInv, Submit, closeVars, diskVars
<1>2. PICK w \in {"held", "failed", "none"} : scope' = [scope EXCEPT ![a] = w]
  BY DEF Submit, Witnesses
<1>3. scope \in [Plays -> {"none", "held", "failed"}] /\ a \notin world
  BY <1>1 DEF GameOK
<1>4. /\ scope' \in [Plays -> {"none", "held", "failed"}]
      /\ \A b \in Plays \ {a} : scope'[b] = scope[b]
  BY <1>2, <1>3
<1>5. GameOK' /\ native'[a] = "sent" /\ \A b \in Plays \ {a} : native'[b] = native[b]
  BY <1>1, <1>3, <1>4, GameMoves DEF NativeStates
<1>0. g = GameNow /\ h = GameNow'
  OBVIOUS
<1> HIDE DEF g, h
<1>6. /\ g \in Moments /\ h \in Moments /\ g.seen = world /\ h.seen = world'
      /\ g.new \ {a} = h.new \ {a} /\ g.fresh \ {a} = h.fresh \ {a}
      /\ g.await \ {a} = h.await \ {a} /\ g.over \ {a} = h.over \ {a}
      /\ g.refused \ {a} = h.refused \ {a}
      /\ a \in g.new /\ a \in g.fresh /\ a \notin g.over /\ a \in h.await
      /\ a \notin h.refused
  BY <1>0, <1>1, <1>4, <1>5, OneMoves
<1>7. Shift(g, h)
  BY <1>1, <1>6 DEF Shift
<1>8. life # "closed" => Arrived(Now, h)
  <2>1. h.refused \cap h.seen \subseteq g.refused \cap g.seen
    BY <1>1, <1>6
  <2>2. (\A b \in (h.seen \ g.seen) : ~HasStarted(Now.t, b)) /\ g.await \ h.await = {}
    BY <1>1, <1>6
  <2> QED BY <1>1, <1>7, <2>1, <2>2, NowArrives
<1>9. mishaps \in Nat /\ Now.cost = 0
  BY <1>1, NowFacts DEF CloseOK
<1> QED BY <1>0, <1>1, <1>5, <1>7, <1>8, <1>9, NowFacts, GameStep

LEMMA EnqueueStep ==
  ASSUME RecordingInv, NEW a \in Plays, Enqueue(a)
  PROVE  RecordingInv'
<1> DEFINE g == GameNow
           h == GameNow'
<1>1. /\ GameOK /\ CloseOK /\ (life # "closed" => Arrived(Now, g))
      /\ GameRuns /\ native[a] = "sent"
      /\ native' = [native EXCEPT ![a] = "queued"]
      /\ world' = world /\ cast' = cast /\ head' = head /\ ended' = ended /\ scope' = scope
      /\ life' = life /\ closer' = closer /\ sealed' = sealed
  BY DEF RecordingInv, Enqueue, closeVars
<1>2. PICK rec \in CASE scope[a] = "held" /\ life # "closed" ->
                          PersistOrDisable(Now, Accept(tracker, a))
                     [] scope[a] = "failed" /\ life # "closed" -> Escaped(Now)
                     [] OTHER -> {Now} :
        /\ tracker' = rec.t /\ trace' = rec.trace /\ stream' = rec.stream
        /\ mishaps' = mishaps + rec.cost
  BY DEF Enqueue, Observe
<1>3. /\ scope \in [Plays -> {"none", "held", "failed"}] /\ a \notin world
      /\ cast[a] = "game"
  BY <1>1 DEF GameOK
<1>5. GameOK' /\ native'[a] = "queued" /\ \A b \in Plays \ {a} : native'[b] = native[b]
  BY <1>1, <1>3, GameMoves DEF NativeStates
<1>0. g = GameNow /\ h = GameNow'
  OBVIOUS
<1> HIDE DEF g, h
<1>6. /\ g \in Moments /\ h \in Moments /\ g.seen = world /\ h.seen = world'
      /\ g.new \ {a} = h.new \ {a} /\ g.fresh \ {a} = h.fresh \ {a}
      /\ g.await \ {a} = h.await \ {a} /\ g.over \ {a} = h.over \ {a}
      /\ g.refused \ {a} = h.refused \ {a}
      /\ a \in g.new /\ a \notin h.new /\ a \in g.fresh /\ a \notin g.over
      /\ a \in g.await /\ a \in h.await
      /\ a \notin h.refused
  BY <1>0, <1>1, <1>3, <1>5, OneMoves
<1>7. /\ Shift(g, h) /\ h.seen = g.seen /\ h.await = g.await /\ h.refused \subseteq g.refused
      /\ h.new = g.new \ {a} /\ h.fresh = g.fresh
  <2>1. a \in h.fresh
    BY <1>0, <1>1, <1>3, <1>5, OneMoves
  <2>2. h.seen = g.seen
    BY <1>1, <1>6
  <2>5. h.await = g.await
    BY <1>6
  <2>6. h.fresh = g.fresh
    BY <1>6, <2>1
  <2>3. h.new = g.new \ {a}
    BY <1>6
  <2>4. h.refused \subseteq g.refused /\ g.over \subseteq h.over
    BY <1>6
  <2> QED BY <1>6, <2>2, <2>3, <2>4, <2>5, <2>6 DEF Shift
<1>8. life = "closed" => rec = Now
  BY <1>2
<1>9. life # "closed" => Arrived(rec, h)
  <2> SUFFICES ASSUME life # "closed" PROVE Arrived(rec, h)
    OBVIOUS
  <2>1. /\ Now \in Steps /\ Synced(tracker, trace, g)
        /\ stream = "healthy" => Pending(tracker, g)
        /\ Now.t = tracker /\ Now.trace = trace /\ Now.stream = stream
    BY <1>1, <1>0, NowStep, NowFacts
  <2>2. Synced(tracker, trace, h)
    BY <1>7, <2>1, SyncedShift
  <2>3. CASE scope[a] = "held"
    <3> DEFINE m == Accept(tracker, a)
               g1 == [g EXCEPT !.new = g.new \ {a}]
    <3>1. rec \in PersistOrDisable(Now, m)
      BY <1>2, <2>3
    <3>2. Shift(g1, h)
      BY <1>6, <1>7 DEF Shift, Moments
    <3>3. g1 = [g EXCEPT !.new = g.new \ {a}] /\ ~tracker.entry[a].held
      BY <1>6, <2>1 DEF Synced, Begun
    <3> HIDE DEF g1
    <3>4. /\ Reaches(trace, m, g1)
          /\ m.t \in Trackers /\ m.t.order = tracker.order /\ ~HasStarted(tracker, a)
          /\ m.t.entry[a].held /\ m.t.entry[a].pre = NoFrame
          /\ ~m.t.entry[a].disposed /\ ~m.t.entry[a].finished
          /\ \A b \in Plays \ {a} : m.t.entry[b] = tracker.entry[b]
      BY <2>1, <3>3, AcceptSync
    <3> HIDE DEF m
    <3>5. Reaches(trace, m, h)
      BY <3>2, <3>4, SyncedShift DEF Reaches
    <3>6. stream = "healthy" => Pending(m.t, h)
      <4>1. \A b : HasStarted(m.t, b) <=> HasStarted(tracker, b)
        BY <3>4 DEF HasStarted
      <4> QED BY <1>6, <1>7, <2>1, <3>4, <4>1 DEF Pending, Alone
    <3>7. /\ rec \in Steps
          /\ \/ stream = "healthy" /\ IsKept(Now, m, rec)
             \/ IsFailed(Now, rec)
      BY <2>1, <3>1, <3>5, DisableCases
    <3> QED BY <2>1, <2>2, <3>5, <3>6, <3>7, KeptArrives, FailedArrives
  <2>4. CASE scope[a] = "failed"
    <3>1. rec \in Escaped(Now)
      BY <1>2, <2>4
    <3> QED BY <2>1, <2>2, <3>1, EscapedArrives
  <2>5. CASE scope[a] = "none"
    <3>1. rec = Now /\ h.refused \cap h.seen \subseteq g.refused \cap g.seen
      BY <1>2, <1>7, <2>5
    <3>2. Arrived(Now, g) /\ h.seen \ g.seen = {} /\ g.await \ h.await = {}
      BY <1>0, <1>1, <1>7
    <3> QED BY <1>7, <3>1, <3>2, NowArrives
  <2> QED BY <1>3, <2>3, <2>4, <2>5
<1> QED BY <1>0, <1>1, <1>2, <1>5, <1>7, <1>8, <1>9, GameStep

\* A moment at which one input moves on, and nothing acts or is awaited anew.
LEMMA QuietMoment ==
  ASSUME RecordingInv, GameOK', NEW a \in Plays, cast' = cast,
         scope' = scope, world' = world, \A b \in Plays \ {a} : native'[b] = native[b],
         native[a] \notin {"idle", "sent", "queued", "over"},
         native'[a] \notin {"idle", "sent", "queued"},
         NEW g, NEW h, g = GameNow, h = GameNow'
  PROVE  /\ Shift(g, h)
         /\ a \notin h.await /\ (native'[a] = "over" => a \in h.over)
         /\ life # "closed" =>
              /\ Arrived(Now, h) /\ Now \in Steps /\ Synced(tracker, trace, h)
              /\ stream = "healthy" => Pending(tracker, h)
<1>1. /\ GameOK /\ CloseOK /\ (life # "closed" => Arrived(Now, g))
  BY DEF RecordingInv
<1>4. /\ g \in Moments /\ h \in Moments /\ g.seen = world /\ h.seen = world'
      /\ g.new \ {a} = h.new \ {a} /\ g.fresh \ {a} = h.fresh \ {a}
      /\ g.await \ {a} = h.await \ {a} /\ g.over \ {a} = h.over \ {a}
      /\ g.refused \ {a} = h.refused \ {a}
      /\ a \notin g.new /\ a \notin h.new /\ a \notin g.fresh /\ a \notin h.fresh
      /\ a \notin g.await /\ a \notin h.await /\ a \notin g.over
      /\ native'[a] = "over" => a \in h.over
  BY <1>1, OneMoves
<1>5. h.refused \cap h.seen \subseteq g.refused \cap g.seen /\ h.refused \subseteq g.refused
  <2>1. /\ g.refused = {b \in Plays : scope[b] = "failed" /\ cast[b] # "game"}
        /\ h.refused = {b \in Plays : scope'[b] = "failed" /\ cast'[b] # "game"}
    BY DEF GameNow, Moment
  <2> QED BY <1>4, <2>1
<1>6. h.seen = g.seen
  BY <1>4
<1>7. h.new \subseteq g.new
  BY <1>4
<1>8. h.fresh \subseteq g.fresh
  BY <1>4
<1>9. g.over \subseteq h.over
  BY <1>4
<1>10. g.await \ h.await = {}
  BY <1>4
<1>11. Shift(g, h)
  BY <1>4, <1>5, <1>6, <1>7, <1>8, <1>9 DEF Shift
<1>12. life # "closed" => Arrived(Now, h)
  <2>1. h.seen \ g.seen = {}
    BY <1>6
  <2> QED BY <1>1, <1>5, <1>10, <1>11, <2>1, NowArrives
<1> HIDE DEF Now
<1>13. life # "closed" => /\ Now \in Steps /\ Synced(tracker, trace, h)
                          /\ stream = "healthy" => Pending(tracker, h)
  BY <1>12, NowFacts DEF Arrived, Reached
<1> QED BY <1>4, <1>11, <1>12, <1>13

\* A callback of an input that runs.
LEMMA CallbackMoment ==
  ASSUME RecordingInv, NEW a \in Plays, NEW x \in NativeStates,
         native' = [native EXCEPT ![a] = x], cast' = cast, head' = head, ended' = ended,
         scope' = scope, world' = world, x # "working",
         native[a] \notin {"idle", "sent", "queued", "over"},
         x \notin {"idle", "sent", "queued"},
         x \in {"running", "choosing", "resumed", "aborted"} => cast[a] = "game",
         NEW g, NEW h, g = GameNow, h = GameNow'
  PROVE  /\ GameOK' /\ Shift(g, h)
         /\ a \notin h.await /\ (x = "over" => a \in h.over)
         /\ life # "closed" =>
              /\ Arrived(Now, h) /\ Now \in Steps /\ Synced(tracker, trace, h)
              /\ stream = "healthy" => Pending(tracker, h)
<1>1. GameOK
  BY DEF RecordingInv
<1>2. scope \in [Plays -> {"none", "held", "failed"}]
  BY <1>1 DEF GameOK
<1>3. GameOK' /\ native'[a] = x /\ \A b \in Plays \ {a} : native'[b] = native[b]
  BY <1>1, <1>2, GameMoves
<1> QED BY <1>3, QuietMoment

LEMMA TrackedFacts ==
  ASSUME NEW a, Tracked(a)
  PROVE  life # "closed" /\ tracker.entry[a].held
  BY DEF Tracked

LEMMA PauseStep ==
  ASSUME RecordingInv, NEW a \in Plays, PauseForChoice(a)
  PROVE  RecordingInv'
<1>1. /\ GameOK /\ CloseOK /\ GameRuns /\ native[a] = "running"
      /\ native' = [native EXCEPT ![a] = "choosing"]
      /\ world' = world /\ cast' = cast /\ head' = head /\ ended' = ended /\ scope' = scope
      /\ life' = life /\ closer' = closer /\ sealed' = sealed
  BY DEF RecordingInv, PauseForChoice, closeVars
<1>2. PICK rec \in IF ~Tracked(a) THEN {Now}
                   ELSE Chain(PersistOrUnknown(Now, Paused(tracker, a), {a}),
                              LAMBDA r : PersistOrUnknown(r, Continuation(r.t, a), {a})) :
        /\ tracker' = rec.t /\ trace' = rec.trace /\ stream' = rec.stream
        /\ mishaps' = mishaps + rec.cost
  BY DEF PauseForChoice, Observe
<1> DEFINE g == GameNow
           h == GameNow'
<1>0. g = GameNow /\ h = GameNow'
  OBVIOUS
<1> HIDE DEF g, h
<1>3. cast[a] = "game"
  BY <1>1 DEF GameOK
<1>4. /\ GameOK' /\ Shift(g, h)
      /\ life # "closed" =>
           /\ Arrived(Now, h) /\ Now \in Steps /\ Synced(tracker, trace, h)
           /\ stream = "healthy" => Pending(tracker, h)
  BY <1>0, <1>1, <1>3, CallbackMoment DEF NativeStates
<1>5. life = "closed" => rec = Now
  BY <1>2 DEF Tracked
<1>6. life # "closed" => Arrived(rec, h)
  <2> SUFFICES ASSUME Tracked(a) PROVE Arrived(rec, h)
    BY <1>2, <1>4 DEF Tracked
  <2>1. life # "closed" /\ tracker.entry[a].held
    BY TrackedFacts
  <2> DEFINE m == Paused(tracker, a)
  <2>2. PICK q \in PersistOrUnknown(Now, m, {a}) :
          rec \in PersistOrUnknown(q, Continuation(q.t, a), {a})
    BY <1>2 DEF Chain
  <2>3. /\ Reaches(trace, m, h) /\ Later(tracker, m.t)
        /\ At(trace \o m.rows, a, {"paused"}) # {}
    BY <1>4, <2>1, PausedSync
  <2> HIDE DEF m
  <2>4. stream = "healthy" => Pending(m.t, h)
    BY <1>4, <2>1, <2>3, LaterPending
  <2>5. Now.t = tracker /\ Now.trace = trace /\ Now.stream = stream
    BY NowFacts
  <2>6. Arrived(q, h)
    BY <1>4, <2>1, <2>2, <2>3, <2>4, <2>5, PersistHere
  <2>7. q.stream = "healthy" =>
          /\ q.t.entry[a].held
          /\ q.t.entry[a].disposed \/ At(q.trace, a, {"paused"}) # {}
    <3> DEFINE T == {a} \cup {m.rows[i].act : i \in DOMAIN m.rows}
    <3>1. \/ IsKept(Now, m, q)
          \/ IsGivenUp(Now, T, q, h)
          \/ IsFailed(Now, q)
      BY <1>4, <2>1, <2>2, <2>3, <2>5, PersistCases
    <3>2. a \in T
      OBVIOUS
    <3> HIDE DEF T
    <3> QED BY <2>1, <2>3, <2>5, <3>1, <3>2 DEF IsKept, IsGivenUp, IsFailed, Later, Settled
  <2> DEFINE n == Continuation(q.t, a)
  <2>8. q.stream = "healthy" => Reaches(q.trace, n, h) /\ Pending(n.t, h)
    BY <2>6, <2>7, ContinuationSync, LaterPending DEF Arrived, Reached
  <2>9. rec \in PersistOrUnknown(q, n, {a})
    BY <2>2
  <2> HIDE DEF n
  <2> QED BY <2>6, <2>8, <2>9, PersistHere
<1> QED BY <1>0, <1>1, <1>2, <1>4, <1>5, <1>6, GameStep

LEMMA ResumeStep ==
  ASSUME RecordingInv, NEW a \in Plays, Resume(a)
  PROVE  RecordingInv'
<1>1. /\ GameOK /\ CloseOK /\ GameRuns /\ native[a] = "choosing"
      /\ native' = [native EXCEPT ![a] = "resumed"]
      /\ world' = world /\ cast' = cast /\ head' = head /\ ended' = ended /\ scope' = scope
      /\ life' = life /\ closer' = closer /\ sealed' = sealed
  BY DEF RecordingInv, Resume, closeVars
<1>2. PICK rec \in IF ~Tracked(a) THEN {Now}
                   ELSE Chain(PersistOrUnknown(Now, Gives(tracker, <<Row("ready", a)>>), {a}),
                              LAMBDA r : PersistOrUnknown(r, Resumed(r.t, a), {a})) :
        /\ tracker' = rec.t /\ trace' = rec.trace /\ stream' = rec.stream
        /\ mishaps' = mishaps + rec.cost
  BY DEF Resume, Observe
<1> DEFINE g == GameNow
           h == GameNow'
<1>0. g = GameNow /\ h = GameNow'
  OBVIOUS
<1> HIDE DEF g, h
<1>3. cast[a] = "game"
  BY <1>1 DEF GameOK
<1>4. /\ GameOK' /\ Shift(g, h)
      /\ life # "closed" =>
           /\ Arrived(Now, h) /\ Now \in Steps /\ Synced(tracker, trace, h)
           /\ stream = "healthy" => Pending(tracker, h)
  BY <1>0, <1>1, <1>3, CallbackMoment DEF NativeStates
<1>5. life = "closed" => rec = Now
  BY <1>2 DEF Tracked
<1>6. life # "closed" => Arrived(rec, h)
  <2> SUFFICES ASSUME Tracked(a) PROVE Arrived(rec, h)
    BY <1>2, <1>4 DEF Tracked
  <2>1. life # "closed" /\ tracker.entry[a].held
    BY TrackedFacts
  <2> DEFINE m == Gives(tracker, <<Row("ready", a)>>)
  <2>2. PICK q \in PersistOrUnknown(Now, m, {a}) :
          rec \in PersistOrUnknown(q, Resumed(q.t, a), {a})
    BY <1>2 DEF Chain
  <2>3. Reaches(trace, m, h) /\ m.t = tracker
    BY <1>4, <2>1, ReadySync
  <2> HIDE DEF m
  <2>5. Now.t = tracker /\ Now.trace = trace /\ Now.stream = stream
    BY NowFacts
  <2>6. Arrived(q, h)
    BY <1>4, <2>1, <2>2, <2>3, <2>5, PersistHere
  <2>7. q.stream = "healthy" => q.t.entry[a].held
    <3> DEFINE T == {a} \cup {m.rows[i].act : i \in DOMAIN m.rows}
    <3>1. \/ IsKept(Now, m, q)
          \/ IsGivenUp(Now, T, q, h)
          \/ IsFailed(Now, q)
      BY <1>4, <2>1, <2>2, <2>3, <2>5, PersistCases
    <3> HIDE DEF T
    <3> QED BY <2>1, <2>3, <2>5, <3>1 DEF IsKept, IsGivenUp, IsFailed, Settled
  <2> DEFINE n == Resumed(q.t, a)
  <2>8. q.stream = "healthy" => Reaches(q.trace, n, h) /\ Pending(n.t, h)
    BY <2>6, <2>7, ResumedSync, LaterPending DEF Arrived, Reached
  <2>9. rec \in PersistOrUnknown(q, n, {a})
    BY <2>2
  <2> HIDE DEF n
  <2> QED BY <2>6, <2>8, <2>9, PersistHere
<1> QED BY <1>0, <1>1, <1>2, <1>4, <1>5, <1>6, GameStep

\* A card that is given up has started, as far as the recording knows.
LEMMA AbortStep ==
  ASSUME RecordingInv, NEW a \in Plays, Abort(a)
  PROVE  RecordingInv'
<1>1. /\ GameOK /\ CloseOK /\ GameRuns /\ native[a] \in {"running", "resumed"}
      /\ native' = [native EXCEPT ![a] = "aborted"]
      /\ world' = world /\ cast' = cast /\ head' = head /\ ended' = ended /\ scope' = scope
      /\ life' = life /\ closer' = closer /\ sealed' = sealed
  BY DEF RecordingInv, Abort, closeVars
<1>2. PICK rec \in IF ~Tracked(a) THEN {Now}
                   ELSE PersistOrUnknown(Now, Ends(tracker, a, "aborted"), {a}) :
        /\ tracker' = rec.t /\ trace' = rec.trace /\ stream' = rec.stream
        /\ mishaps' = mishaps + rec.cost
  BY DEF Abort, Observe
<1> DEFINE g == GameNow
           h == GameNow'
<1>0. g = GameNow /\ h = GameNow'
  OBVIOUS
<1> HIDE DEF g, h
<1>3. cast[a] = "game"
  BY <1>1 DEF GameOK
<1>4. /\ GameOK' /\ Shift(g, h) /\ a \notin h.await
      /\ life # "closed" =>
           /\ Arrived(Now, h) /\ Now \in Steps /\ Synced(tracker, trace, h)
           /\ stream = "healthy" => Pending(tracker, h)
  BY <1>0, <1>1, <1>3, CallbackMoment DEF NativeStates
<1>5. life = "closed" => rec = Now
  BY <1>2 DEF Tracked
<1>6. life # "closed" => Arrived(rec, h)
  <2> SUFFICES ASSUME Tracked(a) PROVE Arrived(rec, h)
    BY <1>2, <1>4 DEF Tracked
  <2>1. life # "closed" /\ tracker.entry[a].held
    BY TrackedFacts
  <2> DEFINE m == Ends(tracker, a, "aborted")
  <2>2. rec \in PersistOrUnknown(Now, m, {a})
    BY <1>2
  <2>3. stream = "healthy" => Reaches(trace, m, h) /\ Later(tracker, m.t)
    <3>1. stream = "healthy" => tracker.entry[a].disposed \/ HasStarted(tracker, a)
      BY <1>4, <2>1 DEF Pending
    <3> QED BY <1>4, <2>1, <3>1, EndsSync
  <2> HIDE DEF m
  <2>4. stream = "healthy" => Pending(m.t, h)
    BY <1>4, <2>1, <2>3, LaterPending
  <2> QED BY <1>4, <2>1, <2>2, <2>3, <2>4, NowFacts, PersistHere
<1> QED BY <1>0, <1>1, <1>2, <1>4, <1>5, <1>6, GameStep

\* The last callback of an action.
LEMMA FinishStep ==
  ASSUME RecordingInv, NEW a \in Plays, Finish(a)
  PROVE  RecordingInv'
<1> DEFINE m == Then(Finished(tracker, a), LAMBDA u : NativeCommit(u, a))
           recs == IF ~Tracked(a) THEN {Now} ELSE PersistOrUnknown(Now, m, {a})
<1>1. /\ GameOK /\ CloseOK /\ GameRuns /\ native[a] \in {"running", "resumed", "aborted"}
      /\ native' = [native EXCEPT ![a] = "over"]
      /\ world' = world /\ cast' = cast /\ head' = head /\ ended' = ended /\ scope' = scope
      /\ life' = life /\ closer' \in {closer, [closer EXCEPT !["game"].at = "asked"]}
      /\ sealed' = sealed
  BY DEF RecordingInv, Finish, Over
<1>2. PICK rec \in recs :
        /\ tracker' = rec.t /\ trace' = rec.trace /\ stream' = rec.stream
        /\ mishaps' = mishaps + rec.cost
  BY DEF Finish, Over, Observe
<1> DEFINE g == GameNow
           h == GameNow'
<1>0. g = GameNow /\ h = GameNow'
  OBVIOUS
<1> HIDE DEF g, h, m
<1>4. /\ GameOK' /\ Shift(g, h)
      /\ life # "closed" =>
           /\ Arrived(Now, h) /\ Now \in Steps /\ Synced(tracker, trace, h)
           /\ stream = "healthy" => Pending(tracker, h)
  BY <1>0, <1>1, CallbackMoment DEF NativeStates
<1>5. life = "closed" => rec = Now
  BY <1>2 DEF Tracked
<1>6. life # "closed" => Arrived(rec, h)
  <2> SUFFICES ASSUME Tracked(a) PROVE Arrived(rec, h)
    BY <1>2, <1>4 DEF Tracked
  <2>1. life # "closed" /\ tracker.entry[a].held
    BY TrackedFacts
  <2>2. rec \in PersistOrUnknown(Now, m, {a})
    BY <1>2
  <2>3. Reaches(trace, m, h) /\ Later(tracker, m.t)
    BY <1>4, <2>1, FinishSync DEF m
  <2>4. stream = "healthy" => Pending(m.t, h)
    BY <1>4, <2>1, <2>3, LaterPending
  <2> QED BY <1>4, <2>1, <2>2, <2>3, <2>4, NowFacts, PersistHere
<1> QED BY <1>0, <1>1, <1>2, <1>4, <1>5, <1>6, GameStep

\* A cancellation, which may take an action out of the queue.
LEMMA CancelStep ==
  ASSUME RecordingInv, NEW a \in Plays, Cancel(a)
  PROVE  RecordingInv'
<1> DEFINE m == Cancelled(tracker, a)
           recs == IF ~Tracked(a) THEN {Now} ELSE PersistOrUnknown(Now, m, {a})
<1>1. /\ GameOK /\ CloseOK /\ (life # "closed" => Arrived(Now, GameNow)) /\ GameRuns
      /\ native[a] \in {"queued", "running", "choosing", "resumed"}
      /\ native' = [native EXCEPT ![a] = "over"]
      /\ world' = world /\ cast' = cast /\ head' = head /\ ended' = ended /\ scope' = scope
      /\ life' = life /\ closer' \in {closer, [closer EXCEPT !["game"].at = "asked"]}
      /\ sealed' = sealed
  BY DEF RecordingInv, Cancel, Over
<1>2. PICK rec \in recs :
        /\ tracker' = rec.t /\ trace' = rec.trace /\ stream' = rec.stream
        /\ mishaps' = mishaps + rec.cost
  BY DEF Cancel, Over, Observe
<1> DEFINE g == GameNow
           h == GameNow'
<1>0. g = GameNow /\ h = GameNow'
  OBVIOUS
<1> HIDE DEF g, h, m
<1>3. scope \in [Plays -> {"none", "held", "failed"}]
  BY <1>1 DEF GameOK
<1>4. GameOK' /\ native'[a] = "over" /\ \A b \in Plays \ {a} : native'[b] = native[b]
  BY <1>1, <1>3, GameMoves DEF NativeStates
<1>7. /\ g \in Moments /\ h \in Moments /\ g.seen = world /\ h.seen = world'
      /\ g.new \ {a} = h.new \ {a} /\ g.fresh \ {a} = h.fresh \ {a}
      /\ g.await \ {a} = h.await \ {a} /\ g.over \ {a} = h.over \ {a}
      /\ g.refused \ {a} = h.refused \ {a}
      /\ a \notin h.new /\ a \notin h.fresh /\ a \notin g.over /\ a \in h.over
      /\ a \notin h.refused
  <2>1. cast[a] = "game"
    BY <1>1 DEF GameOK
  <2> QED BY <1>0, <1>1, <1>4, <2>1, OneMoves
<1>8. /\ h.seen = g.seen /\ h.refused \subseteq g.refused
      /\ \A b \in g.await \ h.await : b = a
  BY <1>1, <1>7
<1>9. Shift(g, h)
  <2>1. h.new \subseteq g.new
    BY <1>7
  <2>2. h.fresh \subseteq g.fresh
    BY <1>7
  <2>3. g.over \subseteq h.over
    BY <1>7
  <2> QED BY <1>7, <1>8, <2>1, <2>2, <2>3 DEF Shift
<1>5. life = "closed" => rec = Now
  BY <1>2 DEF Tracked
<1>6. life # "closed" => Arrived(rec, h)
  <2> SUFFICES ASSUME life # "closed" PROVE Arrived(rec, h)
    OBVIOUS
  <2>1. /\ Now \in Steps /\ Synced(tracker, trace, g)
        /\ stream = "healthy" => Pending(tracker, g)
        /\ Now.t = tracker /\ Now.trace = trace /\ Now.stream = stream
    BY <1>1, <1>0, NowStep, NowFacts
  <2>2. Synced(tracker, trace, h)
    BY <1>9, <2>1, SyncedShift
  <2>3. h.refused \cap h.seen \subseteq g.refused \cap g.seen /\ h.seen \ g.seen = {}
    BY <1>8
  <2>4. ASSUME NEW u, Pending(u, g), u.entry[a].held => u.entry[a].disposed
        PROVE  Pending(u, h)
    BY <1>8, <1>9, <2>3, <2>4, PendingShift
  <2>5. CASE Tracked(a)
    <3>1. tracker.entry[a].held
      BY <2>5, TrackedFacts
    <3>2. rec \in PersistOrUnknown(Now, m, {a})
      BY <1>2, <2>5
    <3>3. /\ Reaches(trace, m, h) /\ Later(tracker, m.t)
          /\ m.t.entry[a].disposed
      BY <1>7, <2>2, <3>1, CancelledSync DEF m
    <3>4. stream = "healthy" => Pending(m.t, h)
      BY <2>1, <2>4, <3>3, LaterPending
    <3>5. stream = "healthy" =>
            \A u : Settled(tracker, u) /\ (\A b \in {a} : u.entry[b].held => u.entry[b].disposed)
                     => Pending(u, h)
      BY <2>1, <2>4, SettledPending
    <3> QED BY <2>1, <2>2, <3>2, <3>3, <3>4, <3>5, PersistArrives
  <2>6. CASE ~Tracked(a)
    <3>1. rec = Now /\ ~tracker.entry[a].held
      BY <1>2, <2>6 DEF Tracked
    <3> QED BY <2>1, <2>2, <2>4, <3>1 DEF Arrived, Reached
  <2> QED BY <2>5, <2>6
<1> QED BY <1>0, <1>1, <1>2, <1>4, <1>5, <1>6, <1>9, GameStep

\* The executor announces an action and starts it: two batches, at two moments.
LEMMA ExecuteStep ==
  ASSUME RecordingInv, NEW a \in Plays, Execute(a)
  PROVE  RecordingInv'
<1>1. /\ GameOK /\ CloseOK /\ (life # "closed" => Arrived(Now, GameNow)) /\ GameRuns
      /\ native[a] = "queued"
      /\ native' = [native EXCEPT ![a] = "running"]
      /\ world' = world \cup {a} /\ cast' = cast /\ head' = head /\ ended' = ended
      /\ scope' = scope
      /\ life' = life /\ closer' = closer /\ sealed' = sealed
  BY DEF RecordingInv, Execute, closeVars
<1>10. PICK frame \in {world, NoFrame} :
        Observe(IF ~Tracked(a) THEN {Now}
                ELSE Chain(PersistOrUnknown(Now, BeforeExecution(tracker, a, frame), {a}),
                           LAMBDA r : PersistOrUnknown(r, Started(r.t, a), {a})))
  BY DEF Execute
<1> DEFINE m == BeforeExecution(tracker, a, frame)
           recs == IF ~Tracked(a) THEN {Now}
                   ELSE Chain(PersistOrUnknown(Now, m, {a}),
                              LAMBDA r : PersistOrUnknown(r, Started(r.t, a), {a}))
<1>2. PICK rec \in recs :
        /\ tracker' = rec.t /\ trace' = rec.trace /\ stream' = rec.stream
        /\ mishaps' = mishaps + rec.cost
  BY <1>10 DEF Observe
<1> DEFINE g == GameNow
           h == GameNow'
<1>0. g = GameNow /\ h = GameNow'
  OBVIOUS
<1> HIDE DEF g, h, m
<1>3. scope \in [Plays -> {"none", "held", "failed"}] /\ cast[a] = "game" /\ a \notin world
  BY <1>1 DEF GameOK
<1>4. GameOK' /\ native'[a] = "running" /\ \A b \in Plays \ {a} : native'[b] = native[b]
  BY <1>1, <1>3, GameMoves DEF NativeStates
<1>7. /\ g \in Moments /\ h \in Moments /\ g.seen = world /\ h.seen = world'
      /\ g.new \ {a} = h.new \ {a} /\ g.fresh \ {a} = h.fresh \ {a}
      /\ g.await \ {a} = h.await \ {a} /\ g.over \ {a} = h.over \ {a}
      /\ g.refused \ {a} = h.refused \ {a}
      /\ a \notin h.new /\ a \in g.fresh /\ a \notin h.fresh /\ a \in g.await
      /\ a \notin h.await /\ a \notin g.over /\ a \notin h.refused
  BY <1>0, <1>1, <1>3, <1>4, OneMoves
<1>8. /\ h.seen = g.seen \cup {a} /\ a \notin g.seen
      /\ h.refused \subseteq g.refused /\ h.refused \cap h.seen \subseteq g.refused \cap g.seen
  BY <1>1, <1>3, <1>7
<1>9. h.fresh = g.fresh \ {a} /\ h.await = g.await \ {a}
  BY <1>7
<1>11. h.new \subseteq g.new /\ g.over \subseteq h.over
  BY <1>7
<1>12. Shift(g, h)
  BY <1>7, <1>8, <1>9, <1>11 DEF Shift
<1>5. life = "closed" => rec = Now
  BY <1>2 DEF Tracked
<1>6. life # "closed" => Arrived(rec, h)
  <2> SUFFICES ASSUME life # "closed" PROVE Arrived(rec, h)
    OBVIOUS
  <2>1. /\ Now \in Steps /\ Synced(tracker, trace, g)
        /\ stream = "healthy" => Pending(tracker, g)
        /\ Now.t = tracker /\ Now.trace = trace /\ Now.stream = stream
    BY <1>1, <1>0, NowStep, NowFacts
  <2>2. CASE ~Tracked(a)
    <3>1. rec = Now /\ ~tracker.entry[a].held
      BY <1>2, <2>2 DEF Tracked
    <3>2. ~HasStarted(tracker, a)
      BY <2>1, <3>1, StartedHeld
    <3>3. \A b \in (h.seen \ g.seen) \cup (g.await \ h.await) : b = a
      BY <1>8, <1>9
    <3>4. Arrived(Now, g)
      BY <1>0, <1>1
    <3> QED BY <1>8, <1>12, <2>1, <3>1, <3>2, <3>3, <3>4, NowArrives
  <2>3. CASE Tracked(a)
    <3>1. tracker.entry[a].held
      BY <2>3, TrackedFacts
    <3>2. PICK q \in PersistOrUnknown(Now, m, {a}) :
            rec \in PersistOrUnknown(q, Started(q.t, a), {a})
      BY <1>2, <2>3 DEF Chain
    <3> DEFINE g1 == [g EXCEPT !.fresh = g.fresh \ {a}]
    <3>3. /\ g1 \in Moments /\ g1.seen = g.seen /\ g1.new = g.new /\ g1.await = g.await
          /\ g1.over = g.over /\ g1.refused = g.refused /\ g1.fresh = g.fresh \ {a}
          /\ g1 = [g EXCEPT !.fresh = g.fresh \ {a}]
      BY <1>7 DEF Moments
    <3> HIDE DEF g1
    <3>4. Shift(g, g1) /\ Shift(g1, h)
      BY <1>7, <1>8, <1>9, <1>11, <3>3 DEF Shift
    <3>5. Synced(tracker, trace, g1)
      BY <2>1, <3>4, SyncedShift
    <3>6. stream = "healthy" => Pending(tracker, g1)
      BY <2>1, <3>3, <3>4, PendingShift
    <3>7. stream = "healthy" => /\ Reaches(trace, m, g1) /\ Pending(m.t, g1)
                                /\ m.t.entry[a].held /\ m.t.entry[a].pre = frame
      <4>1. frame \in {NoFrame, g.seen}
        BY <1>7
      <4> QED BY <1>7, <1>8, <2>1, <3>1, <3>3, <4>1, BeforeExecutionSync DEF m
    <3>8. /\ q \in Steps /\ Synced(q.t, q.trace, g1) /\ q.t.entry[a].held
          /\ q.stream = "healthy" =>
               /\ Pending(q.t, g1)
               /\ q.t.entry[a].disposed \/ q.t.entry[a].pre \in {NoFrame, g1.seen}
      <4> DEFINE T == {a} \cup {m.rows[i].act : i \in DOMAIN m.rows}
      <4>1. /\ q \in Steps
            /\ \/ stream = "healthy" /\ IsKept(Now, m, q)
               \/ stream = "healthy" /\ IsGivenUp(Now, T, q, g1)
               \/ IsFailed(Now, q)
        BY <2>1, <3>2, <3>5, <3>7, PersistCases
      <4>2. a \in T
        OBVIOUS
      <4> HIDE DEF T
      <4>3. CASE stream = "healthy" /\ IsKept(Now, m, q)
        BY <1>7, <2>1, <3>3, <3>7, <4>1, <4>3 DEF IsKept, Reaches
      <4>4. CASE stream = "healthy" /\ IsGivenUp(Now, T, q, g1)
        BY <2>1, <3>1, <3>6, <4>1, <4>2, <4>4, SettledPending DEF IsGivenUp, Settled
      <4>5. CASE IsFailed(Now, q)
        BY <2>1, <3>1, <3>5, <4>1, <4>5 DEF IsFailed
      <4> QED BY <4>1, <4>3, <4>4, <4>5
    <3> DEFINE n == Started(q.t, a)
    <3>9. /\ Reaches(q.trace, n, h)
          /\ n.t.entry = q.t.entry /\ Last(n.t.order) = a
          /\ \A b : HasStarted(n.t, b) <=> HasStarted(q.t, b) \/ b = a
      <4>1. a \notin g1.seen /\ a \notin g1.over /\ a \in h.seen
        BY <1>7, <1>8, <3>3
      <4>2. Synced(q.t, q.trace, g1) /\ q.t.entry[a].held /\ Shift(g1, h)
        BY <3>4, <3>8
      <4> QED BY <4>1, <4>2, StartedSync
    <3>10. rec \in PersistOrUnknown(q, n, {a})
      BY <3>2
    <3> HIDE DEF n
    <3>11. q.stream = "healthy" => Pending(n.t, h)
      <4>1. h.seen = g1.seen \cup {a} /\ g1.await \subseteq h.await \cup {a}
        BY <1>8, <1>9, <3>3
      <4>2. n.t.entry = q.t.entry /\ Last(n.t.order) = a
        BY <3>9
      <4>3. \A b : HasStarted(n.t, b) <=> HasStarted(q.t, b) \/ b = a
        BY <3>9
      <4> SUFFICES ASSUME q.stream = "healthy" PROVE Pending(n.t, h)
        OBVIOUS
      <4>4. Pending(q.t, g1) /\ (q.t.entry[a].disposed \/ q.t.entry[a].pre \in {NoFrame, g1.seen})
        BY <3>8
      <4> QED BY <4>1, <4>2, <4>3, <4>4, StartedPending
    <3>12. ~HasStarted(q.t, a)
      BY <1>8, <3>3, <3>8 DEF Synced, Begun
    <3>13. ASSUME q.stream = "healthy", NEW u, Settled(q.t, u),
                  u.entry[a].held => u.entry[a].disposed
           PROVE  Pending(u, h)
      <4>1. Pending(u, g1) /\ ~HasStarted(u, a)
        BY <3>8, <3>12, <3>13, SettledPending DEF Settled, HasStarted
      <4>2. /\ h.refused \cap h.seen \subseteq g1.refused \cap g1.seen
            /\ \A b \in (h.seen \ g1.seen) \cup (g1.await \ h.await) : b = a
        BY <1>8, <1>9, <3>3
      <4> QED BY <3>4, <3>13, <4>1, <4>2, PendingShift
    <3>14. Synced(q.t, q.trace, h)
      BY <3>4, <3>8, SyncedShift
    <3> QED BY <3>8, <3>9, <3>10, <3>11, <3>13, <3>14, PersistArrives
  <2> QED BY <2>2, <2>3
<1> QED BY <1>0, <1>1, <1>2, <1>4, <1>5, <1>6, <1>12, GameStep

LEMMA SameMoment ==
  ASSUME GameOK, cast' = cast, native' = native, scope' = scope, world' = world
  PROVE  /\ GameNow' = GameNow /\ GameNow \in Moments /\ Shift(GameNow, GameNow)
         /\ GameNow.seen = world
<1>1. GameNow' = GameNow
  BY DEF GameNow, Moment
<1>2. world \in SUBSET Plays
  BY DEF GameOK
<1>3. GameNow \in Moments /\ GameNow.seen = world
  BY <1>2 DEF GameNow, Moment, Moments
<1> QED BY <1>1, <1>3 DEF Shift

\* What is left of a queue of ended tasks.
LEMMA TailKept ==
  ASSUME NEW T, NEW s \in Seq(T), s # <<>>
  PROVE  /\ Head(s) \in T /\ Head(s) = s[1] /\ 1 \in DOMAIN s
         /\ Tail(s) \in Seq(T)
         /\ \A i \in DOMAIN Tail(s) : i + 1 \in DOMAIN s /\ Tail(s)[i] = s[i + 1]
<1>1. Len(s) \in Nat /\ Len(s) > 0 /\ DOMAIN s = 1 .. Len(s)
  BY EmptySeq, LenProperties
<1>2. /\ Tail(s) \in Seq(T) /\ Len(Tail(s)) = Len(s) - 1
      /\ \A i \in 1 .. Len(Tail(s)) : Tail(s)[i] = s[i + 1]
  BY HeadTailProperties
<1>3. DOMAIN Tail(s) = 1 .. Len(s) - 1
  BY <1>2, LenProperties
<1>4. \A i \in DOMAIN Tail(s) : i + 1 \in DOMAIN s
  BY <1>1, <1>3
<1>5. Head(s) \in T /\ Head(s) = s[1] /\ 1 \in DOMAIN s
  BY <1>1, HeadTailProperties
<1> QED BY <1>2, <1>3, <1>4, <1>5

LEMMA GameKept ==
  ASSUME GameOK, cast' = cast, native' = native, scope' = scope, world' = world,
         head' = head,
         ended' = ended \/ ended' = <<>> \/ (ended # <<>> /\ ended' = Tail(ended))
  PROVE  GameOK'
<1> DEFINE T == [act: Plays, ok: BOOLEAN]
<1>1. ended \in Seq(T)
  BY DEF GameOK
<1> HIDE DEF T
<1>2. ended' \in Seq(T) /\ \A i \in DOMAIN ended' : \E j \in DOMAIN ended : ended'[i] = ended[j]
  <2>1. CASE ended' = <<>>
    BY <2>1
  <2>2. CASE ended # <<>> /\ ended' = Tail(ended)
    BY <1>1, <2>2, TailKept
  <2> QED BY <1>1, <2>1, <2>2
<1>3. \A i \in DOMAIN ended' : cast'[ended'[i].act] = "task" /\ native'[ended'[i].act] = "over"
  BY <1>2 DEF GameOK
<1> QED BY <1>2, <1>3 DEF GameOK, T

\* A task ends on a thread of its own, whatever the recorder is doing.
LEMMA TaskEndsStep ==
  ASSUME RecordingInv, NEW a \in Plays, TaskEnds(a)
  PROVE  RecordingInv'
<1>1. /\ GameOK /\ CloseOK /\ native[a] = "working"
      /\ native' = [native EXCEPT ![a] = "over"]
      /\ world' = world /\ cast' = cast /\ head' = head /\ scope' = scope
      /\ life' = life /\ closer' = closer /\ sealed' = sealed
      /\ tracker' = tracker /\ trace' = trace /\ stream' = stream /\ mishaps' = mishaps
  BY DEF RecordingInv, TaskEnds, closeVars, diskVars
<1>2. PICK ok \in BOOLEAN : ended' = Append(ended, [act |-> a, ok |-> ok])
  BY DEF TaskEnds
<1> DEFINE T == [act: Plays, ok: BOOLEAN]
           task == [act |-> a, ok |-> ok]
<1>3. /\ native \in [Plays -> NativeStates] /\ cast[a] = "task"
      /\ ended \in Seq(T) /\ task \in T /\ task.act = a
  BY <1>1 DEF GameOK
<1>4. /\ native' \in [Plays -> NativeStates] /\ native'[a] = "over"
      /\ \A b \in Plays \ {a} : native'[b] = native[b]
  BY <1>1, <1>3 DEF NativeStates
<1> HIDE DEF T, task
<1>5. /\ ended' \in Seq(T)
      /\ \A i \in DOMAIN ended' : (i \in DOMAIN ended /\ ended'[i] = ended[i]) \/ ended'[i] = task
  <2>1. ended' = Append(ended, task)
    BY <1>2 DEF task
  <2> QED BY <1>3, <2>1, AppendProperties, LenProperties
<1>6. \A i \in DOMAIN ended' : cast'[ended'[i].act] = "task" /\ native'[ended'[i].act] = "over"
  <2>1. ASSUME NEW i \in DOMAIN ended
        PROVE  cast[ended[i].act] = "task" /\ native'[ended[i].act] = "over"
    <3>1. ended[i] \in T
      BY <1>3
    <3>2. ended[i].act \in Plays
      BY <3>1 DEF T
    <3> QED BY <1>1, <1>4, <3>2 DEF GameOK
  <2> QED BY <1>1, <1>3, <1>4, <1>5, <2>1
<1>7. GameOK'
  BY <1>1, <1>3, <1>4, <1>5, <1>6 DEF GameOK, T
<1>8. CloseOK'
  BY <1>1 DEF CloseOK, Unresolved
<1> DEFINE g == GameNow
           h == GameNow'
<1>0. g = GameNow /\ h = GameNow'
  OBVIOUS
<1> HIDE DEF g, h
<1>9. Shift(g, h) /\ (life # "closed" => Arrived(Now, h))
  BY <1>0, <1>1, <1>4, <1>7, QuietMoment
<1>10. life' # "closed" => Arrived(Now, GameNow)'
  BY <1>0, <1>1, <1>9, StepArrives, NowFacts
<1>11. life' = "closed" => Sealed'
  BY <1>0, <1>1, <1>9, SealedStays DEF RecordingInv
<1> QED BY <1>7, <1>8, <1>10, <1>11 DEF RecordingInv

\* The frame that sees the end of a task.
LEMMA ObserveTaskStep ==
  ASSUME RecordingInv, ObserveTask
  PROVE  RecordingInv'
<1> DEFINE a == Head(ended).act
           m == IF Head(ended).ok THEN Then(Finished(tracker, a), LAMBDA u : NativeCommit(u, a))
                ELSE Ends(tracker, a, "unknown")
           recs == IF ~Registered(a) THEN {Now} ELSE PersistOrUnknown(Now, m, {a})
<1>1. /\ GameOK /\ CloseOK /\ (life # "closed" => Arrived(Now, GameNow)) /\ GameRuns
      /\ ended # <<>> /\ ended' = Tail(ended)
      /\ native' = native /\ world' = world /\ cast' = cast /\ head' = head /\ scope' = scope
      /\ life' = life /\ closer' \in {closer, [closer EXCEPT !["game"].at = "asked"]}
      /\ sealed' = sealed
  BY DEF RecordingInv, ObserveTask
<1>2. PICK rec \in recs :
        /\ tracker' = rec.t /\ trace' = rec.trace /\ stream' = rec.stream
        /\ mishaps' = mishaps + rec.cost
  BY DEF ObserveTask, Observe
<1>3. a \in Plays
  <2> DEFINE T == [act: Plays, ok: BOOLEAN]
  <2>1. ended \in Seq(T)
    BY <1>1 DEF GameOK
  <2>2. Head(ended) \in T
    <3> HIDE DEF T
    <3> QED BY <1>1, <2>1, TailKept
  <2> QED BY <2>2
<1>4. GameOK'
  BY <1>1, GameKept
<1> DEFINE g == GameNow
<1>0. g = GameNow
  OBVIOUS
<1>5. GameNow' = g /\ Shift(g, g)
  BY <1>1, SameMoment
<1> HIDE DEF g, m, a
<1>6. life = "closed" => rec = Now
  BY <1>2 DEF Registered, Tracked
<1>7. life # "closed" => Arrived(rec, g)
  <2> SUFFICES ASSUME Registered(a) PROVE Arrived(rec, g)
    BY <1>0, <1>1, <1>2 DEF Registered, Tracked
  <2>1. life # "closed" /\ tracker.entry[a].held
    BY DEF Registered, Tracked
  <2>2. rec \in PersistOrUnknown(Now, m, {a})
    BY <1>2
  <2>3. /\ Now \in Steps /\ Synced(tracker, trace, g)
        /\ stream = "healthy" => Pending(tracker, g)
        /\ Now.t = tracker /\ Now.trace = trace /\ Now.stream = stream
    BY <1>1, <1>0, <2>1, NowStep, NowFacts
  <2>4. Reaches(trace, m, g) /\ Later(tracker, m.t)
    <3>1. CASE Head(ended).ok
      BY <1>3, <2>1, <2>3, <3>1, FinishSync DEF m
    <3>2. CASE ~Head(ended).ok
      BY <1>3, <2>1, <2>3, <3>2, EndsSync DEF m
    <3> QED BY <3>1, <3>2
  <2>5. stream = "healthy" => Pending(m.t, g)
    BY <2>3, <2>4, LaterPending
  <2> QED BY <1>0, <1>1, <1>3, <2>1, <2>2, <2>3, <2>4, <2>5, PersistHere
<1> QED BY <1>0, <1>1, <1>2, <1>4, <1>5, <1>6, <1>7, GameStep

LEMMA OwnerReadyStep ==
  ASSUME RecordingInv, OwnerReady
  PROVE  RecordingInv'
<1> DEFINE m == SettleWaiting(tracker, world, FALSE)
<1>1. /\ GameOK /\ CloseOK /\ (life # "closed" => Arrived(Now, GameNow)) /\ GameRuns
      /\ life # "closed" /\ ended' = ended
      /\ native' = native /\ world' = world /\ cast' = cast /\ head' = head /\ scope' = scope
      /\ life' = life /\ closer' = closer /\ sealed' = sealed
  BY DEF RecordingInv, OwnerReady, gameVars, closeVars
<1>2. PICK rec \in PersistOrUnknown(Now, m, {}) :
        /\ tracker' = rec.t /\ trace' = rec.trace /\ stream' = rec.stream
        /\ mishaps' = mishaps + rec.cost
  BY DEF OwnerReady, Observe
<1>4. GameOK'
  BY <1>1, GameKept
<1> DEFINE g == GameNow
<1>0. g = GameNow
  OBVIOUS
<1>5. GameNow' = g /\ Shift(g, g) /\ g.seen = world
  BY <1>1, SameMoment
<1> HIDE DEF g, m
<1>7. Arrived(rec, g)
  <2>3. /\ Now \in Steps /\ Synced(tracker, trace, g)
        /\ stream = "healthy" => Pending(tracker, g)
        /\ Now.t = tracker /\ Now.trace = trace /\ Now.stream = stream
    BY <1>1, <1>0, NowStep, NowFacts
  <2>4. stream = "healthy" => Reaches(trace, m, g) /\ Settled(tracker, m.t)
    <3>1. world \in {NoFrame, g.seen} /\ FALSE \in BOOLEAN
      BY <1>5
    <3> QED BY <2>3, <3>1, SettleWaitingSync DEF m
  <2>5. stream = "healthy" => Pending(m.t, g)
    BY <2>3, <2>4, SettledPending
  <2> QED BY <1>0, <1>1, <1>2, <2>3, <2>4, <2>5, PersistHere
<1> QED BY <1>0, <1>1, <1>2, <1>4, <1>5, <1>7, GameStep

\* A choice: what it is made in is settled first, then it acts and is accepted,
\* and then it may be settled in place.
LEMMA ChooseStep ==
  ASSUME RecordingInv, NEW k \in Plays, NEW p \in Plays, Choose(k, p)
  PROVE  RecordingInv'
<1> DEFINE frame == world'
           asked(r) == PersistOrDisable(r, DirectRoot(r.t, k, world))
           placed(inPlace, r) == IF inPlace /\ r.ok
                                 THEN PersistOrUnknown(r, Settle(r.t, k, frame, FALSE), {k})
                                 ELSE {r}
           m == NestedBoundary(tracker, head[p], world)
           recs(w, inPlace) ==
             CASE w = "held" -> Chain(Chain(PersistOrUnknown(Now, m, {head[p]}), asked),
                                      LAMBDA r : placed(inPlace, r))
               [] w = "failed" -> Escaped(Now)
               [] OTHER -> {Now}
<1>1. /\ GameOK /\ CloseOK /\ (life # "closed" => Arrived(Now, GameNow)) /\ GameRuns
      /\ native[k] = "idle" /\ cast[k] = "choice" /\ native[p] \in {"choosing", "working"}
      /\ head[p] = p \/ tracker.entry[head[p]].disposed
      /\ native' = [native EXCEPT ![k] = "over"]
      /\ world' = world \cup {k} /\ cast' = cast /\ ended' = ended
      /\ life' = life /\ closer' = closer /\ sealed' = sealed
  BY DEF RecordingInv, Choose, closeVars
<1>10. PICK w \in Witnesses \ (IF tracker.entry[p].held THEN {} ELSE {"held"}) :
         \E inPlace \in BOOLEAN :
           /\ scope' = [scope EXCEPT ![k] = w]
           /\ \E rec \in recs(w, inPlace) :
                /\ Observe({rec})
                /\ head' = IF rec.t.entry[k].held THEN [head EXCEPT ![p] = k] ELSE head
  BY <1>1 DEF Choose
<1>11. PICK inPlace \in BOOLEAN :
         /\ scope' = [scope EXCEPT ![k] = w]
         /\ \E rec \in recs(w, inPlace) :
              /\ Observe({rec})
              /\ head' = IF rec.t.entry[k].held THEN [head EXCEPT ![p] = k] ELSE head
  BY <1>10
<1> HIDE DEF m, asked, placed
<1>2. PICK rec \in recs(w, inPlace) :
        /\ Observe({rec})
        /\ head' = IF rec.t.entry[k].held THEN [head EXCEPT ![p] = k] ELSE head
  BY <1>11
<1>3. /\ tracker' = rec.t /\ trace' = rec.trace /\ stream' = rec.stream
      /\ mishaps' = mishaps + rec.cost
  BY <1>2 DEF Observe
<1>4. /\ w \in {"held", "failed", "none"} /\ (life # "recording" => w = "none")
      /\ w = "held" => tracker.entry[p].held
  BY <1>10 DEF Witnesses
<1>5. /\ scope \in [Plays -> {"none", "held", "failed"}] /\ head \in [Plays -> Plays]
      /\ k \notin world /\ cast[p] \in {"game", "task"} /\ head[p] \in Plays
  BY <1>1 DEF GameOK
<1>6. /\ scope' \in [Plays -> {"none", "held", "failed"}] /\ scope'[k] = w
      /\ \A b \in Plays \ {k} : scope'[b] = scope[b]
  BY <1>4, <1>5, <1>11
<1>7. head' \in [Plays -> Plays]
  BY <1>2, <1>5
<1>8. GameOK' /\ native'[k] = "over" /\ \A b \in Plays \ {k} : native'[b] = native[b]
  <2>1. world' \subseteq world \cup {k}
    BY <1>1
  <2>2. "over" \in NativeStates
    BY DEF NativeStates
  <2> QED BY <1>1, <1>6, <1>7, <2>1, <2>2, GameMoves
<1> DEFINE g == GameNow
           h == GameNow'
<1>0. g = GameNow /\ h = GameNow'
  OBVIOUS
<1> HIDE DEF g, h, recs, frame
<1>9. /\ g \in Moments /\ h \in Moments /\ g.seen = world /\ h.seen = world'
      /\ g.new \ {k} = h.new \ {k} /\ g.fresh \ {k} = h.fresh \ {k}
      /\ g.await \ {k} = h.await \ {k} /\ g.over \ {k} = h.over \ {k}
      /\ g.refused \ {k} = h.refused \ {k}
      /\ k \in g.new /\ k \notin h.new /\ k \in g.fresh /\ k \notin h.fresh
      /\ k \in g.await /\ k \notin h.await /\ k \notin g.over
      /\ k \in h.refused <=> w = "failed"
  BY <1>0, <1>1, <1>6, <1>8, OneMoves
<1>12. h.seen = g.seen \cup {k} /\ k \notin g.seen /\ h.seen = frame
  BY <1>1, <1>5, <1>9 DEF frame
<1>13. h.new = g.new \ {k} /\ h.fresh = g.fresh \ {k} /\ h.await = g.await \ {k}
  BY <1>9
<1>14. g.over \subseteq h.over
  BY <1>9
<1>15. h.refused \subseteq g.refused \cup {k} /\ (w # "failed" => h.refused \subseteq g.refused)
  BY <1>9
<1>16. Shift(g, h)
  BY <1>9, <1>12, <1>13, <1>14, <1>15 DEF Shift
<1>17. life = "closed" => rec = Now
  BY <1>2, <1>4 DEF recs
<1>18. life # "closed" => Arrived(rec, h)
  <2> SUFFICES ASSUME life # "closed" PROVE Arrived(rec, h)
    OBVIOUS
  <2>1. /\ Now \in Steps /\ Synced(tracker, trace, g)
        /\ stream = "healthy" => Pending(tracker, g)
        /\ Now.t = tracker /\ Now.trace = trace /\ Now.stream = stream
    BY <1>1, <1>0, NowStep, NowFacts
  <2>2. Synced(tracker, trace, h)
    BY <1>16, <2>1, SyncedShift
  <2>3. CASE w = "held"
    <3>1. PICK q \in PersistOrUnknown(Now, m, {head[p]}) :
            \E r \in asked(q) : rec \in placed(inPlace, r)
      BY <1>2, <2>3 DEF recs, Chain
    <3>2. PICK r \in asked(q) : rec \in placed(inPlace, r)
      BY <3>1
    <3>3. stream = "healthy" => Reaches(trace, m, g) /\ Later(tracker, m.t)
      <4>1. p \notin g.await
        BY <1>0, <1>1 DEF GameNow, Moment
      <4>2. \/ tracker.entry[head[p]].disposed
            \/ /\ tracker.entry[head[p]].held /\ head[p] \notin g.await
               /\ cast[head[p]] \in {"game", "task"}
        BY <1>1, <1>4, <1>5, <2>3, <4>1
      <4>3. m = NestedBoundary(tracker, head[p], g.seen)
        BY <1>9 DEF m
      <4> QED BY <1>5, <2>1, <4>2, <4>3, NestedSync
    <3>4. stream = "healthy" => Pending(m.t, g)
      BY <2>1, <3>3, LaterPending
    <3>5. Arrived(q, g)
      BY <1>0, <1>1, <1>5, <2>1, <3>1, <3>3, <3>4, PersistHere
    <3>6. q \in Steps /\ Synced(q.t, q.trace, g) /\ (q.stream = "healthy" => Pending(q.t, g))
      BY <3>5 DEF Arrived, Reached
    <3> DEFINE n == DirectRoot(q.t, k, world)
    <3>7. r \in PersistOrDisable(q, n)
      BY <3>2 DEF asked
    <3>8. q.stream = "healthy" => /\ Reaches(q.trace, n, h) /\ Pending(n.t, h)
                                  /\ HasStarted(n.t, k) /\ ~n.t.entry[k].disposed
                                  /\ n.t.entry[k].finished
      <4>1. h.refused \subseteq g.refused /\ cast[k] # "game" /\ cast[k] # "task"
        BY <1>1, <1>15, <2>3
      <4>2. n = DirectRoot(q.t, k, g.seen)
        BY <1>9
      <4> HIDE DEF n
      <4> QED BY <1>9, <1>12, <1>13, <1>14, <3>6, <4>1, <4>2, DirectRootSync
    <3> HIDE DEF n
    <3>9. /\ r \in Steps
          /\ \/ q.stream = "healthy" /\ IsKept(q, n, r)
             \/ IsFailed(q, r) /\ ~r.ok
      BY <3>6, <3>7, <3>8, DisableCases
    <3>10. Synced(q.t, q.trace, h)
      BY <1>16, <3>6, SyncedShift
    <3>11. Arrived(r, h)
      BY <3>8, <3>9, <3>10, KeptArrives, FailedArrives
    <3>12. CASE ~(inPlace /\ r.ok)
      <4>1. rec = r
        BY <3>2, <3>12 DEF placed
      <4> QED BY <3>11, <4>1
    <3>13. CASE inPlace /\ r.ok
      <4> DEFINE s == Settle(r.t, k, frame, FALSE)
      <4>1. rec \in PersistOrUnknown(r, s, {k})
        BY <3>2, <3>13 DEF placed
      <4>2. r.stream = "healthy" /\ r.t = n.t /\ HasStarted(r.t, k)
            /\ ~r.t.entry[k].disposed /\ r.t.entry[k].finished
        BY <3>8, <3>9, <3>13 DEF IsKept
      <4>3. Synced(r.t, r.trace, h) /\ Pending(r.t, h)
        BY <3>11, <4>2 DEF Arrived, Reached
      <4>4. frame \subseteq h.seen /\ k \in frame /\ FALSE \in BOOLEAN
        BY <1>12
      <4>5. Reaches(r.trace, s, h) /\ Settled(r.t, s.t)
        BY <4>2, <4>3, <4>4, SettleSync
      <4> HIDE DEF s
      <4>6. Pending(s.t, h)
        BY <4>3, <4>5, SettledPending
      <4> QED BY <3>11, <4>1, <4>5, <4>6, PersistHere
    <3> QED BY <3>12, <3>13
  <2>4. CASE w = "failed"
    <3>1. rec \in Escaped(Now)
      BY <1>2, <2>4 DEF recs
    <3> QED BY <2>1, <2>2, <3>1, EscapedArrives
  <2>5. CASE w = "none"
    <3>1. rec = Now /\ h.refused \cap h.seen \subseteq g.refused \cap g.seen
      <4>1. rec = Now
        BY <1>2, <2>5 DEF recs
      <4>2. h.refused \subseteq g.refused /\ k \notin h.refused
        BY <1>9, <1>15, <2>5
      <4> QED BY <1>12, <4>1, <4>2
    <3>2. ~tracker.entry[k].held /\ ~HasStarted(tracker, k)
      BY <1>9, <1>12, <2>1 DEF Synced, Begun
    <3>3. \A b \in (h.seen \ g.seen) \cup (g.await \ h.await) : b = k
      BY <1>12, <1>13
    <3>4. Arrived(Now, g)
      BY <1>0, <1>1
    <3> QED BY <1>16, <2>1, <3>1, <3>2, <3>3, <3>4, NowArrives
  <2> QED BY <1>4, <2>3, <2>4, <2>5
<1> QED BY <1>0, <1>1, <1>3, <1>8, <1>16, <1>17, <1>18, GameStep

-----------------------------------------------------------------------------
(* The lifecycle, and what is on disk in the end.                           *)

\* When nothing is open, what the tracker and the trace agree on is the audit.
LEMMA SyncedValid ==
  ASSUME NEW t, NEW tr, NEW g, Synced(t, tr, g), Unresolved(t) = {}
  PROVE  Valid(tr)
<1> SUFFICES ASSUME NEW n \in DOMAIN tr, NEW a, a = tr[n].act
             PROVE  ActionValid(tr, a)
  BY DEF Valid
<1>1. tr \in Seq(TraceRows)
  BY DEF Synced
<1>2. a \in Plays
  <2>1. tr[n] \in TraceRows
    BY <1>1
  <2> QED BY <2>1 DEF TraceRows
<1>3. /\ HeldRows(t, tr, a) /\ StartRows(t, tr, a) /\ EndRows(t, tr, a)
      /\ \A i \in DOMAIN tr : RowValid(tr, i, g)
  BY <1>2 DEF Synced
<1>4. t.entry[a].held
  BY <1>3 DEF HeldRows
<1>5. t.entry[a].disposed
  BY <1>2, <1>4 DEF Unresolved
<1>6. PICK i \in At(tr, a, {"accepted"}) : \A j \in DOMAIN tr :
        tr[j].act = a => i <= j /\ (tr[j].kind = "accepted" => j = i)
  BY <1>3, <1>4 DEF HeldRows
<1>7. \A j \in {x \in DOMAIN tr : tr[x].act = a} : i <= j
  BY <1>6
<1>8. Cardinality(At(tr, a, {"accepted"})) = 1
  <2>1. At(tr, a, {"accepted"}) = {i}
    BY <1>6 DEF At
  <2> QED BY <2>1, FS_Singleton
<1>9. Cardinality(At(tr, a, {"started"})) <= 1
  <2>1. CASE At(tr, a, {"started"}) = {}
    <3>1. Cardinality({}) = 0
      BY FS_EmptySet
    <3> QED BY <2>1, <3>1
  <2>2. CASE At(tr, a, {"started"}) # {}
    <3>1. PICK s : At(tr, a, {"started"}) = {s}
      BY <1>3, <2>2 DEF StartRows
    <3>2. Cardinality(At(tr, a, {"started"})) = 1
      BY <3>1, FS_Singleton
    <3> QED BY <3>2
  <2> QED BY <2>1, <2>2
<1>10. Cardinality(Disposition(tr, a)) = 1
  <2>1. PICK s : Disposition(tr, a) = {s}
    BY <1>3, <1>5 DEF EndRows
  <2> QED BY <2>1, FS_Singleton
<1>11. ASSUME NEW d \in Disposition(tr, a)
       PROVE  CASE tr[d].kind = "proved" -> ProofValid(tr, d)
                [] tr[d].kind = "cancelled_before" -> ~(At(tr, a, {"started"}) # {})
                [] tr[d].kind \in {"cancelled_after", "aborted"} -> At(tr, a, {"started"}) # {}
                [] OTHER -> TRUE
  <2>1. d \in DOMAIN tr /\ tr[d].act = a
    BY DEF Disposition, At
  <2>2. RowValid(tr, d, g)
    BY <1>3, <2>1
  <2> QED BY <2>1, <2>2 DEF RowValid
<1> QED BY <1>6, <1>7, <1>8, <1>9, <1>10, <1>11 DEF ActionValid

\* A step of the lifecycle: the game stays where it is.
LEMMA CloseStep ==
  ASSUME RecordingInv, cast' = cast, native' = native, scope' = scope, world' = world,
         head' = head,
         ended' = ended \/ ended' = <<>> \/ (ended # <<>> /\ ended' = Tail(ended)),
         CloseOK',
         NEW rec, tracker' = rec.t, trace' = rec.trace, stream' = rec.stream,
         life' # "closed" => Arrived(rec, GameNow),
         life' = "closed" => Sealed /\ trace' = trace
  PROVE  RecordingInv'
<1>1. GameOK
  BY DEF RecordingInv
<1>2. GameOK'
  BY <1>1, GameKept
<1> DEFINE g == GameNow
           h == GameNow'
<1>0. g = GameNow /\ h = GameNow'
  OBVIOUS
<1>3. h = g /\ Shift(g, h)
  BY <1>1, SameMoment
<1> HIDE DEF g, h
<1>4. life' # "closed" => Arrived(Now, GameNow)'
  BY <1>0, <1>3, StepArrives
<1>5. life' = "closed" => Sealed'
  BY <1>0, <1>3, SealedStays
<1> QED BY <1>2, <1>4, <1>5, CloseOK' DEF RecordingInv

LEMMA CloserFacts ==
  ASSUME CloseOK
  PROVE  /\ closer \in [Threads -> [at: {"off", "asked", "previewed", "written"},
                                    drafts: SUBSET Plays]]
         /\ \A th \in Threads : closer[th].at # "off" => th = "game"
         /\ Idle \in [at: {"off", "asked", "previewed", "written"}, drafts: SUBSET Plays]
         /\ Idle.at = "off"
         /\ stream \in Streams /\ mishaps \in Nat
         /\ (sealed = "receipt" <=> life = "closed")
         /\ "game" \in Threads /\ "remote" \in Threads
  BY DEF CloseOK, Threads, Idle

\* Pausing, resuming, asking for the close and asking again.
LEMMA AskStep ==
  ASSUME RecordingInv, ~RemoteClose,
         \/ PauseRecording \/ ResumeRecording \/ FrameCloses
         \/ \E th \in Threads : AskClose(th)
  PROVE  RecordingInv'
<1>1. /\ CloseOK /\ (life # "closed" => Arrived(Now, GameNow))
  BY DEF RecordingInv
<1>2. /\ cast' = cast /\ native' = native /\ scope' = scope /\ world' = world
      /\ head' = head /\ ended' = ended
      /\ tracker' = tracker /\ trace' = trace /\ stream' = stream /\ mishaps' = mishaps
      /\ sealed' = sealed
      /\ closer["game"].at = "off" /\ life # "closed" /\ life' # "closed"
      /\ closer' \in {closer, [closer EXCEPT !["game"].at = "asked"]}
  <2>1. CASE \E th \in Threads : AskClose(th)
    BY <2>1 DEF AskClose, gameVars, diskVars, Threads
  <2>2. CASE PauseRecording
    BY <2>2 DEF PauseRecording, GameRuns, gameVars, diskVars
  <2>3. CASE ResumeRecording
    BY <2>3 DEF ResumeRecording, GameRuns, gameVars, diskVars
  <2>4. CASE FrameCloses
    BY <2>4 DEF FrameCloses, GameRuns, gameVars, diskVars
  <2> QED BY <2>1, <2>2, <2>3, <2>4
<1>3. /\ closer' \in [Threads -> [at: {"off", "asked", "previewed", "written"},
                                  drafts: SUBSET Plays]]
      /\ closer'["remote"].at = "off" /\ closer'["game"].at # "previewed"
  BY <1>1, <1>2 DEF CloseOK, Threads
<1>4. CloseOK'
  BY <1>1, <1>2, <1>3 DEF CloseOK
<1> QED BY <1>1, <1>2, <1>4, NowFacts, CloseStep

LEMMA PreviewStep ==
  ASSUME RecordingInv, NEW th \in Threads, Preview(th)
  PROVE  RecordingInv'
<1>1. /\ CloseOK /\ (life # "closed" => Arrived(Now, GameNow)) /\ (life = "closed" => Sealed)
  BY DEF RecordingInv
<1> DEFINE off == life # "closing" \/ stuck \/ stream # "healthy"
           next == IF off THEN Idle ELSE [at |-> "previewed", drafts |-> Unresolved(tracker)]
<1>2. /\ cast' = cast /\ native' = native /\ scope' = scope /\ world' = world
      /\ head' = head /\ ended' = ended
      /\ tracker' = tracker /\ trace' = trace /\ stream' = stream /\ mishaps' = mishaps
      /\ sealed' = sealed /\ life' = life /\ closer[th].at = "asked"
      /\ closer' = [closer EXCEPT ![th] = next]
  BY DEF Preview, gameVars, diskVars
<1>3. th = "game"
  BY <1>1, <1>2, CloserFacts
<1>4. Unresolved(tracker) \subseteq Plays /\ Unresolved(tracker)' = Unresolved(tracker)
  BY <1>2 DEF Unresolved
<1>5. /\ next \in [at: {"off", "asked", "previewed", "written"}, drafts: SUBSET Plays]
      /\ next.at = "previewed" => life = "closing" /\ next.drafts = Unresolved(tracker)
  BY <1>1, <1>4, CloserFacts
<1> HIDE DEF next
<1>6. /\ closer' \in [Threads -> [at: {"off", "asked", "previewed", "written"},
                                  drafts: SUBSET Plays]]
      /\ closer'["remote"] = closer["remote"] /\ closer'["game"] = next
  BY <1>1, <1>2, <1>3, <1>5, CloserFacts
<1>7. CloseOK'
  BY <1>1, <1>2, <1>4, <1>5, <1>6 DEF CloseOK
<1> QED BY <1>1, <1>2, <1>7, NowFacts, CloseStep

\* The rows of the preview are those of the inputs that are open as they are
\* written: without a second thread nothing is accepted in between.
LEMMA WriteStep ==
  ASSUME RecordingInv, NEW th \in Threads, WriteClose(th)
  PROVE  RecordingInv'
<1>1. /\ CloseOK /\ (life # "closed" => Arrived(Now, GameNow))
  BY DEF RecordingInv
<1> DEFINE S == closer[th].drafts
           m == Gives(Disposed(tracker, Unresolved(tracker)), Unknowns(S))
           open == stream = "healthy" /\ life = "closing"
           recs == IF S = {} THEN {Now}
                   ELSE IF ~open THEN {[Now EXCEPT !.ok = FALSE]}
                   ELSE {Kept(Now, m)} \cup
                        (IF CanFail(Now)
                         THEN {Mishap(Now), [Mishap(Now) EXCEPT !.stream = "torn"]} ELSE {})
           next(rec) == IF rec.ok THEN [closer[th] EXCEPT !.at = "written", !.drafts = {}]
                        ELSE Idle
<1>2. /\ cast' = cast /\ native' = native /\ scope' = scope /\ world' = world
      /\ head' = head /\ ended' = ended
      /\ sealed' = sealed /\ life' = life /\ closer[th].at = "previewed"
  BY DEF WriteClose, gameVars
<1>3. PICK rec \in recs :
        /\ tracker' = rec.t /\ trace' = rec.trace /\ stream' = rec.stream
        /\ mishaps' = mishaps + rec.cost
        /\ closer' = [closer EXCEPT ![th] = next(rec)]
  <2>1. \E rec \in recs :
          /\ Observe({rec})
          /\ closer' = [closer EXCEPT ![th] = next(rec)]
    BY DEF WriteClose
  <2> HIDE DEF recs, next
  <2> QED BY <2>1 DEF Observe
<1>4. th = "game" /\ life = "closing" /\ S = Unresolved(tracker)
  BY <1>1, <1>2, CloserFacts DEF CloseOK
<1> DEFINE g == GameNow
<1>0. g = GameNow
  OBVIOUS
<1> HIDE DEF g
<1>5. /\ Now \in Steps /\ Synced(tracker, trace, g)
      /\ Now.t = tracker /\ Now.trace = trace /\ Now.stream = stream /\ Arrived(Now, g)
  BY <1>1, <1>0, <1>4, NowStep, NowFacts
<1>6. /\ Reaches(trace, m, g) /\ Settled(tracker, m.t) /\ Unresolved(m.t) = {}
  <2>1. m = Unknown(tracker, S)
    BY <1>4 DEF Unknown
  <2>2. m = Barrier(tracker)
    BY <1>4, <2>1 DEF Barrier
  <2> QED BY <1>5, <2>2, BarrierSync
<1> HIDE DEF m
<1>7. m.t \in Trackers /\ trace \o m.rows \in Seq(TraceRows) /\ Pending(m.t, g)
  BY <1>6, PendingNone DEF Reaches, Synced
<1>8. Arrived(rec, g)
  <2>1. CASE rec = Now
    BY <1>5, <2>1
  <2>2. CASE rec = [Now EXCEPT !.ok = FALSE]
    BY <1>5, <2>2, RefusedFacts DEF Arrived, Reached
  <2>3. CASE rec = Kept(Now, m)
    BY <1>5, <1>6, <1>7, <2>3, KeptFacts DEF Arrived, Reached, Reaches
  <2>4. CASE rec = Mishap(Now)
    BY <1>5, <2>4, MishapFacts DEF Arrived, Reached
  <2>5. CASE rec = [Mishap(Now) EXCEPT !.stream = "torn"]
    <3>1. rec \in Lost(Now)
      BY <2>5 DEF Lost
    <3> QED BY <1>5, <3>1, LostFacts, FailedArrives
  <2> QED BY <1>3, <2>1, <2>2, <2>3, <2>4, <2>5
<1>9. /\ next(rec) \in [at: {"off", "asked", "previewed", "written"}, drafts: SUBSET Plays]
      /\ next(rec).at # "previewed"
  <2>1. closer[th] \in [at: {"off", "asked", "previewed", "written"}, drafts: SUBSET Plays]
    BY <1>1, CloserFacts
  <2> QED BY <1>1, <2>1, CloserFacts
<1>10. /\ closer' \in [Threads -> [at: {"off", "asked", "previewed", "written"},
                                   drafts: SUBSET Plays]]
       /\ closer'["remote"] = closer["remote"] /\ closer'["game"].at # "previewed"
  <2> DEFINE e == next(rec)
  <2>1. /\ e \in [at: {"off", "asked", "previewed", "written"}, drafts: SUBSET Plays]
        /\ e.at # "previewed" /\ closer' = [closer EXCEPT ![th] = e]
    BY <1>3, <1>9
  <2> HIDE DEF e
  <2> QED BY <1>1, <1>4, <2>1, CloserFacts
<1>11. CloseOK'
  BY <1>1, <1>2, <1>3, <1>8, <1>10 DEF CloseOK, Arrived, Steps
<1> QED BY <1>0, <1>2, <1>3, <1>4, <1>8, <1>11, CloseStep

\* The receipt is published when nothing is open any more.
LEMMA SealStep ==
  ASSUME RecordingInv, NEW th \in Threads, Seal(th)
  PROVE  RecordingInv'
<1>1. /\ CloseOK /\ (life # "closed" => Arrived(Now, GameNow)) /\ (life = "closed" => Sealed)
  BY DEF RecordingInv
<1>2. /\ cast' = cast /\ native' = native /\ scope' = scope /\ world' = world
      /\ head' = head /\ (ended' = ended \/ ended' = <<>>)
      /\ trace' = trace /\ stream' = stream
      /\ closer[th].at = "written" /\ closer' = [closer EXCEPT ![th] = Idle]
      /\ \/ tracker' = tracker /\ life' = life /\ (sealed' = sealed \/ sealed' = "journaled")
            /\ (sealed' # sealed => life = "closing")
         \/ /\ life = "closing" /\ Unresolved(tracker) = {}
            /\ sealed' = "receipt" /\ life' = "closed"
      /\ mishaps' = mishaps \/ mishaps' = mishaps + 1
  BY DEF Seal
<1>3. th = "game"
  BY <1>1, <1>2, CloserFacts
<1>4. /\ closer' \in [Threads -> [at: {"off", "asked", "previewed", "written"},
                                  drafts: SUBSET Plays]]
      /\ closer'["remote"] = closer["remote"] /\ closer'["game"].at = "off"
  BY <1>1, <1>2, <1>3, CloserFacts
<1>5. mishaps' \in Nat /\ (sealed' = "receipt" <=> life' = "closed")
  BY <1>1, <1>2, CloserFacts
<1>6. CloseOK'
  BY <1>1, <1>2, <1>4, <1>5 DEF CloseOK
<1>7. CASE life' = "closed" /\ life = "closing" /\ Unresolved(tracker) = {}
  <2> DEFINE rec == [Now EXCEPT !.t = tracker']
  <2>1. Synced(tracker, trace, GameNow)
    BY <1>1, <1>7, NowStep
  <2>2. Sealed
    BY <1>7, <2>1, SyncedValid DEF Sealed, Synced
  <2>3. tracker' = rec.t /\ trace' = rec.trace /\ stream' = rec.stream
    BY <1>2 DEF Now
  <2> HIDE DEF rec
  <2> QED BY <1>2, <1>6, <1>7, <2>2, <2>3, CloseStep
<1>8. CASE tracker' = tracker /\ life' = life
  BY <1>1, <1>2, <1>6, <1>8, NowFacts, CloseStep
<1> QED BY <1>2, <1>7, <1>8

LEMMA RecordingStarts ==
  ASSUME RecordingInit
  PROVE  RecordingInv
<1> DEFINE t == NewTracker
           tr == <<>>
           g == GameNow
<1>0. g = GameNow /\ t = NewTracker
  OBVIOUS
<1>1. GameOK
  BY DEF RecordingInit, GameOK, NativeStates
<1>2. CloseOK
  BY DEF RecordingInit, CloseOK, Idle, Threads, Streams
<1>3. /\ tracker = t /\ trace = tr /\ stream = "healthy" /\ life = "recording"
  BY DEF RecordingInit
<1>4. NoEntry \in Entries
  BY DEF NoEntry, Entries, Frames
<1>5. t \in Trackers /\ t.order = <<>> /\ \A a \in Plays : t.entry[a] = NoEntry
  BY <1>4 DEF NewTracker, Trackers
<1>6. \A a : ~HasStarted(t, a)
  BY <1>5 DEF HasStarted, Contains
<1>7. tr \in Seq(TraceRows) /\ DOMAIN tr = {}
  OBVIOUS
<1>8. g \in Moments
  <2>1. world \in SUBSET Plays
    BY <1>1 DEF GameOK
  <2> QED BY <2>1 DEF GameNow, Moment, Moments
<1> HIDE DEF t, tr, g
<1>9. \A a, K : At(tr, a, K) = {}
  BY <1>7 DEF At
<1>10. ASSUME NEW a \in Plays
       PROVE /\ HeldRows(t, tr, a) /\ StartRows(t, tr, a) /\ BoundaryRows(t, tr, a)
             /\ EndRows(t, tr, a) /\ LifeRows(t, tr, a) /\ Begun(t, tr, a, g)
  <2>1. t.entry[a] = NoEntry
    BY <1>5
  <2>2. HeldRows(t, tr, a) /\ StartRows(t, tr, a) /\ BoundaryRows(t, tr, a)
    BY <1>6, <1>7, <1>9, <2>1 DEF HeldRows, StartRows, BoundaryRows, NoEntry
  <2>3. EndRows(t, tr, a) /\ LifeRows(t, tr, a) /\ Begun(t, tr, a, g)
    BY <1>6, <1>7, <1>9, <2>1 DEF EndRows, LifeRows, Begun, NoEntry, Disposition
  <2> QED BY <2>2, <2>3
<1>11. Synced(t, tr, g)
  BY <1>5, <1>7, <1>8, <1>10 DEF Synced, LastStart, PureRows
<1>12. Pending(t, g)
  <2>1. Unresolved(t) = {}
    BY <1>5 DEF Unresolved, NoEntry
  <2> QED BY <2>1, PendingNone
<1>13. Now \in Steps
  BY <1>3, <1>5, <1>7 DEF Now, Steps, Streams
<1>14. Arrived(Now, GameNow)
  BY <1>0, <1>3, <1>11, <1>12, <1>13, NowFacts DEF Arrived, Reached
<1> QED BY <1>1, <1>2, <1>3, <1>14 DEF RecordingInv

LEMMA RecordingStutters ==
  ASSUME RecordingInv, UNCHANGED recordVars
  PROVE  RecordingInv'
<1>1. /\ CloseOK /\ (life # "closed" => Arrived(Now, GameNow)) /\ (life = "closed" => Sealed)
  BY DEF RecordingInv
<1>2. /\ cast' = cast /\ native' = native /\ scope' = scope /\ world' = world
      /\ head' = head /\ ended' = ended
      /\ tracker' = tracker /\ trace' = trace /\ stream' = stream /\ mishaps' = mishaps
      /\ life' = life /\ closer' = closer /\ sealed' = sealed
  BY DEF recordVars, gameVars, diskVars, closeVars
<1>3. CloseOK'
  BY <1>1, <1>2 DEF CloseOK, Unresolved
<1> QED BY <1>1, <1>2, <1>3, NowFacts, CloseStep

LEMMA RecordingSteps ==
  ASSUME RecordingInv, ~RemoteClose, RecordingNext
  PROVE  RecordingInv'
<1>1. CASE \E a \in Plays : \/ Press(a) \/ Submit(a) \/ Enqueue(a) \/ Execute(a)
                            \/ PauseForChoice(a) \/ Resume(a) \/ Abort(a)
                            \/ Finish(a) \/ Cancel(a) \/ TaskEnds(a)
  BY <1>1, PressStep, SubmitStep, EnqueueStep, ExecuteStep, PauseStep, ResumeStep, AbortStep,
     FinishStep, CancelStep, TaskEndsStep
<1>2. CASE \E k, p \in Plays : Choose(k, p)
  BY <1>2, ChooseStep
<1>3. CASE ObserveTask \/ OwnerReady
  BY <1>3, ObserveTaskStep, OwnerReadyStep
<1>4. CASE \/ PauseRecording \/ ResumeRecording \/ FrameCloses
           \/ \E th \in Threads : AskClose(th)
  BY <1>4, AskStep
<1>5. CASE \E th \in Threads : Preview(th) \/ WriteClose(th) \/ Seal(th)
  BY <1>5, PreviewStep, WriteStep, SealStep
<1> QED BY <1>1, <1>2, <1>3, <1>4, <1>5 DEF RecordingNext

\* What the process leaves open is what the copy of the recording makes unknown.
LEMMA OpenRows ==
  ASSUME NEW t, NEW tr, NEW g, Synced(t, tr, g)
  PROVE  {a \in Accepted(tr) : Disposition(tr, a) = {}} = Unresolved(t)
<1>1. ASSUME NEW a \in Plays
      PROVE  a \in Accepted(tr) /\ Disposition(tr, a) = {} <=> a \in Unresolved(t)
  <2>1. HeldRows(t, tr, a) /\ EndRows(t, tr, a)
    BY DEF Synced
  <2>2. a \in Accepted(tr) <=> t.entry[a].held
    BY <2>1 DEF HeldRows, Accepted, At
  <2> QED BY <2>1, <2>2 DEF EndRows, Unresolved
<1> QED BY <1>1 DEF Accepted, Unresolved

LEMMA InvAudits ==
  ASSUME RecordingInv
  PROVE  RecordingAudits
<1>1. SealedTraceValid
  BY DEF RecordingInv, CloseOK, Sealed, SealedTraceValid
<1>2. ASSUME sealed = "open" PROVE Valid(Recovered(trace))
  <2>1. Synced(tracker, trace, GameNow)
    BY <1>2, NowStep DEF RecordingInv, CloseOK
  <2> DEFINE S == Unresolved(tracker)
             m == Unknown(tracker, S)
  <2>2. Recovered(trace) = trace \o m.rows
    BY <2>1, OpenRows DEF Recovered, Unknown, Gives
  <2>3. m = Barrier(tracker)
    BY DEF Barrier
  <2>4. Reaches(trace, m, GameNow) /\ Unresolved(m.t) = {}
    BY <2>1, <2>3, BarrierSync
  <2> HIDE DEF m
  <2> QED BY <2>2, <2>4, SyncedValid DEF Reaches
<1> QED BY <1>1, <1>2 DEF RecordingAudits, InterruptedRecoverable

LEMMA InvPure ==
  ASSUME RecordingInv
  PROVE  TransitionsPure
<1> DEFINE g == GameNow
<1>0. g = GameNow
  OBVIOUS
<1>1. trace \in Seq(TraceRows) /\ PureRows(trace, g)
  <2>1. CASE life = "closed"
    BY <2>1 DEF RecordingInv, Sealed
  <2>2. CASE life # "closed"
    BY <2>2, NowStep DEF RecordingInv, Synced
  <2> QED BY <2>1, <2>2
<1>2. g.refused = {b \in Plays : scope[b] = "failed" /\ cast[b] # "game"}
      /\ g.seen = world /\ world \subseteq Plays
  BY DEF GameNow, Moment, RecordingInv, GameOK
<1> HIDE DEF g
<1> SUFFICES ASSUME NEW i \in DOMAIN trace, trace[i].kind = "proved"
             PROVE  /\ trace[i].act \in trace[i].next \ trace[i].pre
                    /\ \A b \in (trace[i].next \ trace[i].pre) \ {trace[i].act} : ~Noticed(b)
  BY DEF TransitionsPure
<1>3. /\ trace[i].next \subseteq g.seen
      /\ trace[i].act \in trace[i].next \ trace[i].pre
      /\ \A b \in (trace[i].next \ trace[i].pre) \ {trace[i].act} :
           At(trace, b, {"started"}) = {} /\ b \notin g.refused
  BY <1>1 DEF PureRows, RowPure
<1>4. \A b \in trace[i].next : b \in Plays
  BY <1>2, <1>3
<1> QED BY <1>2, <1>3, <1>4 DEF Noticed

\* While every close comes from the game's thread, the tracker, the rows on disk and the
\* game agree: RecorderRuntime's batches, rolled back or kept whole, never let them part,
\* whatever appends fail, whatever is cancelled and however inputs interleave.
THEOREM RecordingInvariance == ~RemoteClose /\ RecordingSpec => []RecordingInv
<1> SUFFICES ASSUME ~RemoteClose PROVE RecordingSpec => []RecordingInv
  OBVIOUS
<1>1. RecordingInit => RecordingInv
  BY RecordingStarts
<1>2. RecordingInv /\ [RecordingNext]_recordVars => RecordingInv'
  BY RecordingSteps, RecordingStutters
<1> QED BY <1>1, <1>2, PTL DEF RecordingSpec

\* Every sealed recording passes the audit of SemanticBoundaryTraceValidator, and the
\* copy of every interrupted one can be made to, for any number and kind of inputs.
THEOREM RecordingsAudited == ~RemoteClose /\ RecordingSpec => []RecordingAudits
<1>1. RecordingInv => RecordingAudits
  BY InvAudits
<1> QED BY <1>1, RecordingInvariance, PTL

\* A proved transition holds its own effect and none of another input that the
\* recorder saw start or refused, for any number and kind of inputs.
THEOREM ProofsPure == ~RemoteClose /\ RecordingSpec => []TransitionsPure
<1>1. RecordingInv => TransitionsPure
  BY InvPure
<1> QED BY <1>1, RecordingInvariance, PTL

-----------------------------------------------------------------------------
(* Members.                                                                 *)

USE MembershipConstants

ActiveIsKnown == \A m \in Members : Active(m) => member[m].known

SessionsOwned ==
  \A f \in live :
    /\ flow[f].by \in Members
    /\ flow[f].device \in Computers
    /\ device[flow[f].device].owner = flow[f].by

\* RevokedMeansOut, from the session, the credential and the computer.
AccessActive ==
  /\ \A f \in live : Active(flow[f].by)
  /\ \A f \in Flows : flow[f].status = "approved" /\ flow[f].by \in Members
                       => Active(flow[f].by)
  /\ \A d \in Computers : device[d].owner \in Members /\ device[d].active
                           => Active(device[d].owner)

MInv == /\ MembershipTypeOK
        /\ ActiveIsKnown
        /\ SessionsOwned
        /\ AccessActive

\* The steps that leave the tables alone, or only take sessions away.
Quiet == /\ UNCHANGED <<member, device>>
         /\ live' \subseteq live
         /\ \A f \in Flows :
              \/ flow'[f] = flow[f]
              \/ /\ flow'[f].by = flow[f].by
                 /\ flow'[f].device = flow[f].device
                 /\ flow'[f].status # "approved"

LEMMA MembershipInitial == MembershipInit => MInv
<1> SUFFICES ASSUME MembershipInit PROVE MInv
  OBVIOUS
<1>1. MembershipTypeOK
  BY DEF MembershipInit, MembershipTypeOK, NoFlow, Unregistered, Person, Computer,
         Connection
<1>2. ActiveIsKnown /\ SessionsOwned /\ AccessActive
  BY DEF MembershipInit, ActiveIsKnown, SessionsOwned, AccessActive, Active,
         NoFlow, Unregistered
<1> QED BY <1>1, <1>2 DEF MInv

-----------------------------------------------------------------------------
(* The types.                                                              *)

LEMMA PersonRows ==
  ASSUME NEW r \in Person, NEW st \in {"absent", "invited", "active", "disabled"},
         NEW ro \in {"admin", "member"}, NEW q \in Nat
  PROVE  /\ [r EXCEPT !.status = st, !.role = ro, !.quota = q] \in Person
         /\ [r EXCEPT !.role = ro, !.status = st, !.quota = q] \in Person
  BY DEF Person

LEMMA ComputerActive ==
  ASSUME NEW r \in Computer, NEW b \in BOOLEAN
  PROVE  [r EXCEPT !.active = b] \in Computer
  BY DEF Computer

LEMMA ComputerKeyed ==
  ASSUME NEW r \in Computer, NEW k \in Nat
  PROVE  [r EXCEPT !.active = TRUE, !.key = k] \in Computer
  BY DEF Computer

LEMMA ComputerOwner ==
  ASSUME NEW r \in Computer, NEW m \in Members
  PROVE  /\ [r EXCEPT !.owner = m] \in Computer
         /\ [owner |-> m, active |-> TRUE, key |-> 1] \in Computer
  BY DEF Computer

LEMMA ConnectionStatus ==
  ASSUME NEW r \in Connection,
         NEW st \in {"absent", "proved", "pending", "approved", "denied",
                    "acknowledged"}
  PROVE  [r EXCEPT !.status = st] \in Connection
  BY DEF Connection

LEMMA ConnectionProved ==
  ASSUME NEW d \in Computers, NEW k \in Nat
  PROVE  [NoFlow EXCEPT !.status = "proved", !.device = d, !.key = k]
           \in Connection
  BY DEF Connection, NoFlow

LEMMA ConnectionApproved ==
  ASSUME NEW r \in Connection, NEW m \in Members, NEW d \in Computers,
         NEW b \in BOOLEAN
  PROVE  [r EXCEPT !.status = "approved", !.by = m, !.device = d, !.new = b]
           \in Connection
  BY DEF Connection

LEMMA FlowTypes ==
  ASSUME MembershipTypeOK, NEW f \in Flows,
         \/ \E d \in Computers : Prove(f, d)
         \/ \E m \in Members : Approve(f, m)
         \/ Create(f) \/ Deny(f) \/ Poll(f) \/ Collect(f) \/ Lose(f)
         \/ Acknowledge(f) \/ Logout(f) \/ Expire(f)
  PROVE  MembershipTypeOK'
<1>1. ASSUME NEW d \in Computers, Prove(f, d)
      PROVE  MembershipTypeOK'
  BY <1>1, ConnectionProved DEF MembershipTypeOK, Prove, Computer
<1>2. ASSUME NEW m \in Members, Approve(f, m)
      PROVE  MembershipTypeOK'
  <2> DEFINE b == flow[f].device = Nobody
  <2>1. PICK d \in Computers :
          /\ \/ device' = [device EXCEPT ![d] = [owner |-> m, active |-> TRUE, key |-> 1]]
             \/ device' = [device EXCEPT ![d].owner = m]
          /\ flow' = [flow EXCEPT ![f] = [flow[f] EXCEPT !.status = "approved",
                        !.by = m, !.device = d, !.new = b]]
    BY <1>2 DEF Approve, MembershipTypeOK
  <2>2. b \in BOOLEAN
    OBVIOUS
  <2> HIDE DEF b
  <2>3. device' \in [Computers -> Computer]
    <3>1. device[d] \in Computer
      BY DEF MembershipTypeOK
    <3>2. /\ [device[d] EXCEPT !.owner = m] \in Computer
          /\ [owner |-> m, active |-> TRUE, key |-> 1] \in Computer
      BY <3>1, ComputerOwner
    <3> QED BY <2>1, <3>2 DEF MembershipTypeOK
  <2>4. flow[f] \in Connection
    BY DEF MembershipTypeOK
  <2>5. [flow[f] EXCEPT !.status = "approved", !.by = m, !.device = d, !.new = b]
          \in Connection
    BY <2>2, <2>4, ConnectionApproved
  <2>6. flow' \in [Flows -> Connection]
    BY <2>1, <2>5 DEF MembershipTypeOK
  <2> QED BY <1>2, <2>3, <2>6 DEF MembershipTypeOK, Approve
<1>3. ASSUME NEW st \in {"pending", "denied", "acknowledged"},
             flow' = [flow EXCEPT ![f].status = st]
      PROVE  flow' \in [Flows -> Connection]
  <2>1. [flow[f] EXCEPT !.status = st] \in Connection
    BY ConnectionStatus DEF MembershipTypeOK
  <2> QED BY <1>3, <2>1 DEF MembershipTypeOK
<1>4. CASE Create(f) \/ Deny(f) \/ Acknowledge(f)
  BY <1>3, <1>4 DEF MembershipTypeOK, Create, Deny, Acknowledge
<1>5. CASE Poll(f) \/ Collect(f) \/ Lose(f)
  BY <1>5 DEF MembershipTypeOK, Poll, Collect, Lose
<1>6. CASE Logout(f) \/ Expire(f)
  BY <1>3, <1>6 DEF MembershipTypeOK, Logout, Expire
<1> QED BY <1>1, <1>2, <1>4, <1>5, <1>6

LEMMA ClearedTypes ==
  ASSUME MembershipTypeOK, NEW m \in Members
  PROVE  Cleared(m) \in [Flows -> Connection]
  BY ConnectionStatus DEF Cleared, MembershipTypeOK

LEMMA SignInTypes ==
  ASSUME MembershipTypeOK, NEW m \in Members, SignIn(m)
  PROVE  MembershipTypeOK'
<1>1. [member[m] EXCEPT !.status = "active", !.known = TRUE] \in Person
  BY DEF MembershipTypeOK, Person
<1> QED BY <1>1 DEF MembershipTypeOK, SignIn

LEMMA RevokeTypes ==
  ASSUME MembershipTypeOK, NEW p \in Members, NEW m \in Members,
         RevokeSessions(p, m)
  PROVE  MembershipTypeOK'
  BY ClearedTypes DEF MembershipTypeOK, RevokeSessions

LEMMA MemberTypes ==
  ASSUME MembershipTypeOK, NEW p \in Members, NEW m \in Members,
         NEW r \in {"admin", "member"}, NEW q \in Quotas,
         NEW s \in {member[m].status, "active", "disabled"},
         Invite(p, m, r, q) \/ Update(p, m, r, s, q)
  PROVE  MembershipTypeOK'
<1>1. s \in {"absent", "invited", "active", "disabled"} /\ q \in Nat
  BY DEF MembershipTypeOK, Person
<1>3. CASE Invite(p, m, r, q)
  BY <1>1, <1>3, PersonRows DEF MembershipTypeOK, Invite
<1>4. CASE Update(p, m, r, s, q)
  <2> DEFINE l == IF s = "active" /\ ~member[m].known THEN "invited" ELSE s
  <2>1. l \in {"absent", "invited", "active", "disabled"}
    BY <1>1
  <2>2. /\ member' = [member EXCEPT ![m].role = r, ![m].status = l, ![m].quota = q]
        /\ flow' = Cleared(m) \/ flow' = flow
        /\ live' \subseteq live
        /\ client' = client
        /\ \/ device' = device
           \/ device' = [d \in Computers |-> IF device[d].owner = m
                            THEN [device[d] EXCEPT !.active = FALSE]
                            ELSE device[d]]
    BY <1>4 DEF Update
  <2> HIDE DEF l
  <2>3. member' \in [Members -> Person]
    BY <1>1, <2>1, <2>2, PersonRows DEF MembershipTypeOK
  <2>4. \A d \in Computers : /\ device[d] \in Computer
                             /\ [device[d] EXCEPT !.active = FALSE] \in Computer
    BY ComputerActive DEF MembershipTypeOK
  <2>5. device' \in [Computers -> Computer]
    <3>1. CASE device' = device
      BY <3>1 DEF MembershipTypeOK
    <3>2. CASE device' = [d \in Computers |-> IF device[d].owner = m
                            THEN [device[d] EXCEPT !.active = FALSE]
                            ELSE device[d]]
      BY <2>4, <3>2
    <3> QED BY <2>2, <3>1, <3>2
  <2>6. live' \subseteq Flows
    BY <2>2 DEF MembershipTypeOK
  <2> QED BY <2>2, <2>3, <2>5, <2>6, ClearedTypes DEF MembershipTypeOK
<1> QED BY <1>3, <1>4

LEMMA DeviceTypes ==
  ASSUME MembershipTypeOK, NEW d \in Computers,
         Register(d) \/ RevokeDevice(d) \/ RotateDevice(d)
  PROVE  MembershipTypeOK'
<1>1. device[d] \in Computer /\ device[d].key + 1 \in Nat
  BY DEF MembershipTypeOK, Computer
<1>2. CASE Register(d)
  BY <1>1, <1>2, ComputerKeyed DEF MembershipTypeOK, Register
<1>3. CASE RevokeDevice(d)
  BY <1>1, <1>3, ComputerActive DEF MembershipTypeOK, RevokeDevice
<1>4. CASE RotateDevice(d)
  BY <1>1, <1>4, ComputerKeyed DEF MembershipTypeOK, RotateDevice
<1> QED BY <1>2, <1>3, <1>4

-----------------------------------------------------------------------------
(* The invariant.                                                          *)

LEMMA Enough == AccessActive /\ SessionsOwned /\ MembershipTypeOK => RevokedMeansOut
  BY DEF AccessActive, SessionsOwned, MembershipTypeOK, RevokedMeansOut, SessionsOf,
         ActiveOwned, Owned

MembersKept == ActiveIsKnown /\ SessionsOwned /\ AccessActive

LEMMA QuietKeeps == MInv /\ Quiet => MembersKept'
<1> SUFFICES ASSUME MInv, Quiet PROVE MembersKept'
  OBVIOUS
<1>1. ActiveIsKnown'
  BY DEF MInv, Quiet, ActiveIsKnown, Active
<1>2. SessionsOwned'
  BY DEF MInv, Quiet, SessionsOwned, MembershipTypeOK
<1>3. AccessActive'
  BY DEF MInv, Quiet, AccessActive, Active, MembershipTypeOK
<1> QED BY <1>1, <1>2, <1>3 DEF MembersKept

\* What the steps of a flow, except its start and its approval, do to it.
LEMMA FlowQuiet ==
  ASSUME MembershipTypeOK, NEW f \in Flows,
         \/ Create(f) \/ Deny(f) \/ Poll(f) \/ Collect(f) \/ Lose(f)
         \/ Acknowledge(f) \/ Logout(f) \/ Expire(f)
  PROVE  Quiet
<1>1. ASSUME NEW st \in {"pending", "denied", "acknowledged"},
             flow' = [flow EXCEPT ![f].status = st],
             UNCHANGED <<member, device, live>>
      PROVE  Quiet
  BY <1>1 DEF Quiet, MembershipTypeOK, Connection
<1>2. CASE Create(f) \/ Deny(f) \/ Acknowledge(f)
  BY <1>1, <1>2 DEF Create, Deny, Acknowledge
<1>3. CASE Poll(f) \/ Collect(f) \/ Lose(f) \/ Logout(f)
  BY <1>3 DEF Quiet, Poll, Collect, Lose, Logout
<1>4. CASE Expire(f)
  <2>1. CASE flow' = flow
    BY <1>4, <2>1 DEF Quiet, Expire
  <2>2. CASE flow' = [flow EXCEPT ![f].status = "denied"] /\ live' = live
    BY <1>1, <1>4, <2>2 DEF Expire
  <2> QED BY <1>4, <2>1, <2>2 DEF Expire
<1> QED BY <1>2, <1>3, <1>4

LEMMA RevokeQuiet ==
  ASSUME MembershipTypeOK, NEW p \in Members, NEW m \in Members,
         RevokeSessions(p, m)
  PROVE  Quiet
  BY DEF RevokeSessions, Quiet, Cleared, MembershipTypeOK, Connection

LEMMA ProveKeeps ==
  ASSUME MInv, NEW f \in Flows, NEW d \in Computers, Prove(f, d)
  PROVE  MembersKept'
<1>1. /\ UNCHANGED <<member, device, live>>
      /\ flow[f].by = Nobody
      /\ flow'[f].by = Nobody /\ flow'[f].status = "proved"
      /\ \A g \in Flows : g # f => flow'[g] = flow[g]
  BY DEF Prove, NoFlow, MInv, MembershipTypeOK
<1>2. f \notin live
  BY <1>1 DEF MInv, SessionsOwned
<1>3. ActiveIsKnown'
  BY <1>1 DEF MInv, ActiveIsKnown, Active
<1>4. SessionsOwned'
  BY <1>1, <1>2 DEF MInv, SessionsOwned, MembershipTypeOK
<1>5. AccessActive'
  BY <1>1, <1>2 DEF MInv, AccessActive, Active, MembershipTypeOK
<1> QED BY <1>3, <1>4, <1>5 DEF MembersKept

\* An approval gives away a computer only to its owner or when it has none.
LEMMA ApproveEffect ==
  ASSUME MembershipTypeOK, NEW f \in Flows, NEW m \in Members, Approve(f, m)
  PROVE  \E d \in Computers :
           /\ UNCHANGED member
           /\ live' = live \cup {f}
           /\ flow'[f].by = m /\ flow'[f].device = d
           /\ \A g \in Flows : g # f => flow'[g] = flow[g]
           /\ device[d].owner \in {Nobody, m}
           /\ device'[d].owner = m
           /\ \A c \in Computers : c # d => device'[c] = device[c]
<1> DEFINE b == flow[f].device = Nobody
<1>1. PICK d \in Computers :
        /\ \/ /\ device[d] = Unregistered
              /\ device' = [device EXCEPT ![d] = [owner |-> m, active |-> TRUE, key |-> 1]]
           \/ /\ device[d].owner \in {Nobody, m}
              /\ device' = [device EXCEPT ![d].owner = m]
        /\ flow' = [flow EXCEPT ![f] = [flow[f] EXCEPT !.status = "approved",
                      !.by = m, !.device = d, !.new = b]]
  BY DEF Approve, Eligible, MembershipTypeOK
<1> HIDE DEF b
<1>2. flow[f] \in Connection /\ device[d] \in Computer
  BY DEF MembershipTypeOK
<1>3. flow'[f].by = m /\ flow'[f].device = d
  BY <1>1, <1>2 DEF MembershipTypeOK, Connection
<1>4. device[d].owner \in {Nobody, m} /\ device'[d].owner = m
  BY <1>1, <1>2 DEF MembershipTypeOK, Computer, Unregistered
<1>5. /\ \A g \in Flows : g # f => flow'[g] = flow[g]
      /\ \A c \in Computers : c # d => device'[c] = device[c]
  BY <1>1 DEF MembershipTypeOK
<1> QED BY <1>3, <1>4, <1>5 DEF Approve

LEMMA ApproveKeeps ==
  ASSUME MInv, NEW f \in Flows, NEW m \in Members, Approve(f, m)
  PROVE  MembersKept'
<1>1. PICK d \in Computers :
        /\ UNCHANGED member
        /\ live' = live \cup {f}
        /\ flow'[f].by = m /\ flow'[f].device = d
        /\ \A g \in Flows : g # f => flow'[g] = flow[g]
        /\ device[d].owner \in {Nobody, m}
        /\ device'[d].owner = m
        /\ \A c \in Computers : c # d => device'[c] = device[c]
  BY ApproveEffect DEF MInv
<1>2. Active(m)'
  BY <1>1 DEF Approve, Active
<1>3. ActiveIsKnown'
  BY <1>1 DEF MInv, ActiveIsKnown, Active
<1>4. SessionsOwned'
  <2> SUFFICES ASSUME NEW g \in live'
               PROVE  /\ flow'[g].by \in Members
                      /\ flow'[g].device \in Computers
                      /\ device'[flow'[g].device].owner = flow'[g].by
    BY DEF SessionsOwned
  <2>1. CASE g = f
    BY <1>1, <2>1
  <2>2. CASE g # f
    <3>1. /\ g \in live /\ flow'[g] = flow[g]
          /\ flow[g].by \in Members /\ flow[g].device \in Computers
          /\ device[flow[g].device].owner = flow[g].by
      BY <1>1, <2>2 DEF MInv, SessionsOwned, MembershipTypeOK
    <3>2. device'[flow[g].device].owner = flow[g].by
      BY <1>1, <3>1
    <3> QED BY <3>1, <3>2
  <2> QED BY <2>1, <2>2
<1>5. AccessActive'
  BY <1>1, <1>2 DEF MInv, AccessActive, Active, MembershipTypeOK
<1> QED BY <1>3, <1>4, <1>5 DEF MembersKept

\* A step that takes nobody's membership away and changes nothing else.
LEMMA GainKeeps ==
  ASSUME MInv, UNCHANGED <<device, flow, live>>,
         \A m \in Members : Active(m) => Active(m)',
         \A m \in Members : Active(m)' => member'[m].known
  PROVE  MembersKept'
  BY DEF MInv, MembersKept, ActiveIsKnown, SessionsOwned, AccessActive, Active

LEMMA SignInKeeps ==
  ASSUME MInv, NEW m \in Members, SignIn(m)
  PROVE  MembersKept'
<1>1. /\ member'[m].status = "active" /\ member'[m].known
      /\ \A n \in Members : n # m => member'[n] = member[n]
      /\ UNCHANGED <<device, flow, live>>
  BY DEF SignIn, MInv, MembershipTypeOK, Person
<1>2. \A n \in Members : /\ Active(n) => Active(n)'
                         /\ Active(n)' => member'[n].known
  BY <1>1 DEF Active, MInv, ActiveIsKnown
<1> QED BY <1>1, <1>2, GainKeeps

LEMMA InviteKeeps ==
  ASSUME MInv, NEW p \in Members, NEW m \in Members,
         NEW r \in {"admin", "member"}, NEW q \in Quotas, Invite(p, m, r, q)
  PROVE  MembersKept'
<1>1. /\ member[m].status = "absent" /\ member'[m].status = "invited"
      /\ \A n \in Members : n # m => member'[n] = member[n]
      /\ UNCHANGED <<device, flow, live>>
  BY DEF Invite, MInv, MembershipTypeOK, Person
<1>2. \A n \in Members : /\ Active(n) => Active(n)'
                         /\ Active(n)' => member'[n].known
  BY <1>1 DEF Active, MInv, ActiveIsKnown
<1> QED BY <1>1, <1>2, GainKeeps

\* An update that does not clear the member leaves an active one active.
LEMMA UpdateEffect ==
  ASSUME MInv, NEW p \in Members, NEW m \in Members,
         NEW r \in {"admin", "member"}, NEW q \in Quotas,
         NEW s \in {member[m].status, "active", "disabled"},
         Update(p, m, r, s, q)
  PROVE  /\ \A n \in Members : n # m => member'[n] = member[n]
         /\ member'[m].known = member[m].known
         /\ Active(m)' => member[m].known
         /\ \/ /\ UNCHANGED <<live, flow, device>>
               /\ Active(m) => Active(m)'
            \/ /\ live' = live \ SessionsOf(m)
               /\ flow' = Cleared(m)
               /\ device' = [d \in Computers |-> IF device[d].owner = m
                               THEN [device[d] EXCEPT !.active = FALSE]
                               ELSE device[d]]
<1> DEFINE l == IF s = "active" /\ ~member[m].known THEN "invited" ELSE s
<1>1. /\ member[m].status = "active" => member[m].known
      /\ l = "active" => member[m].known
      /\ l # "disabled" /\ member[m].status = "active" => l = "active"
  BY DEF MInv, ActiveIsKnown, Active
<1>2. /\ member' = [member EXCEPT ![m].role = r, ![m].status = l, ![m].quota = q]
      /\ \/ /\ UNCHANGED <<live, flow, device>>
            /\ l # "disabled" \/ ~member[m].known
         \/ /\ live' = live \ SessionsOf(m)
            /\ flow' = Cleared(m)
            /\ device' = [d \in Computers |-> IF device[d].owner = m
                            THEN [device[d] EXCEPT !.active = FALSE]
                            ELSE device[d]]
  BY DEF Update
<1> HIDE DEF l
<1>3. /\ \A n \in Members : n # m => member'[n] = member[n]
      /\ member'[m].status = l
      /\ member'[m].known = member[m].known
  BY <1>2 DEF MInv, MembershipTypeOK, Person
<1> QED BY <1>1, <1>2, <1>3 DEF Active

LEMMA UpdateKeeps ==
  ASSUME MInv, NEW p \in Members, NEW m \in Members,
         NEW r \in {"admin", "member"}, NEW q \in Quotas,
         NEW s \in {member[m].status, "active", "disabled"},
         Update(p, m, r, s, q)
  PROVE  MembersKept'
<1>1. /\ \A n \in Members : n # m => member'[n] = member[n]
      /\ member'[m].known = member[m].known
      /\ Active(m)' => member[m].known
  BY UpdateEffect
<1>2. \A n \in Members : /\ n # m => (Active(n) <=> Active(n)')
                         /\ Active(n)' => member'[n].known
  BY <1>1 DEF Active, MInv, ActiveIsKnown
<1>3. CASE UNCHANGED <<live, flow, device>> /\ (Active(m) => Active(m)')
  BY <1>2, <1>3, GainKeeps
<1>4. CASE /\ live' = live \ SessionsOf(m)
           /\ flow' = Cleared(m)
           /\ device' = [d \in Computers |-> IF device[d].owner = m
                           THEN [device[d] EXCEPT !.active = FALSE]
                           ELSE device[d]]
  <2>1. /\ \A f \in Flows :
             /\ flow'[f].by = flow[f].by /\ flow'[f].device = flow[f].device
             /\ flow'[f].status = "approved" =>
                  flow[f].status = "approved" /\ flow[f].by # m
        /\ \A d \in Computers :
             /\ device'[d].owner = device[d].owner
             /\ device'[d].active => device[d].active
             /\ device[d].owner = m => ~device'[d].active
        /\ \A f \in live' : f \in live /\ flow[f].by # m
    <3>1. \A f \in Flows :
            /\ flow'[f].by = flow[f].by /\ flow'[f].device = flow[f].device
            /\ flow'[f].status = "approved" =>
                 flow[f].status = "approved" /\ flow[f].by # m
      BY <1>4 DEF Cleared, MInv, MembershipTypeOK, Connection
    <3>2. \A d \in Computers :
            /\ device'[d].owner = device[d].owner
            /\ device'[d].active => device[d].active
            /\ device[d].owner = m => ~device'[d].active
      BY <1>4 DEF MInv, MembershipTypeOK, Computer
    <3> QED BY <1>4, <3>1, <3>2 DEF SessionsOf
  <2>2. ActiveIsKnown'
    BY <1>2 DEF ActiveIsKnown
  <2>3. SessionsOwned'
    BY <2>1 DEF MInv, SessionsOwned, MembershipTypeOK
  <2>4. AccessActive'
    <3>1. (\A f \in live : Active(flow[f].by))'
      BY <1>2, <2>1 DEF MInv, AccessActive, SessionsOwned, MembershipTypeOK, Active
    <3>2. (\A f \in Flows : flow[f].status = "approved" /\ flow[f].by \in Members
                             => Active(flow[f].by))'
      BY <1>2, <2>1 DEF MInv, AccessActive, Active
    <3>3. (\A d \in Computers : device[d].owner \in Members /\ device[d].active
                                 => Active(device[d].owner))'
      BY <1>2, <2>1 DEF MInv, AccessActive, Active
    <3> QED BY <3>1, <3>2, <3>3 DEF AccessActive
  <2> QED BY <2>2, <2>3, <2>4 DEF MembersKept
<1> QED BY <1>3, <1>4, UpdateEffect

\* A rotation gives access back only to a computer of an active member.
LEMMA DeviceKeeps ==
  ASSUME MInv, NEW d \in Computers,
         Register(d) \/ RevokeDevice(d) \/ RotateDevice(d)
  PROVE  MembersKept' /\ \A c \in Computers : device'[c].owner = device[c].owner
<1>1. /\ UNCHANGED <<member, flow, live>>
      /\ \A c \in Computers : device'[c].owner = device[c].owner
      /\ \A c \in Computers : c # d => device'[c] = device[c]
      /\ device'[d].active /\ device[d].owner \in Members
           => Active(device[d].owner)
  <2>1. device[d] \in Computer
    BY DEF MInv, MembershipTypeOK
  <2>2. CASE Register(d)
    BY <2>1, <2>2 DEF Register, Unregistered, MInv, MembershipTypeOK
  <2>3. CASE RevokeDevice(d)
    BY <2>1, <2>3 DEF RevokeDevice, MInv, MembershipTypeOK, Computer
  <2>4. CASE RotateDevice(d)
    BY <2>1, <2>4 DEF RotateDevice, MInv, MembershipTypeOK, Computer
  <2> QED BY <2>2, <2>3, <2>4
<1>2. ActiveIsKnown'
  BY <1>1 DEF MInv, ActiveIsKnown, Active
<1>3. SessionsOwned'
  BY <1>1 DEF MInv, SessionsOwned
<1>4. AccessActive'
  BY <1>1 DEF MInv, AccessActive, Active
<1> QED BY <1>1, <1>2, <1>3, <1>4 DEF MembersKept

\* MembershipNext, one disjunct of it at a time.
LEMMA StepKeeps == MInv /\ [MembershipNext]_memberVars => MInv'
<1> SUFFICES ASSUME MInv, [MembershipNext]_memberVars PROVE MInv'
  OBVIOUS
<1> USE DEF MInv
<1>1. CASE UNCHANGED memberVars
  <2>1. MembershipTypeOK' /\ Quiet
    BY <1>1 DEF memberVars, MembershipTypeOK, Quiet
  <2> QED BY <2>1, QuietKeeps DEF MembersKept
<1>2. ASSUME NEW m \in Members, SignIn(m)
      PROVE  MInv'
  BY <1>2, SignInKeeps, SignInTypes DEF MembersKept
<1>3. ASSUME NEW p \in Members, NEW m \in Members,
             NEW r \in {"admin", "member"}, NEW q \in Quotas, Invite(p, m, r, q)
      PROVE  MInv'
  BY <1>3, InviteKeeps, MemberTypes DEF MembersKept
<1>4. ASSUME NEW p \in Members, NEW m \in Members,
             NEW r \in {"admin", "member"}, NEW q \in Quotas,
             NEW s \in {member[m].status, "active", "disabled"},
             Update(p, m, r, s, q)
      PROVE  MInv'
  BY <1>4, UpdateKeeps, MemberTypes DEF MembersKept
<1>5. ASSUME NEW p \in Members, NEW m \in Members, RevokeSessions(p, m)
      PROVE  MInv'
  BY <1>5, RevokeQuiet, RevokeTypes, QuietKeeps DEF MembersKept
<1>6. ASSUME NEW d \in Computers,
             Register(d) \/ RevokeDevice(d) \/ RotateDevice(d)
      PROVE  MInv'
  BY <1>6, DeviceKeeps, DeviceTypes DEF MembersKept
<1>7. ASSUME NEW f \in Flows, NEW d \in Computers, Prove(f, d)
      PROVE  MInv'
  BY <1>7, ProveKeeps, FlowTypes DEF MembersKept
<1>8. ASSUME NEW f \in Flows, NEW m \in Members, Approve(f, m)
      PROVE  MInv'
  BY <1>8, ApproveKeeps, FlowTypes DEF MembersKept
<1>9. ASSUME NEW f \in Flows,
             \/ Create(f) \/ Deny(f) \/ Poll(f) \/ Collect(f) \/ Lose(f)
             \/ Acknowledge(f) \/ Logout(f) \/ Expire(f)
      PROVE  MInv'
  <2>1. MembershipTypeOK' /\ Quiet
    BY <1>9, FlowTypes, FlowQuiet
  <2> QED BY <2>1, QuietKeeps DEF MembersKept
<1> QED BY <1>1, <1>2, <1>3, <1>4, <1>5, <1>6, <1>7, <1>8, <1>9 DEF MembershipNext

\* The inductive invariant of hub/membership.py, hub/identity.py and the
\* device operations of hub/database.py.
THEOREM MembershipInvariance == MembershipSpec => []MInv
<1> QED BY MembershipInitial, StepKeeps, PTL DEF MembershipSpec

-----------------------------------------------------------------------------
(* The properties of the run.                                              *)

\* For every number of members and devices: who is not active has no session,
\* no credential to collect and no working computer (membership.py:347).
THEOREM RevocationHolds == MembershipSpec => []RevokedMeansOut
<1>1. MInv => RevokedMeansOut
  BY Enough DEF MInv
<1> QED BY MembershipInvariance, <1>1, PTL

LEMMA FlowSteps ==
  ASSUME MInv, NEW f \in Flows,
         \/ Create(f) \/ Deny(f) \/ Poll(f) \/ Lose(f)
         \/ Acknowledge(f) \/ Logout(f) \/ Expire(f)
  PROVE  \A g \in Flows : client'[g] = "connected" => client[g] = "connected"
<1>1. client \in [Flows -> {"waiting", "collecting", "connected"}]
  BY DEF MInv, MembershipTypeOK
<1> QED BY <1>1 DEF Create, Deny, Poll, Lose, Acknowledge, Logout, Expire

\* A computer is handed its credentials only while the session is live and
\* its member active, for the computer that member owns (identity.py:450).
THEOREM CredentialsAreLive == MembershipSpec => CredentialsLive
<1> DEFINE Handed == \A f \in Flows :
             client[f] # "connected" /\ client'[f] = "connected" =>
               /\ f \in live
               /\ Active(flow[f].by)
               /\ device[flow[f].device].owner = flow[f].by
<1>1. ASSUME MInv, MembershipNext
      PROVE  Handed
  <2>1. ASSUME NEW f \in Flows, Collect(f)
        PROVE  Handed
    <3>1. client' = [client EXCEPT ![f] = IF f \in live /\ Active(flow[f].by)
                                          THEN "connected" ELSE "waiting"]
      BY <2>1 DEF Collect
    <3>2. client \in [Flows -> {"waiting", "collecting", "connected"}]
      BY <1>1 DEF MInv, MembershipTypeOK
    <3> QED BY <1>1, <3>1, <3>2 DEF MInv, SessionsOwned
  <2>2. ASSUME NEW f \in Flows,
               \/ Create(f) \/ Deny(f) \/ Poll(f) \/ Lose(f)
               \/ Acknowledge(f) \/ Logout(f) \/ Expire(f)
        PROVE  Handed
    BY <1>1, <2>2, FlowSteps
  <2>3. ASSUME NEW f \in Flows,
               \/ \E d \in Computers : Prove(f, d)
               \/ \E m \in Members : Approve(f, m)
        PROVE  UNCHANGED client
    BY <2>3 DEF Prove, Approve
  <2>4. ASSUME NEW m \in Members, SignIn(m)
        PROVE  UNCHANGED client
    BY <2>4 DEF SignIn
  <2>5. ASSUME NEW p \in Members, NEW m \in Members,
               \/ \E r \in {"admin", "member"}, q \in Quotas : Invite(p, m, r, q)
               \/ \E r \in {"admin", "member"}, q \in Quotas,
                     s \in {member[m].status, "active", "disabled"} :
                       Update(p, m, r, s, q)
               \/ RevokeSessions(p, m)
        PROVE  UNCHANGED client
    BY <2>5 DEF Invite, Update, RevokeSessions
  <2>6. ASSUME NEW d \in Computers,
               Register(d) \/ RevokeDevice(d) \/ RotateDevice(d)
        PROVE  UNCHANGED client
    BY <2>6 DEF Register, RevokeDevice, RotateDevice
  <2>7. UNCHANGED client => Handed
    OBVIOUS
  <2> HIDE DEF Handed
  <2> QED BY <1>1, <2>1, <2>2, <2>3, <2>4, <2>5, <2>6, <2>7 DEF MembershipNext
<1>2. MInv /\ [MembershipNext]_memberVars => [Handed]_client
  BY <1>1 DEF memberVars
<1> QED BY MembershipInvariance, <1>2, PTL DEF MembershipSpec, CredentialsLive

\* A computer with an owner never gets another one (identity.py:300).
THEOREM OwnersKept == MembershipSpec => NeverReowned
<1> DEFINE Same == \A d \in Computers :
             device[d].owner # Nobody => device'[d].owner = device[d].owner
<1>1. ASSUME MInv, MembershipNext
      PROVE  Same
  <2>1. CASE UNCHANGED device
    BY <2>1
  <2>2. ASSUME NEW p \in Members, NEW m \in Members,
               NEW r \in {"admin", "member"}, NEW q \in Quotas,
               NEW s \in {member[m].status, "active", "disabled"},
               Update(p, m, r, s, q)
        PROVE  Same
    BY <1>1, <2>2, UpdateEffect DEF MInv, MembershipTypeOK, Computer
  <2>3. ASSUME NEW d \in Computers,
               Register(d) \/ RevokeDevice(d) \/ RotateDevice(d)
        PROVE  Same
    BY <1>1, <2>3, DeviceKeeps
  <2>4. ASSUME NEW f \in Flows, NEW m \in Members, Approve(f, m)
        PROVE  Same
    BY <1>1, <2>4, ApproveEffect DEF MInv
  <2>5. ASSUME NEW m \in Members,
               \/ SignIn(m)
               \/ \E p \in Members : RevokeSessions(p, m)
               \/ \E p \in Members, r \in {"admin", "member"}, q \in Quotas :
                    Invite(p, m, r, q)
        PROVE  Same
    BY <2>1, <2>5 DEF SignIn, RevokeSessions, Invite
  <2>6. ASSUME NEW f \in Flows,
               \/ \E d \in Computers : Prove(f, d)
               \/ Create(f) \/ Deny(f) \/ Poll(f) \/ Collect(f) \/ Lose(f)
               \/ Acknowledge(f) \/ Logout(f) \/ Expire(f)
        PROVE  Same
    BY <2>1, <2>6 DEF Prove, Create, Deny, Poll, Collect, Lose, Acknowledge,
       Logout, Expire
  <2> HIDE DEF Same
  <2> QED BY <1>1, <2>2, <2>3, <2>4, <2>5, <2>6 DEF MembershipNext
<1>2. MInv /\ [MembershipNext]_memberVars => [Same]_device
  BY <1>1 DEF memberVars
<1> QED BY MembershipInvariance, <1>2, PTL DEF MembershipSpec, NeverReowned

\* Administrators cannot lock everybody out, whatever they do to each other:
\* the last one is never demoted or disabled (membership.py:330).
THEOREM AdministratorRemains == MembershipSpec => AdminRemains
<1>1. ASSUME MInv, MembershipNext, Admins # {}
      PROVE  Admins' # {}
  <2>1. CASE UNCHANGED member
    BY <1>1, <2>1 DEF Admins, Admin, Active
  <2>2. ASSUME NEW m \in Members, SignIn(m)
        PROVE  Admins' # {}
    <3>1. \A n \in Members : Admin(n) => Admin(n)'
      BY <1>1, <2>2 DEF MInv, MembershipTypeOK, Person, SignIn, Admin, Active
    <3> QED BY <1>1, <3>1 DEF Admins
  <2>3. ASSUME NEW p \in Members, NEW m \in Members,
               NEW r \in {"admin", "member"}, NEW q \in Quotas, Invite(p, m, r, q)
        PROVE  Admins' # {}
    <3>1. \A n \in Members : Admin(n) => Admin(n)'
      BY <1>1, <2>3 DEF MInv, MembershipTypeOK, Person, Invite, Admin, Active
    <3> QED BY <1>1, <3>1 DEF Admins
  <2>4. ASSUME NEW p \in Members, NEW m \in Members,
               NEW r \in {"admin", "member"}, NEW q \in Quotas,
               NEW s \in {member[m].status, "active", "disabled"},
               Update(p, m, r, s, q)
        PROVE  Admins' # {}
    <3>1. Admin(p) /\ \A n \in Members : n # m /\ Admin(n) => Admin(n)'
      <4>1. Admin(p)
        BY <2>4 DEF Update
      <4>2. \A n \in Members : n # m => member'[n] = member[n]
        BY <1>1, <2>4, UpdateEffect
      <4> QED BY <4>1, <4>2 DEF Admin, Active
    <3>2. CASE p # m
      BY <3>1, <3>2 DEF Admins
    <3>3. CASE p = m /\ LastAdmin(m)
      <4> DEFINE l == IF s = "active" /\ ~member[m].known THEN "invited" ELSE s
      <4>1. /\ r = "admin" /\ l = "active"
            /\ member' = [member EXCEPT ![m].role = r, ![m].status = l, ![m].quota = q]
        BY <2>4, <3>3 DEF Update
      <4> HIDE DEF l
      <4>2. Admin(m)'
        BY <1>1, <4>1 DEF MInv, MembershipTypeOK, Person, Admin, Active
      <4> QED BY <4>2 DEF Admins
    <3>4. CASE p = m /\ ~LastAdmin(m)
      <4>1. ~(Cardinality(Admins) <= 1) /\ m \in Admins
        BY <3>1, <3>4 DEF LastAdmin, Admins
      <4>2. Admins # {m}
        BY <4>1, FS_Singleton
      <4>3. PICK n \in Admins : n # m
        BY <4>1, <4>2
      <4> QED BY <3>1, <4>3 DEF Admins
    <3> QED BY <3>2, <3>3, <3>4
  <2>5. ASSUME NEW m \in Members, NEW p \in Members, RevokeSessions(p, m)
        PROVE  Admins' # {}
    BY <2>1, <2>5 DEF RevokeSessions
  <2>6. ASSUME NEW d \in Computers,
               Register(d) \/ RevokeDevice(d) \/ RotateDevice(d)
        PROVE  Admins' # {}
    BY <2>1, <2>6 DEF Register, RevokeDevice, RotateDevice
  <2>7. ASSUME NEW f \in Flows,
               \/ \E d \in Computers : Prove(f, d)
               \/ \E m \in Members : Approve(f, m)
               \/ Create(f) \/ Deny(f) \/ Poll(f) \/ Collect(f) \/ Lose(f)
               \/ Acknowledge(f) \/ Logout(f) \/ Expire(f)
        PROVE  Admins' # {}
    BY <2>1, <2>7 DEF Prove, Approve, Create, Deny, Poll, Collect, Lose,
       Acknowledge, Logout, Expire
  <2> QED BY <1>1, <2>2, <2>3, <2>4, <2>5, <2>6, <2>7 DEF MembershipNext
<1>2. MInv /\ [MembershipNext]_memberVars
        => [Admins # {} => Admins' # {}]_member
  BY <1>1 DEF memberVars
<1> QED BY MembershipInvariance, <1>2, PTL DEF MembershipSpec, AdminRemains

-----------------------------------------------------------------------------
(* The research reservations.                                               *)

HIDE MembershipConstants
USE CurationConstants

\* _groups: a group holds its seeds and the runs of their duplicates.
LEMMA GroupHolds ==
  ASSUME NEW runs
  PROVE  runs \subseteq Group(runs) /\ Linked(runs) \subseteq Group(runs)
<1> DEFINE all == runs \cup RunsOf(Ledgered)
<1>1. Linked(runs) \subseteq all
  BY DEF Linked, RunsOf
<1>2. ASSUME NEW r \in Linked(runs), NEW S \in SUBSET all,
             runs \subseteq S, Linked(S) = S
      PROVE  r \in S
  BY <1>2 DEF Linked
<1>3. runs \subseteq Linked(runs)
  BY DEF Linked
<1> QED
  BY <1>1, <1>2, <1>3 DEF Group

\* The run of a duplicate of x belongs to every group that x is in.
LEMMA DuplicateJoins ==
  ASSUME NEW runs, NEW x \in Ledgered, NEW y \in Ledgered,
         RunOf[x] \in runs, PrintOf[x] = PrintOf[y]
  PROVE  RunOf[y] \in Group(runs)
<1>1. RunOf[y] \in Linked(runs)
  BY DEF Linked
<1> QED
  BY <1>1, GroupHolds

\* Batches are sets of decisions, and more of them hold more.
LEMMA BatchFacts ==
  ASSUME NEW s \in Sources, NEW m \in Nat, NEW n \in Nat, m <= n
  PROVE  /\ BatchesOf(s, m) \subseteq BatchesOf(s, n)
         /\ BatchesOf(s, n) \subseteq Whole(s)
         /\ Whole(s) \subseteq Decisions
         /\ n > Len(Content[s]) => BatchesOf(s, n) = Whole(s)
<1>1. /\ Content[s] \in Seq(SUBSET Decisions)
      /\ Len(Content[s]) \in Nat
      /\ DOMAIN Content[s] = 1..Len(Content[s])
  BY DEF Decisions
<1>2. (1..m) \subseteq (1..n)
  OBVIOUS
<1>3. (1..n) \cap DOMAIN Content[s] \subseteq (1..Len(Content[s])) \cap DOMAIN Content[s]
  BY <1>1
<1>4. n > Len(Content[s]) =>
        (1..n) \cap DOMAIN Content[s] = (1..Len(Content[s])) \cap DOMAIN Content[s]
  BY <1>1
<1>5. BatchesOf(s, m) \subseteq BatchesOf(s, n)
  BY <1>2 DEF BatchesOf
<1>6. BatchesOf(s, n) \subseteq Whole(s)
  BY <1>3 DEF BatchesOf, Whole
<1>7. Whole(s) \subseteq Decisions
  BY <1>1 DEF BatchesOf, Whole
<1>8. n > Len(Content[s]) => BatchesOf(s, n) = Whole(s)
  BY <1>4 DEF BatchesOf, Whole
<1> QED
  BY <1>5, <1>6, <1>7, <1>8

\* The ledger knows decisions of its sources, all of a complete one.
LEMMA LedgerFacts ==
  ASSUME CurationTypes
  PROVE  /\ Ledgered \subseteq Decisions
         /\ \A s \in Sources : /\ Known(s) \subseteq Ledgered
                               /\ Complete(s) => Known(s) = Whole(s)
<1>1. ASSUME NEW s \in Sources
      PROVE  /\ Known(s) \subseteq Decisions
             /\ Complete(s) => Known(s) = Whole(s)
  <2>1. indexed[s] \in Nat /\ indexed[s] <= indexed[s]
    BY DEF CurationTypes
  <2> QED
    BY <2>1, BatchFacts DEF Known, Complete
<1> QED
  BY <1>1 DEF Ledgered

\* Who reads a source or a dataset holds an index that was received or stored.
LEMMA ArtifactKinds ==
  ASSUME CurationTypes
  PROVE  /\ (received \cup stored) \cap Datasets = stored
         /\ (received \cup stored) \cap Sources = received
BY DEF CurationTypes

\* A selection is of decisions.
LEMMA BaseDecisions ==
  ASSUME CurationTypes, NEW d \in Datasets
  PROVE  Base(d) \subseteq Decisions
<1>1. \A s \in Sources : Whole(s) \subseteq Decisions
  BY BatchFacts DEF CurationTypes
<1>2. \A p \in Datasets : data[p].rows \subseteq Decisions
  BY DEF CurationTypes, Publication
<1> QED
  BY <1>1, <1>2 DEF Base, Merges

\* The rows of a selection depend on those of its parents.
LEMMA BaseSame ==
  ASSUME NEW d \in Datasets, \A p \in Parents[d] \cap Datasets : data'[p].rows = data[p].rows
  PROVE  Base(d)' = Base(d)
<1>1. CASE Merges(d)
  <2>1. {data'[p].rows : p \in Parents[d]} = {data[p].rows : p \in Parents[d]}
    BY <1>1 DEF Merges
  <2> QED
    BY <1>1, <2>1 DEF Base, Merges
<1>2. CASE ~Merges(d)
  BY <1>2 DEF Base, Merges, Whole, BatchesOf
<1> QED
  BY <1>1, <1>2

\* The rows a dataset selects from do not change behind it.
LEMMA BaseKept ==
  ASSUME CurationTypes, DataOK, NEW d \in Datasets, data[d].pc # "idle",
         \A p \in stored : data'[p].rows = data[p].rows
  PROVE  Base(d)' = Base(d)
<1>1. Parents[d] \cap Datasets \subseteq stored
  BY ArtifactKinds DEF DataOK
<1> QED
  BY <1>1, BaseSame

\* What a training reads does not change behind it either.
LEMMA ReadsKept ==
  ASSUME CurationTypes, NEW u \in Users, UserSafe(u), user'[u].input = user[u].input,
         \A p \in stored : data'[p].rows = data[p].rows
  PROVE  Reads(u)' = Reads(u)
BY ArtifactKinds DEF UserSafe, Reads, Whole, BatchesOf

\* A user that does nothing stays safe while the ledger grows, as long as no
\* new reservation meets what it has recorded.
LEMMA UserKept ==
  ASSUME CurationTypes, NEW u \in Users, UserSafe(u), user'[u] = user[u],
         received \subseteq received', stored \subseteq stored',
         Ledgered \subseteq Ledgered', uses \subseteq uses',
         sourceUses \subseteq sourceUses',
         \A p \in stored : data'[p].rows = data[p].rows,
         user[u].pc \in {"recording", "started"} =>
           \A x \in Reads(u) : Recorded(u, x) /\ FreeOfGold(x) =>
             FreeOfGold(x)' \/ \E s \in user[u].todo : x \in Whole(s)
  PROVE  UserSafe(u)'
<1>1. Reads(u)' = Reads(u)
  BY ReadsKept
<1>2. /\ user'[u].input \cup user'[u].todo \cup user'[u].sources
           \subseteq received' \cup stored'
      /\ user'[u].pc \in {"admitted", "started"} => user'[u].todo = {}
  BY DEF UserSafe
<1>3. ASSUME user[u].pc \in {"walking", "admitted"}, NEW x \in Reads(u)
      PROVE  Covered(u, x)'
  <2>1. Covered(u, x)
    BY <1>3 DEF UserSafe
  <2>2. user[u].todo \cap Datasets \subseteq stored
    BY ArtifactKinds DEF UserSafe
  <2> QED
    BY <2>1, <2>2 DEF Covered, Whole, BatchesOf
<1>4. ASSUME user[u].pc \in {"recording", "started"}
      PROVE  /\ user'[u].todo \subseteq Sources
             /\ \A x \in Reads(u) :
                  /\ Recorded(u, x)'
                  /\ FreeOfGold(x)' \/ \E s \in user'[u].todo : x \in Whole(s)'
  <2>1. user[u].todo \subseteq Sources
    BY <1>4 DEF UserSafe
  <2>2. ASSUME NEW x \in Reads(u)
        PROVE  /\ Recorded(u, x)'
               /\ FreeOfGold(x)' \/ \E s \in user'[u].todo : x \in Whole(s)'
    <3>1. /\ Recorded(u, x)
          /\ FreeOfGold(x) \/ \E s \in user[u].todo : x \in Whole(s)
      BY <1>4 DEF UserSafe
    <3>2. \A s : Whole(s)' = Whole(s)
      BY DEF Whole, BatchesOf
    <3>3. Recorded(u, x)'
      BY <3>1, <3>2 DEF Recorded
    <3> QED
      BY <1>4, <3>1, <3>2, <3>3
  <2> QED
    BY <2>1, <2>2
<1> QED
  BY <1>1, <1>2, <1>3, <1>4 DEF UserSafe

\* Gold stays away from x while reservations and their rows stay.
LEMMA FreedomKept ==
  ASSUME NEW x, UNCHANGED claim, FreeOfGold(x),
         \A d \in Datasets : claim[d] # {} => data'[d].rows = data[d].rows
  PROVE  FreeOfGold(x)'
BY DEF FreeOfGold, Gold

\* The newest annotation is the one that Revision counts.
LEMMA RevisionIs ==
  ASSUME CurationTypes, NEW n \in 0..MaxNotes, Newest(n)
  PROVE  Revision = n
<1>1. \A m \in 0..MaxNotes : Newest(m) => m = n
  <2>1. ASSUME NEW m \in 0..MaxNotes, Newest(m) PROVE m = n
    <3>1. m \in Nat /\ n \in Nat /\ \A x \in Decisions : notes[x].at \in Nat
      BY DEF CurationTypes, Note
    <3>2. m <= n
      BY <2>1, <3>1 DEF Newest
    <3>3. n <= m
      BY <2>1, <3>1 DEF Newest
    <3> QED
      BY <3>1, <3>2, <3>3
  <2> QED
    BY <2>1
<1> QED
  BY <1>1 DEF Revision

LEMMA RevisionFacts ==
  ASSUME CurationTypes, NotesOK
  PROVE  Revision \in 0..MaxNotes /\ Newest(Revision)
<1>1. PICK n \in 0..MaxNotes : Newest(n)
  BY DEF NotesOK
<1> QED
  BY <1>1, RevisionIs

-----------------------------------------------------------------------------
(* Steps that change one publication, and leave its selection alone.        *)

LEMMA DataStep ==
  ASSUME CurationInv, NEW d \in Datasets, NEW row \in Publication,
         data' = [data EXCEPT ![d] = row],
         UNCHANGED <<received, indexed, claim, stored, uses, sourceUses, notes, user>>,
         bound' \in SUBSET stored,
         row.rows = data[d].rows, row.seen = data[d].seen, row.todo \subseteq stored,
         data[d].pc # "idle", row.pc \notin {"idle", "claimed", "stored"},
         row.revision <= Revision,
         row.pc \in {"preparing", "confirmed"} /\ row.revision = Revision =>
           row.rows = Base(d) \ Excluded
  PROVE  CurationInv'
<1>1. CurationTypes /\ DataOK /\ UserOK /\ GoldKeptApart /\ NotesOK
  BY DEF CurationInv
<1>2. \A e \in Datasets : data'[e] = IF e = d THEN row ELSE data[e]
  BY <1>1 DEF CurationTypes
<1>3. /\ \A e \in Datasets : data'[e].rows = data[e].rows /\ data'[e].seen = data[e].seen
      /\ Ledgered' = Ledgered /\ Revision' = Revision /\ Excluded' = Excluded
  BY <1>2 DEF Ledgered, Known, BatchesOf, Revision, Newest, Excluded
<1>4. \A e \in Datasets : data[e].pc # "idle" => Base(e)' = Base(e)
  <2>1. \A p \in stored : data'[p].rows = data[p].rows
    BY <1>1, <1>3 DEF CurationTypes
  <2> QED
    BY <1>1, <2>1, BaseKept
<1>5. CurationTypes'
  BY <1>1, <1>2 DEF CurationTypes
<1>6. DataOK'
  BY <1>1, <1>2, <1>3, <1>4 DEF DataOK
<1>7. UserOK'
  <2>1. ASSUME NEW u \in Users PROVE UserSafe(u)'
    <3>1. \A x : FreeOfGold(x) => FreeOfGold(x)'
      BY <1>3, FreedomKept
    <3>2. \A p \in stored : data'[p].rows = data[p].rows
      BY <1>1, <1>3 DEF CurationTypes
    <3> QED
      BY <1>1, <1>3, <3>1, <3>2, UserKept DEF UserOK
  <2> QED
    BY <2>1 DEF UserOK
<1>8. GoldKeptApart'
  BY <1>1 DEF GoldKeptApart, Gold
<1>9. NotesOK'
  <2>1. \A n : Newest(n)' = Newest(n)
    BY DEF Newest
  <2>2. \A e \in Datasets : data'[e].pc # "idle" => data[e].pc # "idle"
    BY <1>2
  <2> QED
    BY <1>1, <1>2, <1>3, <1>4, <2>1, <2>2 DEF NotesOK
<1> QED
  BY <1>5, <1>6, <1>7, <1>8, <1>9 DEF CurationInv

\* publish compares the annotations it finds with those of the preview.
LEMMA ConfirmStep ==
  ASSUME CurationInv, NEW d \in Datasets, Confirm(d)
  PROVE  CurationInv'
<1>1. CurationTypes /\ DataOK /\ NotesOK
  BY DEF CurationInv
<1>2. /\ data[d] \in Publication
      /\ Revision \in Nat
      /\ data[d].pc = "selected"
  BY <1>1, RevisionFacts DEF CurationTypes, Confirm
<1>3. CASE data[d].seen = NotesOn(d)
  <2> DEFINE row == [data[d] EXCEPT !.pc = IF Gold(d) THEN "preparing" ELSE "confirmed",
                                    !.revision = Revision, !.todo = {}]
  <2>1. /\ row \in Publication
        /\ row.rows = data[d].rows /\ row.seen = data[d].seen /\ row.todo = {}
        /\ row.pc \in {"preparing", "confirmed"}
        /\ row.revision = Revision
    BY <1>2 DEF Publication
  <2>2. data' = [data EXCEPT ![d] = row]
    BY <1>3 DEF Confirm
  <2>3. data[d].rows = Base(d) \ Excluded
    <3>1. data[d].rows \subseteq Base(d) /\ data[d].rows \subseteq Decisions
      BY <1>1, <1>2 DEF DataOK, Publication
    <3>2. ASSUME NEW x \in Base(d), x \in Decisions
          PROVE  notes[x].at = 0 \/ <<x, notes[x].at>> \in data[d].seen
      <4>1. notes[x].at \in Nat
        BY <1>1, <3>2 DEF CurationTypes, Note
      <4>2. RunOf[x] \in RunsOf(Base(d))
        BY DEF RunsOf
      <4> QED
        BY <1>3, <3>2, <4>1, <4>2 DEF NotesOn
    <3>3. Base(d) \subseteq Decisions
      BY <1>1, BaseDecisions
    <3> QED
      BY <1>1, <1>2, <3>1, <3>2, <3>3 DEF NotesOK
  <2>4. UNCHANGED <<received, indexed, claim, bound, stored, uses, sourceUses, notes, user>>
    BY DEF Confirm, ledger
  <2>5. bound' \in SUBSET stored /\ row.todo \subseteq stored
    BY <1>1, <2>1, <2>4 DEF CurationTypes
  <2>6. /\ data[d].pc # "idle" /\ row.pc \notin {"idle", "claimed", "stored"}
        /\ row.revision <= Revision
    BY <1>2, <2>1
  <2> HIDE DEF row
  <2> QED
    BY <2>1, <2>2, <2>3, <2>4, <2>5, <2>6, DataStep
<1>4. CASE data[d].seen # NotesOn(d)
  <2> DEFINE row == [data[d] EXCEPT !.pc = "failed"]
  <2>1. /\ row \in Publication
        /\ row.rows = data[d].rows /\ row.seen = data[d].seen
        /\ row.todo = data[d].todo /\ row.pc = "failed"
        /\ row.revision = data[d].revision
    BY <1>2 DEF Publication
  <2>2. data' = [data EXCEPT ![d] = row]
    BY <1>4 DEF Confirm, Goes
  <2>4. UNCHANGED <<received, indexed, claim, bound, stored, uses, sourceUses, notes, user>>
    BY DEF Confirm, ledger
  <2> HIDE DEF row
  <2> QED
    BY <1>1, <1>2, <2>1, <2>2, <2>4, DataStep DEF CurationTypes, DataOK, NotesOK
<1> QED
  BY <1>3, <1>4
\* _prepare_gold, bind and retries move a publication on without touching what
\* it selected.
LEMMA TurnStep ==
  ASSUME CurationInv, NEW d \in Datasets,
         NEW pc \in {"selected", "confirmed", "bound", "failed"},
         NEW todo \in SUBSET stored,
         data' = [data EXCEPT ![d] = [data[d] EXCEPT !.pc = pc, !.todo = todo]],
         UNCHANGED <<received, indexed, claim, stored, uses, sourceUses, notes, user>>,
         bound' \in SUBSET stored, data[d].pc # "idle",
         pc = "confirmed" => data[d].pc \in {"preparing", "confirmed"}
  PROVE  CurationInv'
<1>1. CurationTypes /\ NotesOK /\ data[d] \in Publication /\ stored \subseteq Datasets
  BY DEF CurationInv, CurationTypes
<1> DEFINE row == [data[d] EXCEPT !.pc = pc, !.todo = todo]
<1>2. /\ row \in Publication
      /\ row.rows = data[d].rows /\ row.seen = data[d].seen
      /\ row.todo = todo /\ row.pc = pc /\ row.revision = data[d].revision
  BY <1>1 DEF Publication
<1>3. /\ row.revision <= Revision
      /\ row.pc \in {"preparing", "confirmed"} /\ row.revision = Revision =>
           row.rows = Base(d) \ Excluded
  BY <1>1, <1>2 DEF NotesOK
<1> HIDE DEF row
<1>4. data' = [data EXCEPT ![d] = row]
  BY DEF row
<1> QED
  BY <1>2, <1>3, <1>4, DataStep

\* The same when only the stage changes.
LEMMA GoesStep ==
  ASSUME CurationInv, NEW d \in Datasets,
         NEW pc \in {"selected", "confirmed", "bound", "failed"}, Goes(d, pc),
         UNCHANGED <<received, indexed, claim, stored, uses, sourceUses, notes, user>>,
         bound' \in SUBSET stored, data[d].pc # "idle",
         pc = "confirmed" => data[d].pc \in {"preparing", "confirmed"}
  PROVE  CurationInv'
<1>1. data[d] \in Publication /\ data[d].todo \in SUBSET stored
  BY DEF CurationInv, CurationTypes, DataOK
<1>2. [data[d] EXCEPT !.pc = pc] = [data[d] EXCEPT !.pc = pc, !.todo = data[d].todo]
  BY <1>1 DEF Publication
<1>3. data' = [data EXCEPT ![d] = [data[d] EXCEPT !.pc = pc, !.todo = data[d].todo]]
  BY <1>2 DEF Goes
<1> QED
  BY <1>1, <1>3, TurnStep

\* The job of a dataset between its confirmation and its claim, and after.
LEMMA PublicationStep ==
  ASSUME CurationInv, NEW d \in Datasets,
         \/ Prepare(d) \/ Bind(d) \/ Retry(d) \/ \E o \in Datasets : Rebind(d, o)
         \/ Claim(d) /\ ~Claimable(d)
  PROVE  CurationInv'
<1>1. /\ bound \subseteq stored /\ stored \subseteq Datasets
      /\ data[d] \in Publication
      /\ data[d].todo \subseteq stored
      /\ data[d].pc = "stored" => d \in stored
  BY DEF CurationInv, CurationTypes, DataOK
<1>2. CASE Prepare(d)
  <2>1. data' = [data EXCEPT ![d] = [data[d] EXCEPT !.pc = "confirmed",
                                                    !.todo = stored \ bound]]
    BY <1>2 DEF Prepare
  <2>2. data[d].pc = "preparing" /\ UNCHANGED bound
        /\ UNCHANGED <<received, indexed, claim, stored, uses, sourceUses, notes, user>>
    BY <1>2 DEF Prepare, ledger
  <2>3. stored \ bound \in SUBSET stored
    OBVIOUS
  <2> QED
    BY <1>1, <2>1, <2>2, <2>3, TurnStep
<1>3. ASSUME NEW o \in Datasets, Rebind(d, o)
      PROVE  CurationInv'
  <2>1. /\ data[d].pc = "confirmed" /\ o \in data[d].todo
        /\ UNCHANGED <<received, indexed, claim, stored, uses, sourceUses, notes, user>>
    BY <1>3 DEF Rebind, ledger
  <2>2. CASE o \in bound \/ Gold(o) \/ ~Reserved(claim[o])
    <3>1. /\ data' = [data EXCEPT ![d].todo = @ \ {o}]
          /\ bound' = bound \cup {o}
      BY <1>3, <2>2 DEF Rebind
    <3>2. [data[d] EXCEPT !.todo = data[d].todo \ {o}]
            = [data[d] EXCEPT !.pc = "confirmed", !.todo = data[d].todo \ {o}]
      BY <1>1, <2>1 DEF Publication
    <3>3. data' = [data EXCEPT ![d] = [data[d] EXCEPT !.pc = "confirmed",
                                                      !.todo = data[d].todo \ {o}]]
      BY <3>1, <3>2
    <3>4. bound' \in SUBSET stored /\ data[d].todo \ {o} \in SUBSET stored
      BY <1>1, <2>1, <3>1
    <3> QED
      BY <2>1, <3>3, <3>4, TurnStep
  <2>3. CASE ~(o \in bound \/ Gold(o) \/ ~Reserved(claim[o]))
    BY <1>1, <1>3, <2>1, <2>3, GoesStep DEF Rebind
  <2> QED
    BY <2>2, <2>3
<1>4. CASE Bind(d)
  BY <1>1, <1>4, GoesStep DEF Bind, ledger
<1>5. CASE Retry(d)
  BY <1>1, <1>5, GoesStep DEF Retry, ledger
<1>6. CASE Claim(d) /\ ~Claimable(d)
  BY <1>1, <1>6, GoesStep DEF Claim
<1> QED
  BY <1>2, <1>3, <1>4, <1>5, <1>6

-----------------------------------------------------------------------------
(* The receiver and the index.                                              *)

\* What is kept while only received sources and their index grow.
LEMMA GrowthStep ==
  ASSUME CurationInv, received \subseteq received', received' \subseteq Sources,
         indexed' \in [Sources -> Nat], \A s \in Sources : indexed[s] <= indexed'[s],
         \A s \in Sources : indexed'[s] > 0 => s \in received',
         UNCHANGED <<claim, bound, stored, uses, sourceUses, notes, data, user>>
  PROVE  CurationInv'
<1>1. CurationTypes /\ DataOK /\ UserOK /\ GoldKeptApart /\ NotesOK
  BY DEF CurationInv
<1>2. Ledgered \subseteq Ledgered'
  <2>1. ASSUME NEW s \in Sources PROVE Known(s) \subseteq Known(s)'
    <3>1. indexed[s] \in Nat /\ indexed'[s] \in Nat /\ indexed[s] <= indexed'[s]
      BY <1>1 DEF CurationTypes
    <3>2. BatchesOf(s, indexed[s]) \subseteq BatchesOf(s, indexed'[s])
      BY <3>1, BatchFacts
    <3> QED
      BY <3>2 DEF Known, BatchesOf
  <2> QED
    BY <2>1 DEF Ledgered
<1>3. \A d \in Datasets : data[d].pc # "idle" => Base(d)' = Base(d)
  BY <1>1, BaseKept
<1>4. CurationTypes'
  BY <1>1 DEF CurationTypes
<1>5. DataOK'
  BY <1>1, <1>2, <1>3 DEF DataOK
<1>6. UserOK'
  <2>1. ASSUME NEW u \in Users PROVE UserSafe(u)'
    <3>1. \A x : FreeOfGold(x) => FreeOfGold(x)'
      BY FreedomKept
    <3> QED
      BY <1>1, <1>2, <3>1, UserKept DEF UserOK
  <2> QED
    BY <2>1 DEF UserOK
<1>7. GoldKeptApart'
  BY <1>1 DEF GoldKeptApart, Gold
<1>8. NotesOK'
  <2>1. /\ \A n : Newest(n)' = Newest(n)
        /\ Revision' = Revision /\ Excluded' = Excluded
    BY DEF Newest, Revision, Excluded
  <2> QED
    BY <1>1, <1>3, <2>1 DEF NotesOK
<1> QED
  BY <1>4, <1>5, <1>6, <1>7, <1>8 DEF CurationInv

LEMMA SourceStep ==
  ASSUME CurationInv, NEW s \in Sources, Receive(s) \/ IndexBatch(s)
  PROVE  CurationInv'
<1>1. CurationTypes /\ DataOK
  BY DEF CurationInv
<1>2. CASE Receive(s)
  BY <1>1, <1>2, GrowthStep DEF Receive, ledger, CurationTypes, DataOK
<1>3. CASE IndexBatch(s)
  <2>1. /\ indexed' \in [Sources -> Nat]
        /\ \A o \in Sources : indexed[o] <= indexed'[o]
        /\ \A o \in Sources : indexed'[o] > 0 => o \in received
    BY <1>1, <1>3 DEF IndexBatch, CurationTypes, DataOK
  <2> QED
    BY <1>1, <1>3, <2>1, GrowthStep DEF IndexBatch, ledger, CurationTypes
<1> QED
  BY <1>2, <1>3

-----------------------------------------------------------------------------
(* Annotations.                                                             *)

\* A new annotation has a number that no preview has seen.
LEMMA AnnotateStep ==
  ASSUME CurationInv, NEW x \in Decisions, NEW a \in {"flag", "exclude", "restore"},
         Annotate(x, a)
  PROVE  CurationInv'
<1>1. CurationTypes /\ DataOK /\ UserOK /\ GoldKeptApart /\ NotesOK
  BY DEF CurationInv
<1>2. /\ Revision \in 0..MaxNotes /\ Revision + 1 \in 0..MaxNotes
      /\ Newest(Revision)
  BY <1>1, RevisionFacts DEF Annotate
<1>3. /\ UNCHANGED <<received, indexed, claim, bound, stored, uses, sourceUses, data, user>>
      /\ notes' = [notes EXCEPT ![x] = [at |-> Revision + 1, action |-> a]]
  BY DEF Annotate, ledger
<1>4. CurationTypes'
  BY <1>1, <1>2, <1>3 DEF CurationTypes, Note
<1>5. /\ notes'[x].at = Revision + 1
      /\ \A y \in Decisions : y # x => notes'[y] = notes[y]
      /\ \A y \in Decisions : notes[y].at \in Nat
  BY <1>1, <1>3 DEF CurationTypes, Note
<1>6. PICK r \in Nat : r = Revision
  BY <1>2
<1>12. Newest(r + 1)' /\ Revision' = r + 1
  <2>1. Newest(r + 1)'
    BY <1>2, <1>5, <1>6 DEF Newest
  <2>2. ASSUME NEW m \in 0..MaxNotes, Newest(m)' PROVE m = r + 1
    <3>1. m \in Nat /\ r + 1 <= m
      BY <1>5, <1>6, <2>2 DEF Newest
    <3>2. PICK y \in Decisions : notes'[y].at = m
      BY <3>1, <2>2, <1>6 DEF Newest
    <3>3. m <= r + 1
      BY <1>5, <1>6, <2>1, <3>2 DEF Newest
    <3> QED
      BY <1>6, <3>1, <3>3
  <2> QED
    BY <1>2, <1>6, <2>1, <2>2 DEF Revision
<1>7. \A d \in Datasets : data[d].pc # "idle" => Base(d)' = Base(d)
  BY <1>1, <1>3, BaseKept
<1>8. DataOK'
  BY <1>1, <1>3, <1>7 DEF DataOK, Ledgered, Known, BatchesOf
<1>9. UserOK'
  <2>1. ASSUME NEW u \in Users PROVE UserSafe(u)'
    <3>1. \A y : FreeOfGold(y) => FreeOfGold(y)'
      BY <1>3, FreedomKept
    <3>2. Ledgered' = Ledgered
      BY <1>3 DEF Ledgered, Known, BatchesOf
    <3> QED
      BY <1>1, <1>3, <3>1, <3>2, UserKept DEF UserOK
  <2> QED
    BY <2>1 DEF UserOK
<1>10. GoldKeptApart'
  BY <1>1, <1>3 DEF GoldKeptApart, Gold
<1>11. NotesOK'
  <2>1. r + 1 \in 0..MaxNotes
    BY <1>2, <1>6
  <2>2. ASSUME NEW d \in Datasets
        PROVE  /\ data[d].revision <= Revision + 1
               /\ data[d].revision # Revision + 1
               /\ \A e \in data[d].seen : e[2] <= Revision
               /\ \A e \in data[d].seen : e[2] <= Revision + 1
    <3>1. /\ data[d].revision \in Nat /\ data[d].revision <= Revision
          /\ \A e \in data[d].seen : e[2] \in Nat /\ e[2] <= Revision
      BY <1>1 DEF CurationTypes, Publication, NotesOK
    <3> QED
      BY <1>2, <3>1
  <2>3. ASSUME NEW d \in Datasets, data[d].pc # "idle", NEW y \in Base(d),
               notes'[y].at = 0 \/ <<y, notes'[y].at>> \in data[d].seen
        PROVE  y \in data[d].rows <=> y \notin Excluded'
    <3>1. CASE y # x
      <4>1. y \in Decisions
        BY <1>1, <2>3, BaseDecisions
      <4>3. y \in Excluded <=> y \in Excluded'
        BY <1>5, <3>1, <4>1 DEF Excluded
      <4>2. notes[y].at = 0 \/ <<y, notes[y].at>> \in data[d].seen
        BY <1>5, <2>3, <3>1, <4>1
      <4> QED
        BY <1>1, <2>3, <4>3, <4>2 DEF NotesOK
    <3>2. CASE y = x
      <4>1. <<x, Revision + 1>> \in data[d].seen
        BY <1>2, <1>5, <2>3, <3>2
      <4>2. Revision + 1 <= Revision
        BY <2>2, <4>1
      <4> QED
        BY <1>2, <4>2
    <3> QED
      BY <3>1, <3>2
  <2> QED
    BY <1>3, <1>6, <1>7, <1>12, <2>1, <2>2, <2>3 DEF NotesOK
<1> QED
  BY <1>4, <1>8, <1>9, <1>10, <1>11 DEF CurationInv

-----------------------------------------------------------------------------
(* Selection, reservation and storage.                                      *)

\* What is selected is indexed, and was selected under the present notes.
LEMMA SelectStep ==
  ASSUME CurationInv, NEW d \in Datasets, Select(d)
  PROVE  CurationInv'
<1>1. CurationTypes /\ DataOK /\ UserOK /\ GoldKeptApart /\ NotesOK
  BY DEF CurationInv
<1> DEFINE chosen == Base(d) \ Excluded
           row == [data[d] EXCEPT !.pc = "selected", !.rows = chosen, !.seen = NotesOn(d)]
<1>2. /\ UNCHANGED <<received, indexed, claim, bound, stored, uses, sourceUses, notes, user>>
      /\ data[d].pc = "idle" /\ claim[d] = {} /\ d \notin stored
      /\ data' = [data EXCEPT ![d] = row]
      /\ data[d] \in Publication
  BY <1>1 DEF Select, ledger, DataOK, CurationTypes
<1>3. chosen \subseteq Decisions
  BY <1>1, BaseDecisions
<1>4. NotesOn(d) \subseteq Decisions \X Nat /\ \A e \in NotesOn(d) : e[2] <= Revision
  <2>1. \A x \in Decisions : notes[x].at \in Nat /\ notes[x].at <= Revision
    BY <1>1, RevisionFacts DEF Newest, CurationTypes, Note
  <2> QED
    BY <2>1 DEF NotesOn
<1>5. /\ row \in Publication /\ row.pc = "selected"
      /\ row.rows = chosen /\ row.seen = NotesOn(d)
      /\ row.todo = data[d].todo /\ row.revision = data[d].revision
  BY <1>2, <1>3, <1>4 DEF Publication
<1>6. /\ Parents[d] \subseteq received \cup stored
      /\ chosen \subseteq Ledgered
      /\ chosen = Base(d) \ Excluded
  <2>1. CASE Merges(d)
    <3>1. Parents[d] \subseteq stored
      BY <2>1 DEF Select
    <3>2. \A p \in stored : data[p].rows \subseteq Ledgered
      BY <1>1 DEF CurationTypes, DataOK
    <3> QED
      BY <2>1, <3>1, <3>2 DEF Base
  <2>2. CASE ~Merges(d)
    <3>1. Parents[d] \subseteq Sources /\ \A s \in Parents[d] : Complete(s)
      BY <2>2 DEF Merges, Select
    <3>2. \A s \in Parents[d] : s \in received
      <4>1. \A s \in Sources : indexed[s] \in Nat /\ Len(Content[s]) \in Nat
        BY <1>1 DEF CurationTypes
      <4>2. \A s \in Parents[d] : indexed[s] > 0
        BY <3>1, <4>1 DEF Complete
      <4> QED
        BY <1>1, <3>1, <4>2 DEF DataOK
    <3>3. \A s \in Parents[d] : Whole(s) \subseteq Ledgered
      BY <1>1, <3>1, LedgerFacts
    <3> QED
      BY <2>2, <3>2, <3>3 DEF Base
  <2> QED
    BY <2>1, <2>2
<1> HIDE DEF row, chosen
<1>7. \A e \in Datasets : data'[e] = IF e = d THEN row ELSE data[e]
  BY <1>1, <1>2 DEF CurationTypes
<1>8. /\ \A p \in stored : data'[p].rows = data[p].rows
      /\ Ledgered' = Ledgered /\ Revision' = Revision /\ Excluded' = Excluded
      /\ \A n : Newest(n)' = Newest(n)
  BY <1>1, <1>2, <1>7 DEF CurationTypes, Ledgered, Known, BatchesOf, Revision, Newest, Excluded
<1>9. /\ \A e \in Datasets : data[e].pc # "idle" => Base(e)' = Base(e)
      /\ Base(d)' = Base(d)
  <2>1. \A e \in Datasets : data[e].pc # "idle" => Base(e)' = Base(e)
    BY <1>1, <1>8, BaseKept
  <2>2. Parents[d] \cap Datasets \subseteq stored
    BY <1>1, <1>6, ArtifactKinds
  <2> QED
    BY <1>8, <2>1, <2>2, BaseSame
<1>10. CurationTypes'
  BY <1>1, <1>2, <1>5 DEF CurationTypes
<1>11. DataOK'
  <2>1. ASSUME NEW e \in Datasets, e # d
        PROVE  /\ data'[e].todo \subseteq stored
               /\ claim[e] \in {{}, RunsOf(data'[e].rows)}
               /\ data'[e].pc = "idle" => claim[e] = {} /\ e \notin stored
               /\ e \in stored \/ data'[e].pc \in {"claimed", "stored"}
                    => claim[e] = RunsOf(data'[e].rows)
               /\ data'[e].pc = "stored" => e \in stored
               /\ data'[e].pc # "idle" =>
                    /\ data'[e].rows \subseteq Base(e) \cap Ledgered
                    /\ Parents[e] \subseteq received \cup stored
    BY <1>1, <1>7, <2>1 DEF DataOK
  <2>2. data'[d] = row /\ data[d].todo \subseteq stored
    BY <1>1, <1>7 DEF DataOK
  <2>3. \A s \in Sources : indexed[s] > 0 => s \in received
    BY <1>1 DEF DataOK
  <2> QED
    BY <1>2, <1>5, <1>6, <1>7, <1>8, <1>9, <2>1, <2>2, <2>3 DEF DataOK
<1>12. UserOK'
  <2>1. ASSUME NEW u \in Users PROVE UserSafe(u)'
    <3>1. \A x : FreeOfGold(x) => FreeOfGold(x)'
      BY <1>2, <1>7, FreedomKept
    <3> QED
      BY <1>1, <1>2, <1>8, <3>1, UserKept DEF UserOK
  <2> QED
    BY <2>1 DEF UserOK
<1>13. GoldKeptApart'
  BY <1>1, <1>2 DEF GoldKeptApart, Gold
<1>14. NotesOK'
  <2>1. ASSUME NEW e \in Datasets, e # d
        PROVE  /\ data'[e].revision <= Revision
               /\ \A n \in data'[e].seen : n[2] <= Revision
               /\ data'[e].pc # "idle" =>
                    \A x \in Base(e) :
                      notes[x].at = 0 \/ <<x, notes[x].at>> \in data'[e].seen =>
                        (x \in data'[e].rows <=> x \notin Excluded)
               /\ data'[e].pc \in {"preparing", "confirmed"} /\ data'[e].revision = Revision =>
                    data'[e].rows = Base(e) \ Excluded
    BY <1>1, <1>7, <2>1 DEF NotesOK
  <2>2. data'[d] = row /\ data[d].revision <= Revision
    BY <1>1, <1>7 DEF NotesOK
  <2>3. \E n \in 0..MaxNotes : Newest(n)
    BY <1>1 DEF NotesOK
  <2> QED
    BY <1>2, <1>4, <1>5, <1>6, <1>7, <1>8, <1>9, <2>1, <2>2, <2>3 DEF NotesOK
<1> QED
  BY <1>10, <1>11, <1>12, <1>13, <1>14 DEF CurationInv

\* The artifact of a dataset is stored after its claim.
LEMMA StoreStep ==
  ASSUME CurationInv, NEW d \in Datasets, Store(d)
  PROVE  CurationInv'
<1>1. CurationTypes /\ DataOK /\ UserOK /\ GoldKeptApart /\ NotesOK
  BY DEF CurationInv
<1> DEFINE row == [data[d] EXCEPT !.pc = "stored"]
<1>2. /\ UNCHANGED <<received, indexed, claim, bound, uses, sourceUses, notes, user>>
      /\ data[d].pc = "claimed" /\ claim[d] = RunsOf(data[d].rows)
      /\ data' = [data EXCEPT ![d] = row] /\ stored' = stored \cup {d}
      /\ data[d] \in Publication
  BY <1>1 DEF Store, Goes, ledger, DataOK, CurationTypes
<1>3. /\ row \in Publication /\ row.pc = "stored"
      /\ row.rows = data[d].rows /\ row.seen = data[d].seen
      /\ row.todo = data[d].todo /\ row.revision = data[d].revision
  BY <1>2 DEF Publication
<1> HIDE DEF row
<1>4. \A e \in Datasets : data'[e] = IF e = d THEN row ELSE data[e]
  BY <1>1, <1>2 DEF CurationTypes
<1>5. /\ \A e \in Datasets : data'[e].rows = data[e].rows /\ data'[e].seen = data[e].seen
      /\ \A e \in Datasets : data'[e].todo = data[e].todo /\ data'[e].revision = data[e].revision
      /\ Ledgered' = Ledgered /\ Revision' = Revision /\ Excluded' = Excluded
      /\ \A n : Newest(n)' = Newest(n)
  BY <1>2, <1>3, <1>4 DEF Ledgered, Known, BatchesOf, Revision, Newest, Excluded
<1>6. \A e \in Datasets : data[e].pc # "idle" => Base(e)' = Base(e)
  <2>1. \A p \in stored : data'[p].rows = data[p].rows
    BY <1>1, <1>5 DEF CurationTypes
  <2> QED
    BY <1>1, <2>1, BaseKept
<1>7. CurationTypes'
  BY <1>1, <1>2, <1>3 DEF CurationTypes
<1>8. DataOK'
  BY <1>1, <1>2, <1>3, <1>4, <1>5, <1>6 DEF DataOK
<1>9. UserOK'
  <2>1. ASSUME NEW u \in Users PROVE UserSafe(u)'
    <3>1. \A x : FreeOfGold(x) => FreeOfGold(x)'
      BY <1>2, <1>5, FreedomKept
    <3>2. \A p \in stored : data'[p].rows = data[p].rows
      BY <1>1, <1>5 DEF CurationTypes
    <3> QED
      BY <1>1, <1>2, <1>5, <3>1, <3>2, UserKept DEF UserOK
  <2> QED
    BY <2>1 DEF UserOK
<1>10. GoldKeptApart'
  BY <1>1, <1>2 DEF GoldKeptApart, Gold
<1>11. NotesOK'
  <2>1. \A e \in Datasets : /\ data'[e].pc # "idle" => data[e].pc # "idle"
                            /\ data'[e].pc \in {"preparing", "confirmed"} =>
                                 data[e].pc \in {"preparing", "confirmed"}
    BY <1>2, <1>3, <1>4
  <2> QED
    BY <1>1, <1>2, <1>5, <1>6, <2>1 DEF NotesOK
<1> QED
  BY <1>7, <1>8, <1>9, <1>10, <1>11 DEF CurationInv

\* A claim on Gold goes by a complete inventory: every recorded use is known
\* by its run, and none of them is related to what is claimed.
LEMMA ClaimFree ==
  ASSUME CurationTypes, DataOK, NEW d \in Datasets, Gold(d), Claimable(d),
         data[d].pc # "idle", NEW x,
         \/ x \in Ledgered /\ RunOf[x] \in uses
         \/ \E s \in sourceUses : x \in Whole(s)
  PROVE  /\ RunOf[x] \notin RunsOf(data[d].rows)
         /\ \A y \in data[d].rows : PrintOf[x] # PrintOf[y]
<1> DEFINE runs == RunsOf(data[d].rows)
<1>1. x \in Ledgered /\ Trained(RunOf[x])
  <2>1. CASE x \in Ledgered /\ RunOf[x] \in uses
    BY <2>1 DEF Trained
  <2>2. ASSUME NEW s \in sourceUses, x \in Whole(s)
        PROVE  x \in Ledgered /\ Trained(RunOf[x])
    <3>1. s \in Sources /\ s \in received
      BY DEF CurationTypes
    <3>2. Complete(s)
      BY <3>1 DEF Claimable, Inventoried
    <3>3. x \in Known(s) /\ Known(s) \subseteq Ledgered
      BY <2>2, <3>1, <3>2, LedgerFacts
    <3> QED
      BY <3>3 DEF Trained, RunsOf
  <2> QED
    BY <2>1, <2>2
<1>2. data[d].rows \subseteq Ledgered
  BY DEF DataOK
<1>3. \A r \in Group(runs) : ~Trained(r)
  BY DEF Claimable
<1>4. RunOf[x] \notin Group(runs)
  BY <1>1, <1>3
<1>5. RunOf[x] \notin runs
  BY <1>4, GroupHolds
<1>6. ASSUME NEW y \in data[d].rows, PrintOf[x] = PrintOf[y]
      PROVE  FALSE
  <2>1. RunOf[y] \in runs
    BY DEF RunsOf
  <2>2. RunOf[x] \in Group(runs)
    BY <1>1, <1>2, <1>6, <2>1, DuplicateJoins
  <2> QED
    BY <1>4, <2>2
<1> QED
  BY <1>5, <1>6

LEMMA ClaimStep ==
  ASSUME CurationInv, NEW d \in Datasets, Claim(d), Claimable(d)
  PROVE  CurationInv'
<1>1. CurationTypes /\ DataOK /\ UserOK /\ GoldKeptApart /\ NotesOK
  BY DEF CurationInv
<1> DEFINE row == [data[d] EXCEPT !.pc = "claimed"]
           runs == RunsOf(data[d].rows)
<1>2. /\ UNCHANGED <<received, indexed, bound, stored, uses, sourceUses, notes, user>>
      /\ data[d].pc = "confirmed" /\ claim' = [claim EXCEPT ![d] = runs]
      /\ data' = [data EXCEPT ![d] = row]
      /\ data[d] \in Publication
  BY <1>1 DEF Claim, Goes, CurationTypes
<1>3. /\ row \in Publication /\ row.pc = "claimed"
      /\ row.rows = data[d].rows /\ row.seen = data[d].seen
      /\ row.todo = data[d].todo /\ row.revision = data[d].revision
      /\ runs \subseteq RunsOf(Decisions)
  BY <1>2 DEF Publication, RunsOf
<1> HIDE DEF row
<1>4. \A e \in Datasets : /\ data'[e] = IF e = d THEN row ELSE data[e]
                          /\ claim'[e] = IF e = d THEN runs ELSE claim[e]
  BY <1>1, <1>2 DEF CurationTypes
<1>5. /\ \A e \in Datasets : data'[e].rows = data[e].rows /\ data'[e].seen = data[e].seen
      /\ \A e \in Datasets : data'[e].todo = data[e].todo /\ data'[e].revision = data[e].revision
      /\ Ledgered' = Ledgered /\ Revision' = Revision /\ Excluded' = Excluded
      /\ \A n : Newest(n)' = Newest(n)
  BY <1>2, <1>3, <1>4 DEF Ledgered, Known, BatchesOf, Revision, Newest, Excluded
<1>13. \A p \in stored : data'[p].rows = data[p].rows
  BY <1>1, <1>5 DEF CurationTypes
<1>6. \A e \in Datasets : data[e].pc # "idle" => Base(e)' = Base(e)
  BY <1>1, <1>13, BaseKept
<1>7. CurationTypes'
  BY <1>1, <1>2, <1>3 DEF CurationTypes
<1>8. DataOK'
  BY <1>1, <1>2, <1>3, <1>4, <1>5, <1>6 DEF DataOK
<1>9. UserOK'
  <2>1. ASSUME NEW u \in Users PROVE UserSafe(u)'
    <3>1. UserSafe(u)
      BY <1>1 DEF UserOK
    <3>2. ASSUME NEW x \in Reads(u), Recorded(u, x), FreeOfGold(x),
                 ~\E s \in user[u].todo : x \in Whole(s)
          PROVE  FreeOfGold(x)'
      <4>1. \/ x \in Ledgered /\ RunOf[x] \in uses
            \/ \E s \in sourceUses : x \in Whole(s)
        BY <3>2 DEF Recorded
      <4>2. Gold(d) => /\ RunOf[x] \notin runs
                       /\ \A y \in data[d].rows : PrintOf[x] # PrintOf[y]
        BY <1>1, <1>2, <4>1, ClaimFree
      <4> QED
        BY <1>4, <1>5, <3>2, <4>2 DEF FreeOfGold, Gold
    <3> QED
      BY <1>1, <1>2, <1>5, <1>13, <3>1, <3>2, UserKept
  <2> QED
    BY <2>1 DEF UserOK
<1>10. GoldKeptApart'
  <2>1. ASSUME NEW c \in Datasets, c # d, claim[c] \cap runs # {}
        PROVE  /\ Gold(c) <=> Gold(d)
               /\ Gold(d) => c \in GoldParents(d)
    <3>1. c \in Claimants(runs) \ {d}
      BY <2>1, GroupHolds DEF Claimants
    <3>2. Compatible(d, c)
      BY <3>1 DEF Claimable
    <3> QED
      BY <3>2 DEF Compatible
  <2>2. \A c : GoldParents(c)' = GoldParents(c) /\ Gold(c)' = Gold(c)
    BY DEF GoldParents, Gold
  <2> QED
    BY <1>1, <1>4, <2>1, <2>2 DEF GoldKeptApart
<1>11. NotesOK'
  <2>1. \A e \in Datasets : /\ data'[e].pc # "idle" => data[e].pc # "idle"
                            /\ data'[e].pc \in {"preparing", "confirmed"} =>
                                 data[e].pc \in {"preparing", "confirmed"}
    BY <1>2, <1>3, <1>4
  <2> QED
    BY <1>1, <1>2, <1>5, <1>6, <2>1 DEF NotesOK
<1> QED
  BY <1>7, <1>8, <1>9, <1>10, <1>11 DEF CurationInv

-----------------------------------------------------------------------------
(* The walk of a training, and the recording of its uses.                   *)

\* What stays when one user moves and at most the recorded uses grow.
LEMMA MoveStep ==
  ASSUME CurationInv, NEW u \in Users, NEW row \in Training, Moves(u, row),
         UNCHANGED <<received, indexed, claim, bound, stored, notes, data>>,
         uses \subseteq uses', uses' \subseteq RunsOf(Decisions),
         sourceUses \subseteq sourceUses', sourceUses' \subseteq received,
         UserSafe(u)'
  PROVE  CurationInv'
<1>1. CurationTypes /\ DataOK /\ UserOK /\ GoldKeptApart /\ NotesOK
  BY DEF CurationInv
<1>2. \A v \in Users : user'[v] = IF v = u THEN row ELSE user[v]
  BY <1>1 DEF CurationTypes, Moves
<1>3. CurationTypes'
  BY <1>1 DEF CurationTypes, Moves
<1>4. /\ \A e \in Datasets : Base(e)' = Base(e)
      /\ Ledgered' = Ledgered /\ Revision' = Revision /\ Excluded' = Excluded
      /\ \A n : Newest(n)' = Newest(n)
  BY BaseSame DEF Ledgered, Known, BatchesOf, Revision, Newest, Excluded
<1>5. DataOK'
  BY <1>1, <1>4 DEF DataOK
<1>6. UserOK'
  <2>1. ASSUME NEW v \in Users, v # u PROVE UserSafe(v)'
    <3>1. \A x : FreeOfGold(x) => FreeOfGold(x)'
      BY FreedomKept
    <3> QED
      BY <1>1, <1>2, <1>4, <2>1, <3>1, UserKept DEF UserOK
  <2> QED
    BY <2>1 DEF UserOK
<1>7. GoldKeptApart'
  BY <1>1 DEF GoldKeptApart, Gold
<1>8. NotesOK'
  BY <1>1, <1>4 DEF NotesOK
<1> QED
  BY <1>3, <1>5, <1>6, <1>7, <1>8 DEF CurationInv

\* While it walks, a training has met or will meet all that it reads.
LEMMA WalkStep ==
  ASSUME CurationInv, NEW u \in Users, NEW row \in Training, Moves(u, row),
         UNCHANGED <<received, indexed, claim, bound, stored, notes, data, uses, sourceUses>>,
         row.pc \in {"idle", "walking", "admitted", "refused"},
         row.input = {} \/ row.input = user[u].input,
         row.input \cup row.todo \cup row.sources \subseteq received \cup stored,
         row.pc = "admitted" => row.todo = {},
         row.pc \in {"walking", "admitted"} => \A x \in Reads(u) : Covered(u, x)'
  PROVE  CurationInv'
<1>1. CurationTypes /\ user'[u] = row /\ UserSafe(u)
  BY DEF CurationInv, CurationTypes, Moves, UserOK
<1>2. Reads(u)' = {} \/ Reads(u)' = Reads(u)
  <2>1. CASE row.input = {}
    BY <1>1, <2>1 DEF Reads
  <2>2. CASE row.input = user[u].input
    BY <1>1, <2>2, ReadsKept
  <2> QED
    BY <2>1, <2>2
<1>3. UserSafe(u)'
  BY <1>1, <1>2 DEF UserSafe
<1>4. uses \subseteq RunsOf(Decisions) /\ sourceUses \subseteq received
  BY <1>1 DEF CurationTypes
<1> QED
  BY <1>3, <1>4, MoveStep

LEMMA RefusedStep ==
  ASSUME CurationInv, NEW u \in Users, Refused(u),
         UNCHANGED <<received, indexed, claim, bound, stored, notes, data, uses, sourceUses>>
  PROVE  CurationInv'
<1>1. user[u] \in Training /\ UserSafe(u)
  BY DEF CurationInv, CurationTypes, UserOK
<1> DEFINE row == [user[u] EXCEPT !.pc = "refused"]
<1>2. /\ row \in Training /\ row.pc = "refused" /\ row.input = user[u].input
      /\ row.todo = user[u].todo /\ row.sources = user[u].sources
  BY <1>1 DEF Training
<1>3. Moves(u, row)
  BY DEF Refused
<1> HIDE DEF row
<1>4. row.input \cup row.todo \cup row.sources \subseteq received \cup stored
  BY <1>1, <1>2 DEF UserSafe
<1> QED
  BY <1>2, <1>3, <1>4, WalkStep

LEMMA AgainStep ==
  ASSUME CurationInv, NEW u \in Users, Again(u)
  PROVE  CurationInv'
<1>1. /\ NewUser \in Training /\ NewUser.pc = "idle" /\ NewUser.input = {}
      /\ NewUser.todo = {} /\ NewUser.sources = {}
  BY DEF NewUser, Training
<1>2. Moves(u, NewUser)
      /\ UNCHANGED <<received, indexed, claim, bound, stored, notes, data, uses, sourceUses>>
  BY DEF Again, ledger
<1> QED
  BY <1>1, <1>2, WalkStep

\* A walk starts from its input.
LEMMA LookStep ==
  ASSUME CurationInv, NEW u \in Users, NEW a, Look(u, a)
  PROVE  CurationInv'
<1>1. CurationTypes /\ a \in received \cup stored /\ a \in Artifacts
  BY DEF CurationInv, Look, CurationTypes, Artifacts
<1> DEFINE row == [NewUser EXCEPT !.pc = "walking", !.gold = HasGold,
                                  !.input = {a}, !.todo = {a}]
<1>2. /\ row \in Training /\ row.pc = "walking" /\ row.input = {a}
      /\ row.todo = {a} /\ row.sources = {} /\ row.runs = {}
  BY <1>1 DEF Training, NewUser, HasGold
<1>3. /\ Moves(u, row) /\ user'[u] = row
      /\ UNCHANGED <<received, indexed, claim, bound, stored, notes, data, uses, sourceUses>>
  BY <1>1 DEF Look, ledger, CurationTypes, Moves
<1> HIDE DEF row
<1>4. ASSUME NEW x \in Reads(u)'
      PROVE  Covered(u, x)'
  <2>1. \A s : Whole(s)' = Whole(s)
    BY DEF Whole, BatchesOf
  <2>2. \/ \E s \in {a} \cap Sources : x \in Whole(s)
        \/ \E d \in {a} \cap Datasets : x \in data'[d].rows
    BY <1>2, <1>3, <1>4, <2>1 DEF Reads
  <2> QED
    BY <1>2, <1>3, <2>1, <2>2 DEF Covered
<1>5. UserSafe(u)'
  BY <1>1, <1>2, <1>3, <1>4 DEF UserSafe
<1>6. uses \subseteq RunsOf(Decisions) /\ sourceUses \subseteq received
  BY <1>1 DEF CurationTypes
<1> QED
  BY <1>2, <1>3, <1>5, <1>6, MoveStep

\* A bound dataset stands for its runs, another for what it was selected from.
LEMMA VisitDatasetStep ==
  ASSUME CurationInv, NEW u \in Users, NEW d \in Datasets, VisitDataset(u, d)
  PROVE  CurationInv'
<1>1. CurationTypes /\ DataOK /\ user[u] \in Training /\ UserSafe(u)
  BY DEF CurationInv, CurationTypes, UserOK
<1>2. /\ user[u].pc = "walking" /\ d \in user[u].todo
      /\ UNCHANGED <<received, indexed, claim, bound, stored, notes, data, uses, sourceUses>>
  BY DEF VisitDataset, ledger
<1>3. CASE Refused(u)
  BY <1>2, <1>3, RefusedStep
<1>4. /\ d \in stored /\ data[d].pc # "idle"
      /\ claim[d] = RunsOf(data[d].rows)
      /\ data[d].rows \subseteq Base(d) /\ data[d].rows \subseteq Ledgered
      /\ Parents[d] \subseteq received \cup stored
  BY <1>1, <1>2 DEF UserSafe, CurationTypes, DataOK
<1>5. /\ user[u].input \cup user[u].todo \cup user[u].sources \subseteq received \cup stored
      /\ \A x \in Reads(u) : Covered(u, x)
  BY <1>1, <1>2 DEF UserSafe
<1>6. received \cup stored \subseteq Artifacts
  BY <1>1 DEF CurationTypes, Artifacts
<1>7. ASSUME d \in bound,
             Moves(u, [user[u] EXCEPT !.todo = @ \ {d}, !.runs = @ \cup claim[d]])
      PROVE  CurationInv'
  <2> DEFINE row == [user[u] EXCEPT !.todo = user[u].todo \ {d},
                                    !.runs = user[u].runs \cup claim[d]]
  <2>1. claim[d] \subseteq RunsOf(Decisions)
    BY <1>1 DEF CurationTypes
  <2>2. /\ row \in Training /\ row.pc = "walking" /\ row.input = user[u].input
        /\ row.sources = user[u].sources /\ row.todo = user[u].todo \ {d}
        /\ row.runs = user[u].runs \cup claim[d]
    BY <1>1, <1>2, <2>1 DEF Training
  <2>3. Moves(u, row)
    BY <1>7
  <2> HIDE DEF row
  <2>4. user'[u] = row
    BY <1>1, <2>3 DEF CurationTypes, Moves
  <2>5. ASSUME NEW x \in Reads(u) PROVE Covered(u, x)'
    <3>1. Covered(u, x)
      BY <1>5
    <3>2. x \in data[d].rows => x \in Ledgered /\ RunOf[x] \in claim[d]
      BY <1>4 DEF RunsOf
    <3>3. \A s : Whole(s)' = Whole(s)
      BY DEF Whole, BatchesOf
    <3>4. Ledgered' = Ledgered
      BY <1>2 DEF Ledgered, Known, BatchesOf
    <3>5. d \notin Sources
      OBVIOUS
    <3> QED
      BY <1>2, <2>2, <2>4, <3>1, <3>2, <3>3, <3>4, <3>5 DEF Covered
  <2>6. row.input \cup row.todo \cup row.sources \subseteq received \cup stored
    BY <1>5, <2>2
  <2> QED
    BY <1>2, <2>2, <2>3, <2>5, <2>6, WalkStep
<1>8. ASSUME Moves(u, [user[u] EXCEPT !.todo = (@ \ {d}) \cup Parents[d]])
      PROVE  CurationInv'
  <2> DEFINE row == [user[u] EXCEPT !.todo = (user[u].todo \ {d}) \cup Parents[d]]
  <2>2. /\ row \in Training /\ row.pc = "walking" /\ row.input = user[u].input
        /\ row.sources = user[u].sources
        /\ row.todo = (user[u].todo \ {d}) \cup Parents[d]
        /\ row.runs = user[u].runs
    BY <1>1, <1>2, <1>4, <1>6 DEF Training
  <2>3. Moves(u, row)
    BY <1>8
  <2> HIDE DEF row
  <2>4. user'[u] = row
    BY <1>1, <2>3 DEF CurationTypes, Moves
  <2>5. ASSUME NEW x \in Reads(u) PROVE Covered(u, x)'
    <3>1. Covered(u, x)
      BY <1>5
    <3>2. x \in data[d].rows =>
            \/ \E p \in Parents[d] \cap Datasets : x \in data[p].rows
            \/ \E s \in Parents[d] \cap Sources : x \in Whole(s)
      BY <1>4 DEF Base, Merges
    <3>3. \A s : Whole(s)' = Whole(s)
      BY DEF Whole, BatchesOf
    <3>4. Ledgered' = Ledgered
      BY <1>2 DEF Ledgered, Known, BatchesOf
    <3>5. d \notin Sources
      OBVIOUS
    <3> QED
      BY <1>2, <2>2, <2>4, <3>1, <3>2, <3>3, <3>4, <3>5 DEF Covered
  <2>6. row.input \cup row.todo \cup row.sources \subseteq received \cup stored
    BY <1>4, <1>5, <2>2
  <2> QED
    BY <1>2, <2>2, <2>3, <2>5, <2>6, WalkStep
<1>9. CASE d \in bound
  BY <1>3, <1>7, <1>9 DEF VisitDataset
<1>10. CASE d \notin bound
  BY <1>3, <1>8, <1>10 DEF VisitDataset
<1> QED
  BY <1>9, <1>10

\* A source is remembered until its use is recorded.
LEMMA VisitSourceStep ==
  ASSUME CurationInv, NEW u \in Users, NEW s \in Sources, VisitSource(u, s)
  PROVE  CurationInv'
<1>1. CurationTypes /\ DataOK /\ user[u] \in Training /\ UserSafe(u)
  BY DEF CurationInv, CurationTypes, UserOK
<1>2. /\ user[u].pc = "walking" /\ s \in user[u].todo
      /\ UNCHANGED <<received, indexed, claim, bound, stored, notes, data, uses, sourceUses>>
  BY DEF VisitSource, ledger
<1>3. CASE Refused(u)
  BY <1>2, <1>3, RefusedStep
<1>4. CASE ~Refused(u)
  <2> DEFINE more == IF Complete(s) THEN RunsOf(Known(s)) ELSE {}
             row == [user[u] EXCEPT !.todo = user[u].todo \ {s},
                                    !.sources = user[u].sources \cup {s},
                                    !.runs = user[u].runs \cup more]
  <2>1. more \subseteq RunsOf(Decisions)
    <3>1. Known(s) \subseteq Decisions
      BY <1>1, LedgerFacts
    <3> QED
      BY <3>1 DEF RunsOf
  <2>2. /\ row \in Training /\ row.pc = "walking" /\ row.input = user[u].input
        /\ row.sources = user[u].sources \cup {s} /\ row.todo = user[u].todo \ {s}
        /\ user[u].runs \subseteq row.runs
    BY <1>1, <1>2, <2>1 DEF Training
  <2>3. Moves(u, row)
    BY <1>4 DEF VisitSource
  <2> HIDE DEF row, more
  <2>4. user'[u] = row
    BY <1>1, <2>3 DEF CurationTypes, Moves
  <2>5. ASSUME NEW x \in Reads(u) PROVE Covered(u, x)'
    <3>1. Covered(u, x)
      BY <1>1, <1>2 DEF UserSafe
    <3>3. \A o : Whole(o)' = Whole(o)
      BY DEF Whole, BatchesOf
    <3>4. Ledgered' = Ledgered
      BY <1>2 DEF Ledgered, Known, BatchesOf
    <3>5. s \notin Datasets
      OBVIOUS
    <3> QED
      BY <1>2, <2>2, <2>4, <3>1, <3>3, <3>4, <3>5 DEF Covered
  <2>6. row.input \cup row.todo \cup row.sources \subseteq received \cup stored
    BY <1>1, <1>2, <2>2 DEF UserSafe
  <2> QED
    BY <1>2, <2>2, <2>3, <2>5, <2>6, WalkStep
<1> QED
  BY <1>3, <1>4

LEMMA AdmitStep ==
  ASSUME CurationInv, NEW u \in Users, Admit(u)
  PROVE  CurationInv'
<1>1. CurationTypes /\ user[u] \in Training /\ UserSafe(u)
  BY DEF CurationInv, CurationTypes, UserOK
<1>2. /\ user[u].pc = "walking" /\ user[u].todo = {}
      /\ UNCHANGED <<received, indexed, claim, bound, stored, notes, data, uses, sourceUses>>
  BY DEF Admit, ledger
<1>3. CASE Reserved(user[u].runs)
  BY <1>2, <1>3, RefusedStep DEF Admit
<1>4. CASE ~Reserved(user[u].runs)
  <2> DEFINE row == [user[u] EXCEPT !.pc = "admitted"]
  <2>1. /\ row \in Training /\ row.pc = "admitted" /\ row.input = user[u].input
        /\ row.sources = user[u].sources /\ row.todo = {}
        /\ row.runs = user[u].runs
    BY <1>1, <1>2 DEF Training
  <2>2. Moves(u, row)
    BY <1>4 DEF Admit
  <2> HIDE DEF row
  <2>3. user'[u] = row
    BY <1>1, <2>2 DEF CurationTypes, Moves
  <2>4. ASSUME NEW x \in Reads(u) PROVE Covered(u, x)'
    <3>1. Covered(u, x)
      BY <1>1, <1>2 DEF UserSafe
    <3>2. \A o : Whole(o)' = Whole(o)
      BY DEF Whole, BatchesOf
    <3>3. Ledgered' = Ledgered
      BY <1>2 DEF Ledgered, Known, BatchesOf
    <3> QED
      BY <1>2, <2>1, <2>3, <3>1, <3>2, <3>3 DEF Covered
  <2>5. row.input \cup row.todo \cup row.sources \subseteq received \cup stored
    BY <1>1, <1>2, <2>1 DEF UserSafe
  <2> QED
    BY <1>2, <2>1, <2>2, <2>4, <2>5, WalkStep
<1> QED
  BY <1>3, <1>4

\* Runs that no Gold dataset is related to hold nothing that Gold holds.
LEMMA UnreservedFree ==
  ASSUME CurationTypes, DataOK, NEW runs, ~Reserved(runs),
         NEW x \in Ledgered, RunOf[x] \in runs
  PROVE  FreeOfGold(x)
<1>1. ASSUME NEW d \in Datasets, Gold(d), claim[d] # {}
      PROVE  /\ RunOf[x] \notin claim[d]
             /\ \A y \in data[d].rows : PrintOf[x] # PrintOf[y]
  <2>1. claim[d] \cap Group(runs) = {}
    BY <1>1 DEF Reserved, Claimants
  <2>2. RunOf[x] \in Group(runs)
    BY GroupHolds
  <2>3. claim[d] = RunsOf(data[d].rows) /\ data[d].rows \subseteq Ledgered
    BY <1>1 DEF DataOK
  <2>4. ASSUME NEW y \in data[d].rows, PrintOf[x] = PrintOf[y]
        PROVE  FALSE
    <3>1. RunOf[y] \in claim[d]
      BY <2>3 DEF RunsOf
    <3>2. RunOf[y] \in Group(runs)
      BY <2>3, <2>4, DuplicateJoins
    <3> QED
      BY <2>1, <3>1, <3>2
  <2> QED
    BY <2>1, <2>2, <2>4
<1> QED
  BY <1>1 DEF FreeOfGold

\* The uses are recorded with the runs of the walk, but for the sources whose
\* index the walk did not need.
LEMMA UseStep ==
  ASSUME CurationInv, NEW u \in Users, Use(u)
  PROVE  CurationInv'
<1>1. CurationTypes /\ DataOK /\ user[u] \in Training /\ UserSafe(u)
  BY DEF CurationInv, CurationTypes, UserOK
<1>2. /\ user[u].pc = "admitted" /\ user[u].todo = {}
      /\ UNCHANGED <<received, indexed, claim, bound, stored, notes, data, sourceUses>>
  BY <1>1 DEF Use, UserSafe
<1>3. CASE Reserved(user[u].runs)
  BY <1>2, <1>3, RefusedStep DEF Use
<1>4. CASE ~Reserved(user[u].runs)
  <2> DEFINE row == [user[u] EXCEPT !.pc = "recording", !.todo = user[u].sources]
  <2>1. /\ row \in Training /\ row.pc = "recording" /\ row.input = user[u].input
        /\ row.sources = user[u].sources /\ row.todo = user[u].sources
        /\ row.runs = user[u].runs
    BY <1>1, <1>2 DEF Training, Artifacts
  <2>2. Moves(u, row) /\ uses' = uses \cup Group(user[u].runs)
    BY <1>4 DEF Use
  <2> HIDE DEF row
  <2>3. user'[u] = row
    BY <1>1, <2>2 DEF CurationTypes, Moves
  <2>4. uses' \subseteq RunsOf(Decisions)
    <3>1. Group(user[u].runs) \subseteq user[u].runs \cup RunsOf(Ledgered)
      BY DEF Group
    <3>2. RunsOf(Ledgered) \subseteq RunsOf(Decisions)
      BY <1>1, LedgerFacts DEF RunsOf
    <3> QED
      BY <1>1, <2>2, <3>1, <3>2 DEF CurationTypes, Training
  <2>5. Reads(u)' = Reads(u)
    BY <1>1, <1>2, <2>1, <2>3, ReadsKept
  <2>6. ASSUME NEW x \in Reads(u)
        PROVE  /\ Recorded(u, x)'
               /\ FreeOfGold(x)' \/ \E s \in row.todo : x \in Whole(s)
    <3>1. \/ \E s \in user[u].sources : x \in Whole(s)
          \/ x \in Ledgered /\ RunOf[x] \in user[u].runs
      BY <1>1, <1>2 DEF UserSafe, Covered
    <3>2. \A o : Whole(o)' = Whole(o)
      BY DEF Whole, BatchesOf
    <3>3. Ledgered' = Ledgered
      BY <1>2 DEF Ledgered, Known, BatchesOf
    <3>4. CASE \E s \in user[u].sources : x \in Whole(s)
      BY <2>1, <2>3, <3>2, <3>4 DEF Recorded
    <3>5. CASE x \in Ledgered /\ RunOf[x] \in user[u].runs
      <4>1. RunOf[x] \in uses'
        BY <2>2, <3>5, GroupHolds
      <4>2. FreeOfGold(x)
        BY <1>1, <1>4, <3>5, UnreservedFree
      <4>3. FreeOfGold(x)'
        BY <1>2, <4>2, FreedomKept
      <4> QED
        BY <3>3, <3>5, <4>1, <4>3 DEF Recorded
    <3> QED
      BY <3>1, <3>4, <3>5
  <2>7. UserSafe(u)'
    <3>1. \A o : Whole(o)' = Whole(o)
      BY DEF Whole, BatchesOf
    <3>2. user[u].input \cup user[u].todo \cup user[u].sources \subseteq received \cup stored
      BY <1>1 DEF UserSafe
    <3>3. row.todo \subseteq Sources
      BY <1>1, <2>1 DEF Training
    <3> QED
      BY <1>2, <2>1, <2>3, <2>5, <2>6, <3>1, <3>2, <3>3 DEF UserSafe
  <2>8. uses \subseteq uses' /\ sourceUses \subseteq sourceUses' /\ sourceUses' \subseteq received
    BY <1>1, <1>2, <2>2 DEF CurationTypes
  <2> QED
    BY <1>2, <2>1, <2>2, <2>4, <2>7, <2>8, MoveStep
<1> QED
  BY <1>3, <1>4

\* A source counts as used whether or not its index is complete: once there
\* is Gold it has to be, and its runs have to be free of it.
LEMMA UseSourceStep ==
  ASSUME CurationInv, NEW u \in Users, NEW s \in Sources, UseSource(u, s)
  PROVE  CurationInv'
<1>1. CurationTypes /\ DataOK /\ user[u] \in Training /\ UserSafe(u)
  BY DEF CurationInv, CurationTypes, UserOK
<1>2. /\ user[u].pc = "recording" /\ s \in user[u].todo
      /\ user[u].todo \subseteq Sources
      /\ UNCHANGED <<received, indexed, claim, bound, stored, notes, data, uses>>
  BY <1>1 DEF UseSource, UserSafe
<1> DEFINE refusal == Reserved(RunsOf(Known(s))) \/ (HasGold /\ ~Complete(s))
<1>3. CASE refusal
  BY <1>2, <1>3, RefusedStep DEF UseSource
<1>4. CASE ~refusal
  <2> DEFINE row == [user[u] EXCEPT !.todo = user[u].todo \ {s}]
  <2>1. /\ row \in Training /\ row.pc = "recording" /\ row.input = user[u].input
        /\ row.sources = user[u].sources /\ row.todo = user[u].todo \ {s}
        /\ row.runs = user[u].runs
    BY <1>1, <1>2 DEF Training
  <2>2. Moves(u, row) /\ sourceUses' = sourceUses \cup {s}
    BY <1>4 DEF UseSource
  <2> HIDE DEF row
  <2>3. user'[u] = row
    BY <1>1, <2>2 DEF CurationTypes, Moves
  <2>4. s \in received
    BY <1>1, <1>2 DEF UserSafe, CurationTypes
  <2>5. Reads(u)' = Reads(u)
    BY <1>1, <1>2, <2>1, <2>3, ReadsKept
  <2>6. ASSUME NEW x \in Reads(u)
        PROVE  /\ Recorded(u, x)'
               /\ FreeOfGold(x)' \/ \E o \in row.todo : x \in Whole(o)
    <3>1. /\ Recorded(u, x)
          /\ FreeOfGold(x) \/ \E o \in user[u].todo : x \in Whole(o)
      BY <1>1, <1>2 DEF UserSafe
    <3>2. \A o : Whole(o)' = Whole(o)
      BY DEF Whole, BatchesOf
    <3>3. Ledgered' = Ledgered
      BY <1>2 DEF Ledgered, Known, BatchesOf
    <3>4. Recorded(u, x)'
      BY <1>2, <2>1, <2>2, <2>3, <3>1, <3>2, <3>3 DEF Recorded
    <3>5. ASSUME x \in Whole(s) PROVE FreeOfGold(x)
      <4>1. CASE HasGold
        <5>1. x \in Ledgered /\ x \in Known(s)
          BY <1>1, <1>4, <3>5, <4>1, LedgerFacts
        <5>2. RunOf[x] \in RunsOf(Known(s))
          BY <5>1 DEF RunsOf
        <5> QED
          BY <1>1, <1>4, <5>1, <5>2, UnreservedFree
      <4>2. CASE ~HasGold
        BY <4>2 DEF HasGold, FreeOfGold
      <4> QED
        BY <4>1, <4>2
    <3>6. FreeOfGold(x) => FreeOfGold(x)'
      BY <1>2, FreedomKept
    <3> QED
      BY <2>1, <3>1, <3>4, <3>5, <3>6
  <2>7. UserSafe(u)'
    <3>1. \A o : Whole(o)' = Whole(o)
      BY DEF Whole, BatchesOf
    <3>2. user[u].input \cup user[u].todo \cup user[u].sources \subseteq received \cup stored
      BY <1>1 DEF UserSafe
    <3> QED
      BY <1>2, <2>1, <2>3, <2>5, <2>6, <3>1, <3>2 DEF UserSafe
  <2>8. /\ sourceUses \subseteq sourceUses' /\ sourceUses' \subseteq received
        /\ uses \subseteq uses' /\ uses' \subseteq RunsOf(Decisions)
    BY <1>1, <1>2, <2>2, <2>4 DEF CurationTypes
  <2> QED
    BY <1>2, <2>1, <2>2, <2>7, <2>8, MoveStep
<1> QED
  BY <1>3, <1>4

LEMMA StartStep ==
  ASSUME CurationInv, NEW u \in Users, Start(u)
  PROVE  CurationInv'
<1>1. CurationTypes /\ user[u] \in Training /\ UserSafe(u)
  BY DEF CurationInv, CurationTypes, UserOK
<1>2. /\ user[u].pc = "recording" /\ user[u].todo = {}
      /\ UNCHANGED <<received, indexed, claim, bound, stored, notes, data, uses, sourceUses>>
  BY DEF Start, ledger
<1> DEFINE row == [user[u] EXCEPT !.pc = "started"]
<1>3. /\ row \in Training /\ row.pc = "started" /\ row.input = user[u].input
      /\ row.sources = user[u].sources /\ row.todo = {}
  BY <1>1, <1>2 DEF Training
<1>4. Moves(u, row) /\ user'[u] = row
  BY <1>1 DEF Start, Moves, CurationTypes
<1> HIDE DEF row
<1>5. Reads(u)' = Reads(u)
  BY <1>1, <1>2, <1>3, <1>4, ReadsKept
<1>6. ASSUME NEW x \in Reads(u) PROVE Recorded(u, x)' /\ FreeOfGold(x)'
  <2>1. Recorded(u, x) /\ FreeOfGold(x)
    BY <1>1, <1>2 DEF UserSafe
  <2>2. \A o : Whole(o)' = Whole(o)
    BY DEF Whole, BatchesOf
  <2>3. Ledgered' = Ledgered
    BY <1>2 DEF Ledgered, Known, BatchesOf
  <2>4. FreeOfGold(x)'
    BY <1>2, <2>1, FreedomKept
  <2> QED
    BY <1>2, <1>3, <1>4, <2>1, <2>2, <2>3, <2>4 DEF Recorded
<1>7. UserSafe(u)'
  BY <1>1, <1>2, <1>3, <1>4, <1>5, <1>6 DEF UserSafe
<1>8. uses \subseteq RunsOf(Decisions) /\ sourceUses \subseteq received
  BY <1>1 DEF CurationTypes
<1> QED
  BY <1>2, <1>3, <1>4, <1>7, <1>8, MoveStep

-----------------------------------------------------------------------------
(* The theorems.                                                            *)

LEMMA CurationStart ==
  ASSUME CurationInit
  PROVE  CurationInv
<1>1. CurationTypes
  BY DEF CurationInit, CurationTypes, Note, Publication, Training, NewUser
<1>2. DataOK
  BY DEF CurationInit, DataOK
<1>3. UserOK
  BY DEF CurationInit, UserOK, UserSafe, NewUser
<1>4. GoldKeptApart
  BY DEF CurationInit, GoldKeptApart
<1>5. NotesOK
  <2>1. Newest(0) /\ 0 \in 0..MaxNotes
    BY DEF CurationInit, Newest
  <2>2. Revision = 0
    BY <1>1, <2>1, RevisionIs
  <2> QED
    BY <2>1, <2>2 DEF CurationInit, NotesOK
<1> QED
  BY <1>1, <1>2, <1>3, <1>4, <1>5 DEF CurationInv

LEMMA CurationStep ==
  ASSUME CurationInv, [CurationNext]_curationVars
  PROVE  CurationInv'
<1>1. CASE UNCHANGED curationVars
  <2>1. UNCHANGED <<received, indexed, claim, bound, stored, uses, sourceUses, notes,
                    data, user>>
    BY <1>1 DEF curationVars
  <2>2. /\ \A s \in Sources : indexed[s] <= indexed[s]
        /\ \A s \in Sources : indexed[s] > 0 => s \in received
        /\ indexed \in [Sources -> Nat] /\ received \subseteq Sources
    BY DEF CurationInv, CurationTypes, DataOK
  <2> QED
    BY <2>1, <2>2, GrowthStep
<1>2. ASSUME NEW s \in Sources, Receive(s) \/ IndexBatch(s)
      PROVE  CurationInv'
  BY <1>2, SourceStep
<1>3. ASSUME NEW x \in Decisions, NEW a \in {"flag", "exclude", "restore"}, Annotate(x, a)
      PROVE  CurationInv'
  BY <1>3, AnnotateStep
<1>4. ASSUME NEW d \in Datasets,
             \/ Select(d) \/ Confirm(d) \/ Claim(d) \/ Store(d) \/ Bind(d) \/ Retry(d)
             \/ Prepare(d) \/ \E o \in Datasets : Rebind(d, o)
      PROVE  CurationInv'
  BY <1>4, SelectStep, ConfirmStep, ClaimStep, StoreStep, PublicationStep
<1>5. ASSUME NEW u \in Users,
             \/ \E x \in Inputs : Look(u, x)
             \/ Admit(u) \/ Use(u) \/ Start(u) \/ Again(u)
             \/ \E d \in Datasets : VisitDataset(u, d)
             \/ \E s \in Sources : VisitSource(u, s) \/ UseSource(u, s)
      PROVE  CurationInv'
  BY <1>5, LookStep, AdmitStep, UseStep, StartStep, AgainStep, VisitDatasetStep,
     VisitSourceStep, UseSourceStep
<1> QED
  BY <1>1, <1>2, <1>3, <1>4, <1>5 DEF CurationNext

\* Every reachable state of the index, the claims, the uses and the jobs
\* satisfies the invariant (curation.py, curation_access.py).
THEOREM CurationInvariance == CurationSpec => []CurationInv
<1>1. CurationInit => CurationInv
  BY CurationStart
<1>2. CurationInv /\ [CurationNext]_curationVars => CurationInv'
  BY CurationStep
<1> QED
  BY <1>1, <1>2, PTL DEF CurationSpec

\* A training that started read no decision of a run that is Gold, now or
\* later, and no duplicate of one: its uses were recorded before it started,
\* and a claim on Gold looks for them with every source indexed.
THEOREM GoldStaysUntrained == CurationSpec => []GoldNeverTrained
<1>1. CurationInv => GoldNeverTrained
  <2> SUFFICES ASSUME CurationInv, NEW u \in Users, NEW d \in Datasets,
                      user[u].pc = "started", Gold(d), claim[d] # {}
               PROVE  /\ RunsOf(Reads(u)) \cap claim[d] = {}
                      /\ \A x \in Reads(u), y \in data[d].rows : PrintOf[x] # PrintOf[y]
    BY DEF GoldNeverTrained
  <2>1. \A x \in Reads(u) : FreeOfGold(x)
    BY DEF CurationInv, UserOK, UserSafe
  <2> QED
    BY <2>1 DEF FreeOfGold, RunsOf
<1> QED
  BY <1>1, CurationInvariance, PTL

\* Datasets with a run in common are both Gold, one merged from the other, or
\* both not: a claim looks at the claims on all related runs.
THEOREM ReservationsKeptApart == CurationSpec => []GoldKeptApart
<1>1. CurationInv => GoldKeptApart
  BY DEF CurationInv
<1> QED
  BY <1>1, CurationInvariance, PTL

\* What is reserved was selected under the annotations now in force: the
\* confirmation compares them with those the preview saw, and a claim the
\* number of the newest with that of the confirmation.
THEOREM ReservationsCurrent == CurationSpec => QualityCurrent
<1> DEFINE Current ==
      \A d \in Datasets :
        (data[d].pc = "confirmed" /\ data'[d].pc = "claimed") =>
           data[d].rows = Base(d) \ Excluded
<1>1. ASSUME CurationInv, CurationNext PROVE Current
  <2> SUFFICES ASSUME NEW d \in Datasets,
                      data[d].pc = "confirmed", data'[d].pc = "claimed"
               PROVE  data[d].rows = Base(d) \ Excluded
    OBVIOUS
  <2>1. data \in [Datasets -> Publication]
    BY <1>1 DEF CurationInv, CurationTypes
  <2>3. data' # data
    OBVIOUS
  <2>4. ASSUME NEW e \in Datasets, NEW pc, pc # "claimed", Goes(e, pc)
        PROVE  FALSE
    BY <2>1, <2>4 DEF Goes, Publication
  <2>5. ASSUME NEW e \in Datasets,
               \/ Select(e) \/ Confirm(e) \/ Store(e) \/ Bind(e) \/ Retry(e)
               \/ Prepare(e) \/ \E o \in Datasets : Rebind(e, o)
        PROVE  FALSE
    <3>1. data[e] \in Publication
      BY <2>1
    <3>2. CASE Select(e)
      <4>1. data'[d] = data[d] \/ data'[d].pc = "selected"
        BY <2>1, <3>1, <3>2 DEF Select, Publication
      <4> QED
        BY <4>1
    <3>3. CASE Confirm(e)
      <4>1. data'[d] = data[d] \/ data'[d].pc \in {"preparing", "confirmed", "failed"}
        BY <2>1, <3>1, <3>3 DEF Confirm, Goes, Publication
      <4> QED
        BY <4>1
    <3>4. CASE Prepare(e)
      <4>1. data'[d] = data[d] \/ data'[d].pc = "confirmed"
        BY <2>1, <3>1, <3>4 DEF Prepare, Publication
      <4> QED
        BY <4>1
    <3>5. ASSUME NEW o \in Datasets, Rebind(e, o) PROVE FALSE
      <4>1. data'[d] = data[d] \/ data'[d].pc \in {"confirmed", "failed"}
        BY <2>1, <3>1, <3>5 DEF Rebind, Goes, Publication
      <4> QED
        BY <4>1
    <3>6. CASE Store(e) \/ Bind(e) \/ Retry(e)
      BY <2>4, <3>6 DEF Store, Bind, Retry
    <3> QED
      BY <2>5, <3>2, <3>3, <3>4, <3>5, <3>6
  <2>6. ASSUME NEW e \in Datasets, Claim(e)
        PROVE  data[d].rows = Base(d) \ Excluded
    <3>1. Claimable(e)
      BY <2>4, <2>6 DEF Claim
    <3>2. e = d
      BY <2>1, <2>6, <3>1 DEF Claim, Goes
    <3> QED
      BY <1>1, <3>1, <3>2 DEF Claimable, Unannotated, CurationInv, NotesOK
  <2>7. \/ UNCHANGED data
        \/ \E e \in Datasets :
             \/ Select(e) \/ Confirm(e) \/ Claim(e) \/ Store(e) \/ Bind(e)
             \/ Retry(e) \/ Prepare(e) \/ \E o \in Datasets : Rebind(e, o)
    BY <1>1 DEF CurationNext, Receive, IndexBatch, Annotate, Look, Admit, Use, Start,
                Again, VisitDataset, VisitSource, UseSource
  <2> QED
    BY <2>3, <2>5, <2>6, <2>7
<1>2. CurationInv /\ [CurationNext]_curationVars => [Current]_data
  BY <1>1 DEF curationVars
<1> QED
  BY <1>2, CurationInvariance, PTL DEF CurationSpec, QualityCurrent
=============================================================================
