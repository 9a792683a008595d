---------------------------- MODULE HubCuration ----------------------------
(***************************************************************************)
(* The research reservations of the Hub: the index of verified sources,    *)
(* the claims that datasets hold on whole runs, the recorded uses, quality *)
(* annotations, the publication of a dataset and the guard of a training.  *)
(*                                                                         *)
(* `indexed' stands for curation_sources, curation_source_runs and         *)
(* curation_fingerprints, which index_source fills batch by batch; `claim' *)
(* for curation_claims and curation_claim_runs, `uses' and `sourceUses'    *)
(* for curation_uses and curation_source_uses, `notes' for the             *)
(* annotations, `data' are the jobs in DatasetCuration.publish and `user'  *)
(* the callers of curation_access.record_use.  Every transaction is a step.*)
(*                                                                         *)
(* Abstractions.  A decision is known by its run, its fingerprint and the  *)
(* batches that hold it; a dataset selects every decision of its sources   *)
(* that no annotation excludes, without rules or deduplication.  A dataset *)
(* is its own artifact.  Paired training sets, which only refuse more, and *)
(* uses for a download, which no Gold claim looks at, are left out.        *)
(***************************************************************************)
EXTENDS Integers, Sequences, FiniteSets

CONSTANTS
  Sources,    \* received bundles
  Content,    \* per source: its batches, sequences of sets of decisions
  RunOf,      \* the run of each decision
  PrintOf,    \* its decision fingerprint
  Datasets,
  Purpose,    \* "training", "test" or "gold"
  Parents,    \* the sources, or the datasets, that a dataset selects from
  Users,      \* trainings and feature preparations
  Inputs,     \* the sources and datasets they read
  MaxNotes    \* bound: annotations

\* A dataset selects from recordings, or merges datasets.
ASSUME CurationConstants ==
  /\ Sources \cap Datasets = {}
  /\ \A d \in Datasets : Parents[d] \subseteq Sources \/ Parents[d] \subseteq Datasets
  /\ \A s \in Sources : Content[s] \in Seq(SUBSET DOMAIN RunOf)
  /\ MaxNotes \in Nat

VARIABLES
  received,   \* sources of verified uploads
  indexed,    \* batches of each source in the ledger, + 1 when complete
  claim,      \* the runs each dataset has reserved
  bound,      \* datasets whose claim knows its artifact
  stored,     \* datasets whose manifest is in the artifact store
  uses, sourceUses,
  notes,      \* the last annotation of each decision: its number, its action
  data,
  user

curationVars == <<received, indexed, claim, bound, stored, uses, sourceUses,
                  notes, data, user>>
ledger == <<claim, uses, sourceUses>>

-----------------------------------------------------------------------------
Decisions == DOMAIN RunOf
RunsOf(ds) == {RunOf[x] : x \in ds}
BatchesOf(s, n) == UNION {Content[s][i] : i \in (1..n) \cap DOMAIN Content[s]}
Whole(s) == BatchesOf(s, Len(Content[s]))

\* What the index knows of a source.
Complete(s) == indexed[s] > Len(Content[s])
Known(s)    == BatchesOf(s, indexed[s])
Ledgered    == UNION {Known(s) : s \in Sources}

\* Runs connected with `runs' through shared fingerprints,
Linked(runs) ==
  runs \cup {RunOf[y] : y \in {z \in Ledgered :
    \E x \in Ledgered : RunOf[x] \in runs /\ PrintOf[x] = PrintOf[z]}}

\* and transitively: what every set that is closed under it has in common.
Group(runs) ==
  LET all == runs \cup RunsOf(Ledgered)
  IN  {r \in all : \A S \in SUBSET all :
         runs \subseteq S /\ Linked(S) = S => r \in S}

Gold(d)    == Purpose[d] = "gold"
HasGold    == \E d \in Datasets : Gold(d) /\ claim[d] # {}
Claimants(runs) == {d \in Datasets : claim[d] \cap Group(runs) # {}}
Reserved(runs)  == \E d \in Claimants(runs) : Gold(d)
Trained(r) == \/ r \in uses
              \/ \E s \in sourceUses : r \in RunsOf(Known(s))

\* The Gold datasets a dataset is merged from, at any depth.
Merges(d) == Parents[d] \subseteq Datasets
Ancestors[n \in Nat] ==
  [d \in Datasets |-> IF n = 0 \/ ~Merges(d) THEN {}
     ELSE Parents[d] \cup UNION {Ancestors[n - 1][p] : p \in Parents[d]}]
GoldParents(d) == {p \in Ancestors[Cardinality(Datasets)][d] : Gold(p)}

NewUser == [pc |-> "idle", input |-> {}, gold |-> FALSE, todo |-> {},
            runs |-> {}, sources |-> {}]

CurationInit ==
  /\ received = {}
  /\ indexed = [s \in Sources |-> 0]
  /\ claim = [d \in Datasets |-> {}]
  /\ bound = {} /\ stored = {}
  /\ uses = {} /\ sourceUses = {}
  /\ notes = [x \in Decisions |-> [at |-> 0, action |-> "none"]]
  /\ data = [d \in Datasets |-> [pc |-> "idle", rows |-> {}, seen |-> {},
                                 revision |-> 0, todo |-> {}]]
  /\ user = [u \in Users |-> NewUser]

-----------------------------------------------------------------------------
(* The receiver, and the index.                                            *)

Receive(s) ==
  /\ s \notin received
  /\ received' = received \cup {s}
  /\ UNCHANGED <<indexed, ledger, bound, stored, notes, data, user>>

\* index_source commits the next batch, or the mark that there are no more;
\* a run of it that ends early, or a second one, leaves no other trace.
IndexBatch(s) ==
  /\ s \in received
  /\ ~Complete(s)
  /\ indexed' = [indexed EXCEPT ![s] = @ + 1]
  /\ UNCHANGED <<received, ledger, bound, stored, notes, data, user>>

\* The number of the newest annotation, and the decisions left out.
Newest(n) == /\ \A x \in Decisions : notes[x].at <= n
             /\ n = 0 \/ \E x \in Decisions : notes[x].at = n
Revision == CHOOSE n \in 0..MaxNotes : Newest(n)
Excluded == {x \in Decisions : notes[x].action = "exclude"}

Annotate(x, action) ==
  /\ Revision < MaxNotes
  /\ x \in Ledgered
  /\ notes' = [notes EXCEPT ![x] = [at |-> Revision + 1, action |-> action]]
  /\ UNCHANGED <<received, indexed, ledger, bound, stored, data, user>>

-----------------------------------------------------------------------------
(* A dataset: preview, confirmation, reservation, publication.             *)

Goes(d, pc) == data' = [data EXCEPT ![d].pc = pc]

\* Every row the dataset could select, whatever the annotations say.
Base(d) == IF Merges(d) THEN UNION {data[p].rows : p \in Parents[d]}
                        ELSE UNION {Whole(s) : s \in Parents[d]}
\* The annotations on the runs of the selection's report.
NotesOn(d) == {<<x, notes[x].at>> :
                 x \in {y \in Decisions : /\ notes[y].at > 0
                                         /\ RunOf[y] \in RunsOf(Base(d))}}

\* select: a merge needs stored parents of its own purpose, a selection from
\* recordings needs their whole index and no Gold on what it is related to.
Select(d) ==
  LET rows == Base(d) \ Excluded IN
  /\ data[d].pc = "idle"
  /\ IF Merges(d) THEN /\ Parents[d] \subseteq stored
                       /\ \A p \in Parents[d] : Purpose[p] = Purpose[d]
                  ELSE /\ \A s \in Parents[d] : Complete(s)
                       /\ ~Reserved(RunsOf(rows))
  /\ rows # {}
  /\ data' = [data EXCEPT ![d].pc = "selected", ![d].rows = rows,
                          ![d].seen = NotesOn(d)]
  /\ UNCHANGED <<received, indexed, ledger, bound, stored, notes, user>>

\* publish: the annotations of the preview still hold, at this revision.
Confirm(d) ==
  /\ data[d].pc = "selected"
  /\ IF data[d].seen = NotesOn(d)
     THEN data' = [data EXCEPT ![d].pc = IF Gold(d) THEN "preparing"
                                                    ELSE "confirmed",
                               ![d].revision = Revision,
                               ![d].todo = {}]
     ELSE Goes(d, "failed")
  /\ UNCHANGED <<received, indexed, ledger, bound, stored, notes, user>>

\* _prepare_gold: every source is indexed, then every manifest that a crash
\* left without its artifact in the ledger is bound, or ends the attempt.
Prepare(d) ==
  /\ data[d].pc = "preparing"
  /\ \A s \in received : Complete(s)
  /\ data' = [data EXCEPT ![d].pc = "confirmed", ![d].todo = stored \ bound]
  /\ UNCHANGED <<received, indexed, ledger, bound, stored, notes, user>>

Rebind(d, o) ==
  /\ data[d].pc = "confirmed"
  /\ o \in data[d].todo
  /\ IF o \in bound \/ Gold(o) \/ ~Reserved(claim[o])
     THEN /\ bound' = bound \cup {o}
          /\ data' = [data EXCEPT ![d].todo = @ \ {o}]
     ELSE Goes(d, "failed") /\ UNCHANGED bound
  /\ UNCHANGED <<received, indexed, ledger, stored, notes, user>>

\* The checks of CurationLedger.claim, in one transaction with the insert:
\* nobody annotated since publish looked,
Bug_Unannotated(d) == TRUE

Unannotated(d) == data[d].revision = Revision

\* every verified upload is in the index before anything becomes Gold,
Bug_Inventoried == TRUE

Inventoried == \A s \in received : Complete(s)

\* the claims on related runs allow this one,
Bug_Compatible(d, o) == Gold(d) => Gold(o) /\ o \in bound \cap GoldParents(d)

Compatible(d, o) == IF Gold(d) THEN Gold(o) /\ o \in bound \cap GoldParents(d)
                               ELSE ~Gold(o)

\* and nothing related was trained on.
Claimable(d) ==
  LET runs == RunsOf(data[d].rows) IN
  /\ Unannotated(d)
  /\ claim[d] \in {{}, runs}
  /\ \A o \in Claimants(runs) \ {d} : Compatible(d, o)
  /\ Gold(d) => /\ Inventoried
                /\ GoldParents(d) \subseteq bound
                /\ \A r \in Group(runs) : ~Trained(r)

Claim(d) ==
  /\ data[d].pc = "confirmed" /\ data[d].todo = {}
  /\ IF Claimable(d)
     THEN /\ claim' = [claim EXCEPT ![d] = RunsOf(data[d].rows)]
          /\ Goes(d, "claimed")
     ELSE /\ Goes(d, "failed")
          /\ UNCHANGED claim
  /\ UNCHANGED <<received, indexed, bound, stored, uses, sourceUses, notes,
                 user>>

Store(d) ==
  /\ data[d].pc = "claimed"
  /\ stored' = stored \cup {d}
  /\ Goes(d, "stored")
  /\ UNCHANGED <<received, indexed, ledger, bound, notes, user>>

Bind(d) ==
  /\ data[d].pc = "stored"
  /\ bound' = bound \cup {d}
  /\ Goes(d, "bound")
  /\ UNCHANGED <<received, indexed, ledger, stored, notes, user>>

\* The worker dies or the job fails, and is retried under its identity: the
\* reservation stays, and the same preview is published again.
Retry(d) ==
  /\ data[d].pc \in {"preparing", "confirmed", "claimed", "stored", "failed"}
  /\ Goes(d, "selected")
  /\ UNCHANGED <<received, indexed, ledger, bound, stored, notes, user>>

-----------------------------------------------------------------------------
(* record_use of a training: a walk over the lineage of its input, then    *)
(* the uses of the runs, and of each source, one transaction after another.*)

Moves(u, row) == user' = [user EXCEPT ![u] = row]
Refused(u) == Moves(u, [user[u] EXCEPT !.pc = "refused"])

Look(u, x) ==
  /\ user[u].pc = "idle"
  /\ x \in received \cup stored
  /\ Moves(u, [NewUser EXCEPT !.pc = "walking", !.gold = HasGold,
                              !.input = {x}, !.todo = {x}])
  /\ UNCHANGED <<received, indexed, ledger, bound, stored, notes, data>>

\* A dataset with a claim stands for its runs, one without for its parents.
VisitDataset(u, d) ==
  /\ user[u].pc = "walking"
  /\ d \in user[u].todo \cap Datasets
  /\ \/ Purpose[d] # "training" /\ Refused(u)
     \/ /\ Purpose[d] = "training"
        /\ Moves(u, IF d \in bound
                    THEN [user[u] EXCEPT !.todo = @ \ {d},
                                         !.runs = @ \cup claim[d]]
                    ELSE [user[u] EXCEPT !.todo = (@ \ {d}) \cup Parents[d]])
  /\ UNCHANGED <<received, indexed, ledger, bound, stored, notes, data>>

\* A source without a complete index is tolerated while nothing is Gold.
VisitSource(u, s) ==
  /\ user[u].pc = "walking"
  /\ s \in user[u].todo \cap Sources
  /\ \/ ~Complete(s) /\ user[u].gold /\ Refused(u)
     \/ /\ Complete(s) \/ ~user[u].gold
        /\ Moves(u, [user[u] EXCEPT
             !.todo = @ \ {s}, !.sources = @ \cup {s},
             !.runs = @ \cup IF Complete(s) THEN RunsOf(Known(s)) ELSE {}])
  /\ UNCHANGED <<received, indexed, ledger, bound, stored, notes, data>>

Admit(u) ==
  /\ user[u].pc = "walking"
  /\ user[u].todo = {}
  /\ IF Reserved(user[u].runs) THEN Refused(u)
     ELSE Moves(u, [user[u] EXCEPT !.pc = "admitted"])
  /\ UNCHANGED <<received, indexed, ledger, bound, stored, notes, data>>

Use(u) ==
  /\ user[u].pc = "admitted"
  /\ IF Reserved(user[u].runs)
     THEN Refused(u) /\ UNCHANGED uses
     ELSE /\ uses' = uses \cup Group(user[u].runs)
          /\ Moves(u, [user[u] EXCEPT !.pc = "recording",
                                      !.todo = user[u].sources])
  /\ UNCHANGED <<received, indexed, claim, bound, stored, sourceUses, notes,
                 data>>

UseSource(u, s) ==
  /\ user[u].pc = "recording"
  /\ s \in user[u].todo
  /\ IF Reserved(RunsOf(Known(s))) \/ (HasGold /\ ~Complete(s))
     THEN Refused(u) /\ UNCHANGED sourceUses
     ELSE /\ sourceUses' = sourceUses \cup {s}
          /\ Moves(u, [user[u] EXCEPT !.todo = @ \ {s}])
  /\ UNCHANGED <<received, indexed, claim, bound, stored, uses, notes, data>>

\* The process dies, or a later attempt tries again.
Again(u) ==
  /\ user[u].pc \notin {"idle", "started"}
  /\ Moves(u, NewUser)
  /\ UNCHANGED <<received, indexed, ledger, bound, stored, notes, data>>

\* Only now does the scheduler submit, or the feature job start.
Start(u) ==
  /\ user[u].pc = "recording"
  /\ user[u].todo = {}
  /\ Moves(u, [user[u] EXCEPT !.pc = "started"])
  /\ UNCHANGED <<received, indexed, ledger, bound, stored, notes, data>>

-----------------------------------------------------------------------------
CurationNext ==
  \/ \E s \in Sources : Receive(s) \/ IndexBatch(s)
  \/ \E x \in Decisions, a \in {"flag", "exclude", "restore"} : Annotate(x, a)
  \/ \E d \in Datasets : \/ Select(d) \/ Confirm(d) \/ Claim(d) \/ Store(d)
                         \/ Bind(d) \/ Retry(d) \/ Prepare(d)
                         \/ \E o \in Datasets : Rebind(d, o)
  \/ \E u \in Users : \/ \E x \in Inputs : Look(u, x)
                      \/ Admit(u) \/ Use(u) \/ Start(u) \/ Again(u)
                      \/ \E d \in Datasets : VisitDataset(u, d)
                      \/ \E s \in Sources : VisitSource(u, s) \/ UseSource(u, s)

CurationSpec == CurationInit /\ [][CurationNext]_curationVars

-----------------------------------------------------------------------------
(* Properties.                                                             *)

\* The decisions a training really reads, indexed or not.
Reads(u) == (UNION {Whole(s) : s \in user[u].input \cap Sources})
       \cup (UNION {data[d].rows : d \in user[u].input \cap Datasets})

\* No decision of a started training is of a run reserved as Gold, or is the
\* duplicate of a decision in a Gold dataset, in whatever order indexing,
\* the claim and the transactions of record_use came (curation.py:163,
\* curation_access.py:75).
GoldNeverTrained ==
  \A u \in Users, d \in Datasets :
    (user[u].pc = "started" /\ Gold(d) /\ claim[d] # {}) =>
      /\ RunsOf(Reads(u)) \cap claim[d] = {}
      /\ \A x \in Reads(u), y \in data[d].rows : PrintOf[x] # PrintOf[y]

\* Datasets that reserve a common run are both outside Gold, or both Gold and
\* one merged from the other (curation.py:204): races, retries and crashes
\* between reservation and binding do not mix them.
GoldKeptApart ==
  \A c, d \in Datasets :
    (c # d /\ claim[c] \cap claim[d] # {}) =>
      /\ Gold(c) <=> Gold(d)
      /\ Gold(c) => c \in GoldParents(d) \/ d \in GoldParents(c)

\* What a dataset reserves was selected under the annotations in force at the
\* time of the reservation, however long ago its preview was (curation.py:180).
QualityCurrent ==
  [][\A d \in Datasets :
       (data[d].pc = "confirmed" /\ data'[d].pc = "claimed") =>
          data[d].rows = Base(d) \ Excluded]_data

-----------------------------------------------------------------------------
(* The inductive invariant behind the properties.                          *)

Artifacts == Sources \cup Datasets
Note == [at : Nat, action : {"none", "flag", "exclude", "restore"}]
Publication == [pc : {"idle", "selected", "preparing", "confirmed", "claimed",
                      "stored", "bound", "failed"},
                rows : SUBSET Decisions, seen : SUBSET (Decisions \X Nat),
                revision : Nat, todo : SUBSET Datasets]
Training == [pc : {"idle", "walking", "admitted", "recording", "started", "refused"},
             input : SUBSET Artifacts, gold : BOOLEAN, todo : SUBSET Artifacts,
             runs : SUBSET RunsOf(Decisions), sources : SUBSET Sources]

CurationTypes ==
  /\ received \subseteq Sources /\ sourceUses \subseteq received
  /\ indexed \in [Sources -> Nat]
  /\ claim \in [Datasets -> SUBSET RunsOf(Decisions)]
  /\ bound \subseteq stored /\ stored \subseteq Datasets
  /\ uses \subseteq RunsOf(Decisions)
  /\ notes \in [Decisions -> Note]
  /\ data \in [Datasets -> Publication]
  /\ user \in [Users -> Training]

\* A dataset that was selected keeps its rows, all of them in the ledger; it
\* reserves their runs before it is stored, and is stored before it is bound.
DataOK ==
  /\ \A s \in Sources : indexed[s] > 0 => s \in received
  /\ \A d \in Datasets :
       /\ data[d].todo \subseteq stored
       /\ claim[d] \in {{}, RunsOf(data[d].rows)}
       /\ data[d].pc = "idle" => claim[d] = {} /\ d \notin stored
       /\ d \in stored \/ data[d].pc \in {"claimed", "stored"}
            => claim[d] = RunsOf(data[d].rows)
       /\ data[d].pc = "stored" => d \in stored
       /\ data[d].pc # "idle" =>
            /\ data[d].rows \subseteq Base(d) \cap Ledgered
            /\ Parents[d] \subseteq received \cup stored

\* What x of its input a walk may still meet, or has met.
Covered(u, x) ==
  \/ \E d \in user[u].todo \cap Datasets : x \in data[d].rows
  \/ \E s \in (user[u].todo \cap Sources) \cup user[u].sources : x \in Whole(s)
  \/ x \in Ledgered /\ RunOf[x] \in user[u].runs

\* Where the use of x is recorded, or will be before the training starts.
Recorded(u, x) ==
  \/ x \in Ledgered /\ RunOf[x] \in uses
  \/ \E s \in sourceUses \cup user[u].todo : x \in Whole(s)

\* No Gold dataset has reserved x or holds a duplicate of it.
FreeOfGold(x) ==
  \A d \in Datasets : Gold(d) /\ claim[d] # {} =>
    RunOf[x] \notin claim[d] /\ \A y \in data[d].rows : PrintOf[x] # PrintOf[y]

UserSafe(u) ==
  /\ user[u].input \cup user[u].todo \cup user[u].sources
       \subseteq received \cup stored
  /\ user[u].pc \in {"walking", "admitted"} => \A x \in Reads(u) : Covered(u, x)
  /\ user[u].pc \in {"admitted", "started"} => user[u].todo = {}
  /\ user[u].pc \in {"recording", "started"} =>
       /\ user[u].todo \subseteq Sources
       /\ \A x \in Reads(u) :
            /\ Recorded(u, x)
            /\ FreeOfGold(x) \/ \E s \in user[u].todo : x \in Whole(s)

UserOK == \A u \in Users : UserSafe(u)

\* Annotations are numbered.  What a preview left out is what is left out now
\* while the annotations it saw are the last ones, and confirmation compares.
NotesOK ==
  /\ \E n \in 0..MaxNotes : Newest(n)
  /\ \A d \in Datasets :
       /\ data[d].revision <= Revision
       /\ \A e \in data[d].seen : e[2] <= Revision
       /\ data[d].pc # "idle" =>
            \A x \in Base(d) :
              notes[x].at = 0 \/ <<x, notes[x].at>> \in data[d].seen =>
                (x \in data[d].rows <=> x \notin Excluded)
       /\ data[d].pc \in {"preparing", "confirmed"} /\ data[d].revision = Revision =>
            data[d].rows = Base(d) \ Excluded

\* The parts together are preserved by every step.
CurationInv == CurationTypes /\ DataOK /\ UserOK /\ GoldKeptApart /\ NotesOK
=============================================================================
