----------------------------- MODULE Retrieval -----------------------------
(***************************************************************************)
(* The retrieval index of one user and one index version, on top of        *)
(* Summaries: how its records are built (src/retrieval/indexing.py, with   *)
(* the loader of src/retrieval/index_evaluation.py), stored                *)
(* (RetrievalIndexRepository, src/retrieval/repository.py), purged by the  *)
(* triggers of migration 0008 and searched (query_repository.py and        *)
(* search_repository.py).                                                  *)
(*                                                                         *)
(* A build reads its inputs and stores them in another transaction.  The   *)
(* id of a row is a hash of what it says: a record, a resolution and the   *)
(* input of a summary stand for their ids, as does a run's key.  Of a      *)
(* query plan only the instant and the statuses it allows are modelled:    *)
(* the other filters drop records, ranking orders them.                    *)
(*                                                                         *)
(* An operator whose comment begins with "Mistake" is a wrong version of   *)
(* the next operator; nothing uses it.                                     *)
(***************************************************************************)
EXTENDS Summaries

CONSTANTS
  Restricted,   \* claims whose sensitivity is restricted
  RunKeys,      \* idempotency keys of builds
  RunOrder      \* [RunKeys -> Nat]: the order of run ids

ASSUME RetrievalAssumption ==
  /\ Restricted \subseteq Omitted \cap Barred
  /\ RunOrder \in [RunKeys -> Nat]
  /\ \A k, l \in RunKeys : RunOrder[k] = RunOrder[l] => k = l

VARIABLES
  loaded,    \* what a build has read and not stored yet: at most one [at, records]
  runs,      \* retrieval_index_runs: [key, at, succeeded, records]
  records    \* retrieval_index_records with their links: [run, record]

indexVars == <<loaded, runs, records>>
retrievalVars == <<summaryVars, indexVars>>

RetrievalInit == SummariesInit /\ loaded = {} /\ runs = {} /\ records = {}

-----------------------------------------------------------------------------
\* The first instant at which neither of the two of a decision is to come.
Since(d) == IF d.classifiedAt < d.asOf THEN d.asOf ELSE d.classifiedAt

\* claim_relations: the relation of a decision, which is created when the caller says
\* it was classified, and the supersedes relation of a resolution, which comes after
\* both instants of its decision.
Checked(ds) ==
  {[id |-> <<"checked", d>>, pair |-> Pair(d), created |-> d.classifiedAt, at |-> Since(d)] :
     d \in {e \in ds : e.verdict.label \notin {"unrelated", "ambiguity"}}}
Superseding(rs) ==
  {[id |-> <<"supersedes", r>>, pair |-> Pair(r.decision), created |-> r.at, at |-> r.at] :
     r \in {q \in rs : q.decision.verdict.label \in {"correction", "refinement"}}}
Relations == Checked(decisions) \cup Superseding(resolutions)

\* The id of a version, which all but the end of its row is hashed into.
Id(v) == <<v.claim, v.key, v.status, v.from>>

Says(v, s) == [claim |-> v.claim, key |-> v.key, status |-> v.status, from |-> v.from, source |-> s]

\* Mistake: relations that are recorded after the cutoff are told.
AtomicOfAll(v, at) ==
  [of |-> <<"atomic", Id(v)>>, from |-> v.from, to |-> v.to,
   says |-> {Says(v, s) : s \in Support(v.claim, at)},
   relations |-> {q.id : q \in {x \in Relations : v.claim \in x.pair}}]
\* A record of one version, with its evidence as of the cutoff and the relations
\* created by then.
Atomic(v, at) ==
  [of |-> <<"atomic", Id(v)>>, from |-> v.from, to |-> v.to,
   says |-> {Says(v, s) : s \in Support(v.claim, at)},
   relations |-> {q.id : q \in {x \in Relations : v.claim \in x.pair /\ x.created <= at}}]

\* A record of one summary.
OfSession(x) ==
  [of |-> <<"session", x.session, x.input>>, from |-> x.input.at, to |-> x.to,
   says |-> {Says(y[1], y[2]) : y \in x.input.told}, relations |-> {}]

\* What is told of the versions and of the summaries that are recorded at the cutoff.
AtomicInputs(at) ==
  {Atomic(v, at) : v \in {u \in versions :
     /\ Recorded(u, at) /\ Support(u.claim, at) # {}
     /\ u.status # "excluded" /\ u.claim \notin Restricted}}
SessionInputs(at) ==
  {OfSession(x) : x \in {y \in summaries : y.input.at <= at /\ at < y.to}}
Inputs(at) == AtomicInputs(at) \cup SessionInputs(at)

Load(at) ==
  /\ loaded = {}
  /\ loaded' = {[at |-> at, records |-> Inputs(at)]}
  /\ UNCHANGED <<summaryVars, runs, records>>

-----------------------------------------------------------------------------
Unstarted(k) == \A r \in runs : r.key # k

\* The foreign keys of a record and its links.
Anchored(x) ==
  /\ \A y \in x.says :
       /\ \E v \in versions : Id(v) = Id(y)
       /\ <<y.claim, y.source>> \in evidence
  /\ x.relations \subseteq {q.id : q \in Relations}
  /\ x.of[1] = "session" => \E s \in summaries : x.of = OfSession(s).of

\* persist: the run and its records, unless a record is stored already or rests on
\* what is gone.  A key that has a run is replayed or refused, which stores nothing.
PersistIndex(k) ==
  /\ Unstarted(k)
  /\ \E b \in loaded :
       /\ \A x \in b.records : Anchored(x) /\ \A y \in records : y.record # x
       /\ runs' = runs \cup
            {[key |-> k, at |-> b.at, succeeded |-> TRUE, records |-> b.records]}
       /\ records' = records \cup {[run |-> k, record |-> x] : x \in b.records}
  /\ loaded' = {}
  /\ UNCHANGED summaryVars

\* The build raises, or its process is lost.
Abandon == loaded # {} /\ loaded' = {} /\ UNCHANGED <<summaryVars, runs, records>>

\* record_failure.
RecordFailure(k, at) ==
  /\ Unstarted(k)
  /\ runs' = runs \cup {[key |-> k, at |-> at, succeeded |-> FALSE, records |-> {}]}
  /\ UNCHANGED <<summaryVars, loaded, records>>

-----------------------------------------------------------------------------
\* What a deletion takes away, although a replay may bring it back.
RelationsCut(s) ==
  Checked(Dropped(s, Undone(s))) \cup Superseding(Undone(s))
VersionsCut(s) == Unmade(Undone(s)) \cup {v \in versions : v.claim \in Retired(s)}

\* Mistake: only the records that name the source.
CutWithSource(x, s) == \E y \in x.says : y.source = s
\* The triggers of migration 0008 and the cascades from versions and summaries.
\* A session record has no key of its own to the versions that it cites.
Cut(x, s) ==
  \/ \E y \in x.says : y.source = s
  \/ x.of \in {<<"atomic", Id(v)>> : v \in VersionsCut(s)}
  \/ x.relations \cap {q.id : q \in RelationsCut(s)} # {}
  \/ \E z \in Purged(s) : x.of = OfSession(z).of

EraseIndexed(s, t) ==
  /\ Erase(s, t)
  /\ records' = {x \in records : ~Cut(x.record, s)}
  /\ UNCHANGED <<loaded, runs>>

RetrievalNext ==
  \/ Decide /\ UNCHANGED <<summaries, deletedAt, indexVars>>
  \/ \E e \in Outbox : Process(e) /\ UNCHANGED indexVars
  \/ \E s \in Sources : \E t \in IngestedAt[s] .. MaxTime : EraseIndexed(s, t)
  \/ \E at \in Times : Load(at)
  \/ \E k \in RunKeys : PersistIndex(k)
  \/ Abandon
  \/ \E k \in RunKeys, at \in Times : RecordFailure(k, at)

RetrievalSpec == RetrievalInit /\ [][RetrievalNext]_retrievalVars

-----------------------------------------------------------------------------
\* Searching.  A query asks as of an instant for what is current or for anything.

CurrentStatuses == {"candidate", "confirmed", "current", "disputed"}
Queries == [at: Times, statuses: {CurrentStatuses, Statuses \ {"excluded"}}]

\* SNAPSHOT_SQL.
Searchable(at) == {r \in runs : r.succeeded /\ r.at <= at}
Newest(at) ==
  {r \in Searchable(at) : \A q \in Searchable(at) :
     q.at < r.at \/ (q.at = r.at /\ RunOrder[q.key] <= RunOrder[r.key])}

\* The records of a run that are left.
Of(k) == {x.record : x \in {y \in records : y.run = k}}

\* What a record rests on is stored and was there at the instant of the query.
Rests(x, at) ==
  /\ x.says # {} /\ {y.source : y \in x.says} \subseteq Visible(at)
  /\ x.relations \subseteq {q.id : q \in {z \in Relations : z.at <= at}}

\* RECORDS_SQL and _decision.
Retrievable(x, q) ==
  /\ x.from <= q.at /\ q.at < x.to
  /\ Rests(x, q.at)
  /\ {y.status : y \in x.says} \cap q.statuses # {}

\* RetrievalQueryRepository.filter.
Filtered(q) ==
  {[query |-> q, run |-> r, rows |-> Of(r.key),
    eligible |-> {x \in Of(r.key) : Retrievable(x, q)}] :
     r \in Newest(q.at)}

\* Mistake: the records of the run are not compared.
BoundToRun(f) ==
  \E r \in Searchable(f.query.at) : r = f.run
\* _bind_snapshot: whether a search may go on with what an earlier filter found.
Bound(f) ==
  /\ \E r \in Searchable(f.query.at) : r = f.run
  /\ Of(f.run.key) = f.rows
  /\ \A x \in f.eligible : Rests(x, f.query.at)

-----------------------------------------------------------------------------
RetrievalTypeOK ==
  /\ Cardinality(loaded) <= 1
  /\ \A r \in runs :
       /\ r.key \in RunKeys /\ r.at \in Times /\ r.succeeded \in BOOLEAN
       /\ ~r.succeeded => r.records = {}
  /\ \A x \in records : \E r \in runs : r.key = x.run /\ x.record \in r.records

\* No record outlives what it was made of, closed versions and summaries included:
\* it says what a stored version says, on evidence that is stored, and names stored
\* relations of its claims; it was recorded at the cutoff of its one run.
RetrievalIsGrounded ==
  /\ RetrievalTypeOK
  /\ \A r, q \in runs : r.key = q.key => r = q
  /\ \A x, y \in records : x.record = y.record => x = y
  /\ \A x \in records :
       /\ \E r \in runs : r.key = x.run /\ x.record.from <= r.at /\ r.at < x.record.to
       /\ Anchored(x.record)
       /\ \A y \in x.record.says :
            /\ y.source \notin forgotten
            /\ y.claim \notin Restricted /\ y.status # "excluded"
       /\ \A q \in Relations : q.id \in x.record.relations =>
            \E y \in x.record.says : y.claim \in q.pair

\* The statements of records, with their support.
Stated(xs) == UNION {{<<y.claim, y.status, y.source>> : y \in x.says} : x \in xs}
\* What the temporal service would answer of the claims that are indexed.
Answers(at) ==
  UNION {{p.claim} \X {p.status} \X p.support :
           p \in {q \in Answer(at) : q.status # "excluded" /\ q.claim \notin Restricted}}
OfKind(xs, kind) == {x \in xs : x.of[1] = kind}

\* The claims whose records a search leaves out although the build told them: with a
\* relation that was classified before the cutoff of its decision, which is to come.
Premature(at) == UNION {q.pair : q \in {x \in Relations : x.created <= at /\ at < x.at}}

\* If nothing has changed since a build read its inputs, a search as of its cutoff
\* for anything finds in its records what the temporal service answers of all claims
\* but the premature ones, and the summaries of that instant.
IndexTellsTheTruth ==
  [][\A k \in RunKeys, b \in loaded :
       PersistIndex(k) /\ b.records = Inputs(b.at) =>
         LET q == [at |-> b.at, statuses |-> Statuses \ {"excluded"}]
             found == {x \in Of(k)' : Retrievable(x, q)'}
         IN  /\ Stated(OfKind(found, "atomic")) =
                  {a \in Answers(b.at) : a[1] \notin Premature(b.at)}
             /\ OfKind(found, "session") =
                  {OfSession(x) : x \in {y \in summaries : y.input.at <= b.at /\ b.at < y.to}}
    ]_retrievalVars

\* A search that goes on with what an earlier transaction found eligible, and is not
\* refused, returns what it would find itself, whatever happened in between.
FiltersAgeWell ==
  [][\A q \in Queries : \A f \in Filtered(q) :
       Bound(f)' => f.eligible = {x \in Of(f.run.key)' : Retrievable(x, q)'}]_retrievalVars

=============================================================================
