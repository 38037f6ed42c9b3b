# Formal models of the longitudinal memory system

The repository stores conversations, mails, chats and calendar entries of a user as *sources*, extracts *claims* with
*evidence* from them, keeps what is believed about a claim over time, derives summaries, durative claims and a retrieval
index from that, and evaluates all of it with paid model calls. What users depend on is in PostgreSQL; the services in
`src/` are Python classes that run one database transaction per public method. What the evaluation depends on is in
files that programs write as they pay a provider or rent a machine. The models are about both: what the transactions
keep true of the tables, which of their interleavings are harmless, what a reader of derived memories may rely on, and
what an interrupted program has paid for, recorded and left running.

## 1. Inventory

### Components with state

| component | state | operations | interacts with |
|---|---|---|---|
| ingestion service `src/ingestion/service.py` | `source_events`, `source_tombstones`, `processing_attempts`, `claims`, `claim_versions`, `evidence_links`, `claim_extractions`, `processing_outbox` | ingest, enqueue_reprocessing, lease_next, recover_expired_leases, fail_attempt, complete_attempt, delete_source | extraction workers (leases), every table below (deletion cascades), consumers of the outbox |
| temporal lifecycle `src/temporal/service.py` | `claim_versions`, `lifecycle_transitions`, `processing_outbox` | transition, correct, query | ingestion creates candidates and retires claims; the resolver calls it |
| conflict relations `src/conflicts/relations.py` | `conflict_decisions`, their evidence, `claim_relations` | persist | candidate pairing and the classifier, which have no state |
| belief resolution `src/conflicts/resolution.py` | `belief_resolutions`, their actions and evidence | resolve | the resolver policy; lifecycle; `delete_source` rewinds and replays it |
| sessions and summaries `src/summaries/sessions.py`, `grounded.py`, `summary_repository.py` | `session_summaries` with statements and their evidence | process an outbox event; purge by trigger | claim versions (foreign keys), conflict relations, deletion |
| durative memory `src/summaries/durative*.py` | durative runs, decisions and episodes; claims of their own in the tables of ingestion | process an outbox event; purge | lifecycle moves derived claims, deletion takes their evidence |
| retrieval index `src/retrieval/` | `retrieval_index_runs`, records and links | build (load, persist, record_failure), plan, search; purge by trigger | claim versions, relations, summaries |
| answering `src/answering/repository.py`, `evidence_package.py`; abstention `src/abstention/policy.py` | none: they read | hydrate, package, decide | records that a search found; versions, evidence and relations as they are by then |
| paid runs `src/extraction/run_*.py`, `src/evaluation/frozen_*.py`, `b1_full_history.py` | predictions, failures and run record, three files each | run, stop at a budget, resume | a model provider that bills |
| remote model `src/evaluation/qwen_*.py` | a rented machine, a budget, a thread pool, one file per request, a receipt | create, set up, run batches, watch, trap signals, destroy | cloud provider, vLLM |

Without state of their own: candidate pairing, the relation classifier, the resolver policy, the query planner,
calibration, scoring, prompts and schemas, the checks of model answers, the demo bundle and API, the generator of load tests.
`PROJECT.json` lists every component with its status.

### What is hard here, and what correctness means

* **Leases on a clock that callers pass.** A worker takes an attempt for a time, may die, answer late, or answer
  twice, while pollers recover what has lapsed. Correct: a job has at most one open attempt, attempts are numbered
  without a gap, a settled job is never touched again, every lease ends, every due attempt is tried.
* **Two lock orders and two lock names.** `ingest` locks the idempotency key, `delete_source` and
  `enqueue_reprocessing` the source, `complete_attempt` first the attempt row and then the source, pollers only what
  nobody holds. Correct: what commits could have been done one method after the other, and nobody waits for ever.
* **Hard deletion through shared claims.** Deleting a source must take its evidence, its queue and its history away,
  retire exactly the claims nobody else supports, tell consumers once, and never let the source come back.
* **An outbox whose dedupe keys raise when they collide.** No stored row may make a later method fail for ever.
* **Bitemporal history.** Versions of a claim partition transaction time, statuses follow the matrix, corrections are
  pairs, and reads as of an instant do not change when something is recorded later.
* **Three readings of valid time.** Pairing, classifier and resolver each derive intervals from a claim in code of
  their own, and which claim is left or right depends on a hash. Correct: what one labels the next can carry out, both
  sides are treated alike, what is about somebody else is never believed, and a resolution that nobody has overtaken settles
  its question and leaves at most one side current.
* **Rewinds.** Deleting a source that a decision cites undoes the decision's lifecycle changes and replays the survivors.
* **Events that arrive late, twice and out of order.** Summaries and durative claims are rebuilt as of an event's own
  time. Correct: what is stored stays grounded, in sequence and immutable; the newest event leaves what a query says.
* **Builds that read in one transaction and store in another**, and searches that filter in one and rank in another.
  Correct: nothing that was withdrawn or deleted in between is shown.
* **Signals, watchdogs and a spot machine.** Three kinds of thread meet in one cleanup. Correct: a receipt is true, a run
  that reports completion was not disturbed but by a watchdog that fires after its stage has passed its check, and everything ends.
* **Paid, interruptible runs.** Correct: what was paid stays approved, nothing recorded is paid again, wherever the
  process is lost.

The list with source lines is under `hazards` in `PROJECT.json`.

## 2. The modules

| module | what it is |
|---|---|
| `Ingestion` | The seven methods of `IngestionService` for one user, each an atomic action on the eight tables. |
| `SourceLedger` | What ingestion promises: sources accepted once and deleted for good, jobs that end once and take effect at once, claims believed exactly while supported. |
| `IngestionLedger` | The refinement mapping from `Ingestion` to `SourceLedger`. |
| `ReadCommitted` | The same methods as sequences of SQL statements under PostgreSQL's READ COMMITTED rules, for one source. |
| `Lifecycle` | `TemporalService` for one user, with what completion and deletion do to its tables. |
| `Beliefs` | Conflict decisions, belief resolutions, and the deletion that rewinds and replays them, on `Lifecycle`. |
| `Conflicts` | How two claims are paired, labelled and resolved, from what they say: candidates, classifier and resolver policy. |
| `Sessions` | How visible sources fall into sessions: pure operators. |
| `Recomputation` | The outbox that rebuilds derived memories, read from the tables of `Beliefs`. |
| `Summaries` | Session summaries on top of it. |
| `Retrieval` | The retrieval index on top of `Summaries`. |
| `Answering` | What is read again, packaged and decided for a question, from the index of `Retrieval`: operators, no actions. |
| `Durative` | Durative claims on top of `Recomputation`. |
| `Execution` | The pool that runs a batch of requests on the rented machine, with records and retry ledger. |
| `Pipeline` | The program around it: machine, batches, gates, watchdogs, signal trap, cleanup. |
| `PaidRun` | Six programs that pay request by request and keep checkpoints. |
| `MC...` | Instances of these. |
| `IngestionProofs`, `LifecycleProofs`, `BeliefsProofs`, `ConflictsProofs`, `RetrievalProofs`, `DurativeProofs`, `PipelineProofs`, `PaidRunProofs` | Proofs (section 4); `RetrievalProofs` holds those of `Summaries` and `Answering` as well. |

`Lifecycle <- Beliefs <- Recomputation <- Summaries <- Retrieval <- Answering` and `Recomputation <- Durative` are compositions by
EXTENDS: a deletion of `Retrieval` is the deletion of `Beliefs` with what each layer's triggers and foreign keys add.
`Pipeline` composes `Execution` with the threads around it.

### Ingestion

One public method is one action, enabled exactly when the method commits a change: a method that raises is rolled
back, and one that answers from stored rows changes nothing, so both are stutters. Guards are the early returns, the
WHERE clauses, the CHECK and UNIQUE constraints that the statement can hit, and `StorageConflictError` for an outbox key
that is present (`CanEmit`). Inserts that the repository performs for related rows (the outbox row, the attempt, the
version) belong to the action. `attempts[job][number]` holds a record per row, `NoRow` where there is none. The
clocks are arguments as in the code, drawn anew for each call, so they may go backwards. `SKIP LOCKED` is a set of
rows that some other transaction holds, chosen freely. Recovery and leasing happen in one action as in
`lease_next`. Contents, spans and error codes are a few values: the model keeps whether a write agrees with the stored
claim (`_same_claim`), whose source a span is, and whether a code is in `NONRETRYABLE_FAILURE_CODES`.
Claim validation that looks at text (`_validate_write`) appears as the guard that a span belongs to the attempt's source.
What `delete_source` does to decisions, summaries and the rest is in the modules of those tables.

### ReadCommitted

Each transaction of `MCReadCommitted` runs once. A statement sees what was committed when it starts and what its
transaction wrote; one that needs a lock waits, and after the wait looks at the row it waited for again, but not
at rows inserted meanwhile; foreign keys take `FOR KEY SHARE` on the source; a cycle of waits makes one member raise.
These rules describe PostgreSQL and are not read off this repository; the order of the
statements, what they lock and what they test is. The committed tables are mapped to the variables of `Ingestion`
(`Atomic`), so `Serializable` says that every commit is a step of the atomic module.

### Lifecycle

`transition`, `correct` and `query` of `TemporalService`, with `Extract` (what a completed attempt does: new claims
get a candidate version) and `Forget` (what deletion does: unsupported claims vanish with their versions, with audit
rows that name them on either side, and with events that name them). A version is identified by its claim and the
idempotency key that opened it, as `stable_id` does; `":replacement"` is the function `ReplacementKey`, and callers
may use a derived key themselves. Belief confidence, reasons, and the instants of valid time are abstracted: a
transition asks only whether valid time is known (`Timed`) and has an end (`Ended`). `Answer(at)` is the query
without its status and valid-time filters, which only select from it.

### Beliefs

`Persist` stores a decision: two versions that were visible at a cutoff, the label, and all evidence of the two claims
ingested by then. `Resolve` carries a decision out: the policy plans a status for each claim (`Plans`), claims that
are terminal or there already stay (`Moves`), the others must still be in the version that was classified (`MayAct`), and
the temporal service moves them (`Enact`). `Transition` and `Correct` of `Lifecycle` are what other callers do.
`DeleteSource` follows the code in its order: the decisions that cite the source (`Direct`), the walk from the open
version of each of their claims down through versions that resolutions opened (`Walked`, `Undone`), the checks that raise
(`MayRewind`), what is deleted and reopened (`Rewound`), the claims that lose their last support (`Cleared`), and the
replay of the rest (`Redone`), which skips what has lost its input (`Eligible`) and raises when the snapshot differs
(`Drifts`). `Outcomes` is the set of tables that a deletion may leave: empty when it raises, and more than one when
resolutions share their `resolved_at`, since what orders them then is a hash.

A decision is a record of its content, which is what its id hashes; the snapshot of a resolution is the part of its hash
that can change, where the versions end that it read and did not move. The label of a pair is a constant (`Verdicts`),
several per pair where the classifier's answer depends on the target that a request names and on the evidence it
shows. Valid time is a choice: `Appropriate` has the statuses that some `valid_at` gives. Official records are sources
(`Official`); restricted, hypothetical and other people's claims are `Barred`. A claim of approximate time counts as one of
unknown time. A caller says when a decision was classified, before or after its cutoff; the same decision with another
`classified_at` raises (`Content`), and a resolution comes after both. All extraction happens at arrival, before the first decision. Rows that
come and go with a resolution (evidence, supersedes relation, event) are part of its record. Callers do not
choose keys beginning with `belief:`.

### Conflicts

What `Beliefs` takes as constants is computed here. A claim is a record of what the three programs read: subject, predicate,
speaker, object (a set of words or list parts), polarity, epistemic status, markers in the quote, sensitivity, kind of source,
and the precision and bounds of valid time. `Linked` is the rule of `generate_candidate_pairs`, `Verdict` that of
`classify_conflict` in the order of its rules, with the relation's direction, `Plan` that of `resolve_belief` on instants:
each has intervals of its own, as in the code. A state has a pair, the decisions made about it and how far each claim has
been moved; `Classify` and `Resolve` are the two calls, at any instant of valid time. Normalisation of text is the equality of
sets, hashes and configuration files are left out.

### Sessions, Recomputation, Summaries

`Sessions` follows `define_sessions` for calendar entries, mails by thread, and chats by thread or by gaps in time; a boundary
that raises makes every rebuild raise (`Unbounded`). `Outbox` is the set of events that a rebuild may be given: each source's
arrival and deletion, transitions, resolutions, and conflicts that a deletion queues again. `Process` is
`GroundedSummaryCoordinator.process` for one event in one transaction: sessions as of the event, the input of each, the version
that is kept, replaced or back-dated, and the retirement of sessions that are no more. A summary *is* its input; wording and
hashes follow from it. A deletion adds the purge of migration 0006 and the RESTRICT keys that make it raise.

### Retrieval

`Load` reads the tables as of an instant, `PersistIndex` stores what was read, or `RecordFailure` the failure; the model keeps
both apart so that anything may happen between. A record is its content, of which its id is the hash: a record that is there
under another run makes `persist` raise. The ids of what it says (versions, summaries) are hashes of content as well, which `Id` keeps: all
of a version but its end. Searches change nothing: `Newest` is the run that a plan binds to, `Filtered` what
its filter admits, and `Bound` whether a search in a later transaction may go on with it. Of a plan only the instant and the admitted statuses
are modelled, since the other filters drop records and ranking orders them. `Load` is one read, although the loader issues several
statements. `created_at` of a relation is the `classified_at` of its decision (relations.py:248), which the loader tests alone
(index_evaluation.py:472), while the search tests the decision's `transaction_as_of` as well (query_repository.py:143): `created` and `at`
of a relation. A record that was built with a relation whose cutoff is to come is left out of searches as a whole until then;
`IndexTellsTheTruth` says that these claims (`Premature`) are all that a fresh index leaves out.

### Answering

A question is answered in three reads that follow a search: `Hydrates` says whether the lineage of the records that were found
is still complete at the question's instant (hydration raises otherwise), `Hydrated` is the package, `Policy` the decision
with its status, reasons, accepted and rejected claims. `AnswerabilityDecision` checks itself and raises, so `Decisions` is
empty where it does (`Lawful`) or where a relation's other claim is missing (`Owned`). A question's part asks for a predicate,
a subject, a speaker and a time; it stands for each as the set of claims that match. The tests of a part follow each other in
`Sieve`, whose fields are the lists that the code narrows. Left out: the test of valid time in hydration, which repeats the filter
of the search; causal support, which needs a relation type that nothing stores; the reason that is added when
a part is unsupported without one, since each way to be unsupported adds a reason.

### Durative

`Process` is one run: episodes per proposition, the interval they justify, the decision (derive or not, and why), the identity of the
claim (the root hash, or another when the root is taken with a different interval), its next version when it gains evidence,
and the purge of what earlier runs derived and this one does not. Derived claims are claims of `Lifecycle`: callers move
them with `Transition`. Propositions, validity and doubt come from constants; a span is its source. Of the labels of unresolved
conflicts, a refinement does not count against a claim but is part of a run's input (`OpenLabels`, `Unsettled`). A deletion applies the
triggers of migration 0007 and raises when a conflict that stays names a claim that they delete. It removes runs with all their
decisions, so that a claim may stay that no stored run has decided, and no later run purges it (`Undecided`). The instance starts where callers have confirmed claims, in states that `Lifecycle` reaches, since the
interesting part begins there.

### Execution, Pipeline

A worker of `execute_jobs` asks the budget gate, calls, retries a transport failure once while the shared ledger has retries, and
writes one record; a later process skips requests with a record. `Pipeline` follows the main thread of `run_pipeline` through
creation, setup, the batches of each stage with mirror, check and gate, and the exit; the signal trap, which runs on top of it and may
interrupt a cleanup or the trap of another signal, for which only the reentrant lock is there; and the watchdogs, which call the same
cleanup, two for each stage: one over its batches, one over its last mirror. `frame[t]` is a
thread's step in `JarvisManager.cleanup`, `Landing` where a thread that leaves it goes on. A watchdog looks until
`BudgetWatchdog.__exit__` stops it, so that of the mirror may fire when the main thread's own check has passed. The join gives up
after 30 seconds, the next stage starts a budget of its own, and the cleanup may destroy the machine under its first requests: tolerated
calls may be lost in a pipeline that completes. `CompletedIsUndisturbed` says that this is the only way. Money and time are whether the budget
admits. Commands may fail, a destroy may take effect late, a spot machine may vanish: the machine is external and is modelled from
how the code uses it. With `wrapped` FALSE the same pool runs from the command line of `qwen_execution.py`, which may crash
and be started again.

### PaidRun

One module for six programs with one shape: decide the next group, write it as pending, send, write what came. A checkpoint is
three files replaced one after another, and `step` says which is next. The programs differ in the operators that read `program`: the size of a
group, what is counted against the limit, whether invalid answers are repeated, what a resume refuses. A process may be lost
between any two steps; a request without an answer may have been billed or not.

### Wrong versions

An operator under a comment that begins with "Mistake" is a plausible wrong version of the one after it: a dropped
test, an off-by-one, a column not reset. Nothing uses them. `PROJECT.json` pairs each with a property that fails
when it takes the other's place, which shows that the property depends on the code it is about.

## 3. What the runs check

`CHECK_DEADLOCK FALSE` stands in the runs whose work is finite (a caller has a bounded number of keys, decisions or
builds): there the system may stop. Ingestion, the pipeline and the paid runs are checked for deadlock.

| run | what it shows | states |
|---|---|---|
| `ingestion` | Attempts form one gapless chain per job; a deleted source is forgotten; claims, versions, evidence and outbox agree; no stored row makes a later method raise for ever; a settled job stays as it is; `SourceLedger` is implemented; no lease lasts and no due attempt starves. | 10 543 |
| `readcommitted` | Two scenes of concurrent transactions: each commit is a step of `Ingestion`; every transaction ends, in spite of the lock orders; and what stops a call although no test of the service refuses it is a deadlock with a completion, or a recovery that stores an attempt between two statements of a reprocessing request or a deletion. The second is real in this scene: the request sees attempt 1, waits for the recovery, computes number 2 and raises, while one after the other neither call would. | 38 076 |
| `resurrection` | Finding: a repeated delivery can store a source again that was deleted. | violated |
| `lifecycle` | Timelines partition transaction time, histories are legal, audit rows and versions match, as-of answers are supported, and do not change later. | 30 359 |
| `beliefs` | Timelines, audit and lineage survive rewinds and replays; nobody else's history is touched; the replay of survivors keeps their order and finds what it needs. | 72 564 (up to symmetry) |
| `conflicts` | Every verdict has a plan, ids and sides do not matter, claims about or by somebody else are never believed, a resolution that nobody has overtaken settles its question and leaves at most one side current. | 67 674 |
| `summaries` | What a summary says is supported and allowed at its instant; versions of a session are in sequence and immutable; a rebuild from the newest event says what a query says and tells no source twice. | 73 368 |
| `purge` | Finding: a summary can keep a source from being deleted. | violated |
| `retrieval` | Nothing indexed outlives what it says; a build of fresh inputs answers like the tables, but for claims with a relation whose cutoff is to come; a search in two transactions agrees with its filter; an answer from records that were found at any earlier time says what the temporal service says, and neither a replaced claim nor one side of a dispute alone answers. | 38 074 |
| `durative` | What is derived rests on what is stored; the newest run leaves what its episodes justify and, beside it, only claims that a deletion had left without a decision; no run leaves such a claim itself. | 40 331 |
| `pipeline` | Calls per request are bounded; a run that reports completion lost no call to a machine that was not there, unless the mirror's watchdog of an earlier stage fired after the check of that stage; a verified receipt is true; records are final; everything ends. | 418 908 |
| `paidrun` | Spending and repetitions stay approved and recorded answers are final, however often the process is lost. | 1.5 million |

### Bounds, and why they suffice

* `ingestion`: two sources and two claims, one that both sources support and one they disagree about; three requests, of which one
  reuses an id under the other's key; two workers; two attempts, so that a lease lapses and the last attempt
  ends as well; clocks 0 to 3, so that a lease can end before, at and after the clock of a call. One more source or attempt
  repeats the same cases, and the theorems of section 4 hold for any number.
* `readcommitted`: one source and up to six calls that run once. Two of each kind that can meet are enough for a
  wait cycle or a lost update on one row. Calls about different sources meet only in shared claims: see section 6.
* `lifecycle`: two claims, so that one can replace the other; two sources, one of which arrives later; two keys, one of
  which is what a correction under the other derives; clocks 0 to 3.
* `beliefs`: three claims and three decisions, since a decision stacked on two others is the smallest case in which a
  rewind undoes one that a survivor read; a smaller instance lets callers act in between. Symmetry
  permutes the ids of resolutions, which nothing compares.
  Decisions are classified at their cutoff; a later classification only delays what can be resolved at any time.
* `conflicts`: claims differ in what the rules read and in every order of bounds that they compare, with
  a gap of one tick; two decisions and two moves per claim show whether a second decision undoes the first. A decision may be
  resolved again for another instant of valid time, one of which lies inside an interval that the other misses.
* `summaries`: three sources that are two sessions before and one after one of them arrives; one dispute, classified at its cutoff,
  which is all that summaries look at; one caller; clocks 0 to 2, so that an event can be older than the newest version.
* `retrieval`: two claims and a restricted one, two runs, clocks 0 to 2; `MCBounded` lets one build fail at most, leaves out
  builds that no key is left to store, and follows three stories apart: a dispute with summaries (two builds of one summary, or
  one of two), a claim that is confirmed and then corrected, and an ambiguity that a caller settles. Their kinds of
  decision are what the records, relations and packages tell apart; disputes that no summary tells are classified before, at or after their cutoff; in each, deletions come at any time. The three questions reach every
  status of an answer and the reasons that depend on stored state.
* `durative`: two propositions, of which one has two claims, with two runs, clocks 0 to 2; one conflict, an ambiguity, which counts
  against a claim, or a refinement, which does not; either may be classified after its cutoff, and an ambiguity may be decided later. Derived claims that a deletion leaves without a decision occur, also with newer
  runs after them.
* `pipeline`: three batches in two stages, since the gate between stages matters; two workers, one retry to share; one
  signal at any point, which may interrupt a cleanup. With two signals, of which one interrupts the trap of the other, the
  properties hold as well (1 010 428 states, four minutes), and the theorems hold for any number; the run keeps to one for its time.
  `BudgetWatchdog.__exit__` and its join are not steps of their own: the watchdog may fire until the gate is passed and be at
  any step of its cleanup later. After `run_pipeline` has ended only the workers are followed.
* `paidrun`: three items of at most two units under a limit of seven; a group that exceeds what is left can be met
  before, at and after the limit; two resumes, so that a resumed run can be lost as well.

### Fairness

* `Ingestion!FairSpec`: some worker keeps calling `lease_next` with a clock that advances, and the rows it needs are not
  locked by others for ever. This is the loop around the service, not the service itself; nothing is assumed of the
  worker that holds a lease.
* `ReadCommitted`: weak fairness of the whole next-state relation: a database executes some statement that can be executed.
* `Pipeline`: weak fairness of the main thread, the cleanup and the workers, since commands and calls have timeouts. Nothing
  is assumed of signals, watchdogs' timing or the machine.

### Where code and documents disagree

Two disagreements have a run (`resurrection`, `purge`), described under `findings` in `PROJECT.json`. Others
came out of reading and modelling. The modules follow the code; no run is about them.

* A rebuild of the index raises when one record is unchanged, since record ids are unique over all runs
  (`stable_id_drift`, `incomplete_replay` or `idempotency_drift`, by what changed); docs/implementation-progress.md:904
  says that survivors of a deletion can be rebuilt.
* A relation classified before its cutoff is indexed for instants at which the search does not admit it (index_evaluation.py:472,
  query_repository.py:143), and the claims that it joins are not found until the cutoff.
* A build whose inputs were closed back-dated between its two transactions is stored anyway.
* Hydration for an answer asks that a relation's endpoints be the very versions of the record
  (answering/repository.py:326), while the index links every relation of a claim to whatever version is open; once a dispute
  with a relation is resolved, a package that retrieves it raises `lineage_incomplete`, although
  docs/implementation-progress.md:1147 describes how each status is presented.
* A question about the current state is refused as stale as soon as the package also holds a superseded version of what
  is asked (policy.py:162), although the claim that replaced it is there and current. `disputed` asks for two conflicting versions, not for two
  sides of one dispute (policy.py:186). With several parts, one may accept what another rejects; the decision then refuses itself.
* The classifier finds `hard_contradiction` between claims with different subjects; docs/memory-ontology.md:363 says "same
  subject". Its refinement rule ignores polarity; a superseded claim can dispute the one that replaced it; a temporal change
  makes the earlier claim historical even when `valid_at` lies in its period.
* One session that cannot be rendered, since a dispute has a side it may not show, blocks all summaries of the user, for that
  event and all later ones (implementation-progress.md:698: disputes are marked as unresolved).
* A deletion removes every run that rested on the source, also for claims that did not rest on it. Those stay without a decision, and
  `purge_unmatched`, which goes by decisions, never removes them (docs/architecture-design.md:139: deleting an event removes or
  recalculates every derived memory). `InferenceTellsTheTruth` counts them apart from what the episodes justify.
* A redelivered older event makes durative memory purge what a newer one derived (Implementation-handoff.md:149:
  reprocessing is idempotent).
* The checkpoint files of an interrupted run make its resume refuse when the process was lost between two of the
  three replacements (Implementation-handoff.md:329: interrupted work resumes).
* docs/qwen-implementation.md:215 says that the trap stops local workers. It raises in the main thread, and the executor
  (qwen_execution.py:242) then waits until every request that was submitted has run, against a machine that is gone. A
  `create` whose answer is lost leaves a machine that nothing records (QWEN_JARVIS_RUNBOOK.md:40: destroyed on every exit path).
* A decision that is resolved again for another `valid_at`, after a second decision has moved one of the claims, can leave both
  sides of a contradiction current: `_require_open_action_versions` (conflicts/resolution.py:305) looks only at the versions of
  claims that the plan moves, not at those whose status it took for granted. The invariant that a pair is never believed
  twice was therefore wrong; `PlansSettle` says what remains of it.
* An older event that is delivered again after a deletion can leave two open summaries that share a source. The deletion purges
  the summary of one of the sessions that the event once closed, so that its key is stored anew, while the other session's key is found and `persist`
  returns before it looks at what is open (summary_repository.py:177; Implementation-handoff.md:149: "Reprocessing is idempotent
  and does not create duplicate derived records"). It takes four sources in two chats that a late message joins: no instance of
  three shows it, the attempt to prove it did, and TLC then found it in six steps on an instance of four. The next rebuild from the
  newest event repairs it (`RebuildTellsTheTruth`).
* Survivors that share `resolved_at` are replayed in the order of a hash, so what a deletion leaves can depend on ids
  (implementation-progress.md:499: stable order). A caller's own transition on top of a resolution makes the deletion of its
  sources raise (`resolver_suffix_conflict`).
* An attempt whose worker always dies is recovered without limit. The deletion of the source of a replacement leaves the replaced claim
  superseded.

## 4. Proofs

Each theorem is about the specification without the bounds that some instances add (`MCSpec` and the like restrict `Next`), and holds
for every value of the constants that satisfies the modules' assumptions:

* `IngestionAssumption`, `LifecycleAssumption`, `BeliefsAssumption`, `ExecutionAssumption`, `PipelineAssumption`, `PaidRunAssumption`:
  bounds are numbers, finite things are finite, and what the code fixes (derived keys differ from their origin and from the keys of
  callers, a batch shares no request with another, `lease_expired` is retryable).
* `ConflictsAssumption`: the shape of claims; a precision is unknown exactly when both bounds are, and no interval ends before it begins, which the
  claims' contract and tables check.
* `DurativeAssumption`: the id of a derived claim is the bare hash of its proposition (`semantic_sha256`) or a hash under
  `durative_replacement_claim`, and extracted ids have a prefix (`claim_`), so that no two agree and none is the id of an extracted
  claim; there is one for each time that a proposition can get. The keys of versions that runs open are not those of resolutions either.
* `SessionsAssumption`: a user has finitely many sources, and the order of their ids is total.
* `RetrievalAssumption`: what is restricted is left out of summaries and resolutions as well, and the order of run ids is total.
  `AnsweringAssumption`: questions and what they match are made of the claims and evidence there are.

TLC evaluates them in the runs. Nothing else is assumed.

| theorem | argument |
|---|---|
| `IngestionProofs!TypeCorrect` | Types are inductive. Recovery changes many rows in one action; `RecoveredIsTyped` covers it. |
| `ChainAlways` | The chain is inductive with the types. What recovery expires is the last attempt of its job (`ExpiredIsNewest`), so it appends at the end (`RecoveryKeepsChain`). |
| `DeletionForgets` | Inductive with the types: a deletion clears every table of the source, and each insertion tests its tombstone or the presence of the source. |
| `SettledForGood` | A step property from the types and the chain: an action writes only the last attempt of a job or appends one, and neither when that attempt is settled. |
| `AgreementAlways` | `RowsAgree` is inductive once the types, the chain and `DeletedIsForgotten` hold: a completion adds evidence, claims and extraction rows at once, a deletion retires exactly the claims whose last evidence it takes. |
| `NothingEverInTheWay` | the guards that `NothingWedges` rests on, without ENABLED. Inductive is `LeasesLast` (a lease has an owner and ends after it begins); the rest follows from what is proved above: a running attempt is alone on its job, so no extraction row and no `claims_changed` key of the job is stored; a live source has no tombstone, so no key of its deletion is; a lapsed lease is on the newest attempt, so the successor number is free. |
| `IngestionProofs!LedgerImplemented` | Step by step under the mapping of `IngestionLedger`: ingest, enqueue, success, final failure and deletion are the ledger's actions; leases, polls and retries are invisible, since a job's outcome is that of its last attempt (`ChainShape`) and a claim's support is its evidence (`RowsAgree`). |
| `LifecycleProofs!TypeCorrect`, `TimelinesAlways` | Closing the open version where the next begins keeps the partition (`AdvanceKeepsPartitions`). |
| `HistoriesAlwaysLegal` | Legality speaks of adjacent versions; that the closed one is the newest needs `Timelines`. |
| `AnswersAlwaysSupported` | Not inductive alone: it needs that every stored claim has evidence of a live source (`EvidenceIsLive`) and `Timelines`, so that one version answers. |
| `AuditAlways` | Strengthened by `Named`: a key names one version of a claim, and only first versions are candidates. A correction writes two rows that name each other; a deletion takes both with either claim. |
| `PastAlwaysStays` | A step property: what `_advance` closes is cut at the clock of the call, so that no version changes where it covers an earlier instant (`AdvanceKeepsAnswers`). |
| `BeliefsProofs!BeliefsAlwaysSound`, `LineageAlwaysLive` | One invariant, `BInv`: the tables `Fits` (versions partition, follow the matrix and have their audit rows) and `Founded` (decisions have their evidence and versions, resolutions their decision and both ends of each act, versions under a resolution's key that resolution). Both are stated of *given* tables, since a deletion goes through a dozen intermediate ones: lemmas say that a move (`MoveFits`), the rewind (`RewindFits`, `RewindFounded`), the retirement of claims (`ClearFits`, `ClearFounded`), the reinstated decision and the replayed resolution (`EnactSound`, `RedoneSound`) keep them. |
| `CallersHistoryAlwaysStays` | The same lemmas carry along which versions are kept (`AllKept`): all that no undone resolution made and whose claim still has evidence. |
| `ReplayAlwaysKeepsOrder` | A step property from `BInv` with `ReadBefore`: a resolution reads versions that began before it. What a deletion leaves has the names and beginnings that it had (`DeletionReads`), so a survivor that lacks a version at its turn waits for one that was written at its own instant or earlier, and that only survivors of its own instant can still write (`LostIsTied`). |
| `ConflictsProofs!VerdictsAlwaysPlanned`, `SidesAlwaysAlike` | By cases on the rules of classifier and policy, on two claims that satisfy the assumption; the second exchanges the sides in each rule. |
| `OutsidersAlwaysOut`, `PlansAlwaysSettle` | Inductive with `DecisionsRemember`: a decision has the status of each version that is still the open one. For the second, the plan is computed again from the statuses that it led to. |
| `RetrievalProofs!SummariesAlwaysGrounded`, `SummariesAlwaysInSequence` | `SInv` adds to `BInv` that the outbox is dated (`OutboxIsDated`), and per summary what it is made of (`GoodSummary`) and what it stands on (`Rooted`). Resolutions and callers only close versions (`DecisionsLeaveRoots`); a deletion that goes through takes no version that a remaining summary cites: what a resolution opened is protected by its foreign key, any other goes only with the last evidence of its claim, and the summary has evidence of a member that stays (`DeletionsLeaveRoots`). A new summary is in sequence because what is open for its session is closed at its instant, and one that was closed later makes the event raise (`ProcessParts`). |
| `SummariesAlwaysImmutable` | A step property from `SInv`: what `Process` closes was open, and `Shut` changes nothing else. |
| `RebuildAlwaysTrue` | The sessions divide what is visible: every visible source is in exactly one (`SessionsDivide`, `SessionsCover`), for which each chat without a thread needs an opener: the first of them opens a session, and a finite set of openers has a latest (`OpenersExist`, `FirstExists`). So what the sessions tell is what is tellable (`ToldIsTellable`), a query answers the same (`AnsweredIsTellable`), and after the newest event what is open is what its sessions tell (`NewestIsOpen`). |
| `RetrievalAlwaysGrounded` | `RInv` adds to `SInv` how records are built (`Shaped`) and that what they cite is stored now (`AnchoredIn`). A replay adds decisions and resolutions and takes none away that was not undone (`ReplayAdds`), and a deletion that goes through leaves what remaining records cite: the triggers take every record that cites what goes (`DeletionLeavesTheRest`, `EraseLeavesAnchors`). |
| `FiltersAlwaysAgeWell` | A step property from `RInv`: a search that is not refused has the records that the filter had, and what was eligible still rests on what it names (`Bound`); nothing else becomes eligible, since a source stays forgotten (`ForgottenForGood`) and the instant of a relation is part of its id (`BoundIsTheSame`). |
| `IndexAlwaysTrue` | A step property from `RInv`: what is stored is what was read, each kind of record is found again by the filter exactly if it has no premature relation (`AtomicIsFound`; the id of a relation gives its instants), and together they state each answer of `Lifecycle` with its support (`StatedIsAnswered`, `StoredTellsTheTruth`). |
| `AnswersAlwaysTrue` | Follows from `RInv`: a record that hydration accepts says what is answered at the instant (`HydratedIsAnswered`); at most one version of a claim is recorded then (`OneIsRecorded`), so a package has one status per claim (`PackagesAreTruthful`); a full answer that has a dispute accepts at least two claims, all of them in conflict (`DisputesHaveSides`). |
| `DurativeProofs!DerivedAlwaysGrounded` | `BInv` does not hold here: runs open versions without audit rows, and a deletion takes derived claims along. What a claim needs of its timeline is only that nobody ends it without opening the next version: `Plain` (below what a resolution wrote, a version of the claim ends where it begins) is kept by every move (`MovePlain`), by the rewind, for which it provides the version that becomes open again (`RewindPlain`), and by the replay (`ReplayPlain`). On top of it, `Good` says of *given* tables that evidence belongs to open claims, that an id names one proposition and time (`IdsAreFound`: a root id that is taken with another time gives way to the replacement id), and that claims and decisions rest on stored evidence. It holds of what a run writes before its purge (`InferredIsGood`), and a purge takes whole claims with their runs (`PurgeIsGood`). A deletion purges each claim that a decision based on the source; extracted claims are not among them, and a claim that stays has a source that stays (`DeletionIsGood`). |
| `InferenceAlwaysTrue` | A step property from the same invariant: only a new run adds a run (`RunsStep`); the purge compares with exactly the claims that it accepts (`RunDerives`), two accepted propositions never share one (`OneDerivation`), and `_ensure_claim` goes on only from open candidates, so that each has one (`OpenCandidate`). What is derived besides are the claims that no stored run has decided (`Undecided`): a new row is decided by the run that writes it (`NewClaimsNamed`), and a run purges claims with every run that decided them, so that it leaves none undecided (`RunsLeaveNothingUndecided`). |
| `PipelineProofs!ReceiptsAreTrue`, `CompletionIsHonest` | Conjuncts and consequences of `PipelineInv`: a worker's frame is owned by a running pool (`PoolIsOwned`), the lock by the thread in the cleanup (`FramesAreOwned`), the receipt is true, earlier batches are sealed (`BatchesInOrder`). `DisturbanceStops` follows a disturbance to an exception or an overrun that the stage's check finds; what is left are watchdogs of a mirror that fired late (`OnlyLateFired`), and a call can only be lost to one of a stage that is over (`AnEarlierFired`). A main thread that leaves a batch by a second exception leaves workers behind (`Left`), and never completes. |
| `CallsStayBounded` | `CallsAreCounted`, inductive with `PipelineInv`: until the process is lost, a request is submitted once and the ledger has an entry for each request that is tried again; a lost process of the pipeline makes no more calls. |
| `RecordsAreFinal` | From `PipelineInv`: a request with a record has no worker, since a worker starts only without one and batches share no request. |
| `PaidRunProofs!SuccessIsAlwaysFinal` | The run file changes only in a checkpoint and at the start of a resume. `Shapes`: what is held is what was stored plus the group that is being written; groups contain only items without an answer (`GroupShape`); so a checkpoint only adds (`CheckpointGrows`). The least open item exists because the subset order on finite sets is well founded (`MinIsIn`). |
| `ApprovalIsAlwaysKept` | `MoneyInv` adds to the former that the stored record counts every request that was sent (`RequestsCounted`), and that what it books covers what was taken and what answers in flight may still cost, under the cap (`AtomicPays` for run_atomic, `FrozenPays` for the frozen run). A group is announced only if all of it fits (`AnnouncedIsApproved`), its answer replaces the maximum by the cost (`AnswerSettles`), and a lost process leaves the maximum booked (`CarriedOwes`). |

Three arguments replace an induction over data. A sum is the number of its units, the size of a finite set (`Total`), so that the library's
facts on cardinality say what adding to it or replacing a part of it does (`TotalAdds`, `TotalGrows`, `TotalLess`). The replay of survivors is a recursive function: that it has a value at all and that each of its
tables is sound follow from a least counterexample (`ChainsExist`, `ReplaySound`, from `LeastNumber`). Where the order of sources or
items matters, the least element comes from the finiteness of the set.

Two invariants did not survive the attempt to prove them, and were replaced by what the code does guarantee: that a pair is never believed
twice, and that open summaries never share a source (section 3, "Where code and documents disagree").

Only model-checked:

* Liveness (`QueueMoves`, `EveryTransactionEnds`, `PipelineEnds`) and `NothingWedges`, which is about ENABLED: out of the prover's reach. For `NothingWedges`, `NothingEverInTheWay` proves that the guards of the three transactions hold; that a step with these guards exists is left to TLC.
* `ErrorsHaveTwoCauses` and `Serializable` of `ReadCommitted`: the scenes are lists of calls that the instance names, and what holds of each interleaving
  has no short invariant.

## 5. Plan

Completions and deletions for two sources that share claims, statement by statement (`ReadCommitted` has one source); an
invariant for `ReadCommitted` that does not depend on its scenes.

## 6. Not modelled

* Model calls, prompts, output schemas and the validation of text: data without control. What they decide is a choice here
  (a classifier's answer, a claim write, whether an answer is valid).
* Calibration of the abstention scores, and the checks of a model's candidate answer against its package: arithmetic and text.
* Ranking and vector search: floating point, and the order of results that the filter admits anyway.
* Programs that score or evaluate by reading frozen files and writing a report: one pass without shared state.
* The demo bundle, API and web page: read-only. Migrations are modelled as the tables they leave, not as a process.
* Failures of PostgreSQL other than the abort of a transaction; isolation levels other than the one in use.
* Deletion and completion of *different* sources that share a claim at statement level; `Ingestion` has them atomically.
* Several users: every table and every lock is per user, so the models have one.
