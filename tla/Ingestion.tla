----------------------------- MODULE Ingestion -----------------------------
(***************************************************************************)
(* IngestionService (src/ingestion/service.py) for one user: the durable   *)
(* queue of processing attempts, the claims that completed attempts write, *)
(* and hard deletion of a source.  Every public method runs inside one     *)
(* database transaction and is one action here; a method that raises is    *)
(* rolled back and changes nothing, so an action is enabled exactly when   *)
(* its method commits a change.  Module ReadCommitted takes the            *)
(* transactions apart into their statements.                               *)
(*                                                                         *)
(* Belief decisions and resolutions are left to module Beliefs: here       *)
(* no stored decision cites the deleted source, so delete_source runs      *)
(* without its rewind.                                                     *)
(*                                                                         *)
(* An operator whose comment begins with "Mistake" is a wrong version of   *)
(* the operator after it.  Nothing uses it: it is there to see that the    *)
(* properties fail when it takes that operator's place.                    *)
(***************************************************************************)
EXTENDS Integers

CONSTANTS
  Requests,          \* the sources callers submit: [id, key, body, at]
  SourceIds, Keys, Bodies,
  Extractors,        \* the registered extraction versions
  Workers,           \* lease owners
  NoOwner,           \* NULL in the column lease_owner
  ClaimIds, Contents,
  NoContent,         \* there is no claim row with this id
  Spans,             \* source spans; an id determines the span's source
  SpanSource,        \* [Spans -> SourceIds]
  ClaimWrites,       \* what an extraction may write: [claim, content, span]
  ErrorCodes,
  NonretryableCodes, \* NONRETRYABLE_FAILURE_CODES
  LeaseExpired,      \* the code 'lease_expired' that recovery records
  NoError,           \* NULL in the column sanitized_error_code
  MaxAttempts,       \* bound: attempts per (source, extractor)
  MaxTime            \* bound: the clocks that callers pass

Times == 0 .. MaxTime
Numbers == 1 .. MaxAttempts
Jobs == SourceIds \X Extractors

ASSUME IngestionAssumption ==
  /\ MaxAttempts \in Nat \ {0}
  /\ MaxTime \in Nat \ {0}
  /\ Requests \subseteq [id: SourceIds, key: Keys, body: Bodies, at: Times]
  /\ SpanSource \in [Spans -> SourceIds]
  /\ ClaimWrites \subseteq [claim: ClaimIds, content: Contents, span: Spans]
  /\ NonretryableCodes \subseteq ErrorCodes
  /\ LeaseExpired \in ErrorCodes \ NonretryableCodes
  /\ NoOwner \notin Workers
  /\ NoContent \notin Contents
  /\ NoError \notin ErrorCodes

VARIABLES
  events,       \* source_events: the requests that are stored
  tombstones,   \* source_tombstones: [id, key]
  attempts,     \* processing_attempts: attempts[job][number]
  claims,       \* claims with their candidate version: content by id
  evidence,     \* evidence_links with their source_spans: <<claim, span>>
  extractions,  \* claim_extractions: <<claim, job, attempt number>>
  outbox        \* processing_outbox: the dedupe keys present

vars == <<events, tombstones, attempts, claims, evidence, extractions, outbox>>

\* Columns that are NULL in a row hold a fixed value (expires: 0).
Row == [state: {"none", "pending", "running", "succeeded", "failed"},
        started: Times, owner: Workers \cup {NoOwner}, expires: Times,
        retryable: BOOLEAN, error: ErrorCodes \cup {NoError}]

NoRow == [state |-> "none", started |-> 0, owner |-> NoOwner, expires |-> 0,
          retryable |-> FALSE, error |-> NoError]

PendingAttempt(t) == [NoRow EXCEPT !.state = "pending", !.started = t,
                                   !.retryable = TRUE]

Leased(row, w, until) ==
  [row EXCEPT !.state = "running", !.owner = w, !.expires = until]

\* How a row leaves 'running': the lease is cleared.
Failed(row, code, retryable) ==
  [row EXCEPT !.state = "failed", !.owner = NoOwner, !.expires = 0,
              !.retryable = retryable, !.error = code]
Succeeded(row) ==
  [row EXCEPT !.state = "succeeded", !.owner = NoOwner, !.expires = 0,
              !.retryable = FALSE]

\* An outbox row is identified by its dedupe key: the event type, the source
\* that caused it and, for two of the types, the extractor or the claim.
SourceIngested(s) == [type |-> "source_ingested", source |-> s]
SourceDeleted(s) == [type |-> "source_deleted", source |-> s]
ClaimsChanged(j) == [type |-> "claims_changed", source |-> j[1], extractor |-> j[2]]
ClaimRecompute(c, s) ==
  [type |-> "claim_recompute_required", source |-> s, claim |-> c]

OutboxKeys == {SourceIngested(s) : s \in SourceIds}
         \cup {SourceDeleted(s) : s \in SourceIds}
         \cup {ClaimsChanged(j) : j \in Jobs}
         \cup {ClaimRecompute(c, s) : c \in ClaimIds, s \in SourceIds}

\* An INSERT of a dedupe key that is present raises StorageConflictError: the
\* row holds another payload or another created_at.
CanEmit(keys) == keys \cap outbox = {}

Live(s) == \E e \in events : e.id = s
\* Mistake: the idempotency key of a deleted source may be reused.
TombstonedById(id, key) == \E b \in tombstones : b.id = id
Tombstoned(id, key) == \E b \in tombstones : b.id = id \/ b.key = key
Exists(j, n) == attempts[j][n].state # "none"
Running(j, n) == attempts[j][n].state = "running"

Init ==
  /\ events = {}
  /\ tombstones = {}
  /\ attempts = [j \in Jobs |-> [n \in Numbers |-> NoRow]]
  /\ claims = [c \in ClaimIds |-> NoContent]
  /\ evidence = {}
  /\ extractions = {}
  /\ outbox = {}

-----------------------------------------------------------------------------
\* ingest.  A request that is stored already is answered without a change; one
\* that shares only its id or only its key with a stored one is refused.
Ingest(r, x) ==
  /\ ~Tombstoned(r.id, r.key)
  /\ \A e \in events : e.id # r.id /\ e.key # r.key
  /\ ~Exists(<<r.id, x>>, 1)
  /\ CanEmit({SourceIngested(r.id)})
  /\ events' = events \cup {r}
  /\ attempts' = [attempts EXCEPT ![<<r.id, x>>][1] = PendingAttempt(r.at)]
  /\ outbox' = outbox \cup {SourceIngested(r.id)}
  /\ UNCHANGED <<tombstones, claims, evidence, extractions>>

\* enqueue_reprocessing.  It looks at the newest attempt only.
\* Mistake: any failed attempt is retried, not the newest one.
AnyAttempt(j, n) == Exists(j, n)
Newest(j, n) == Exists(j, n) /\ \A m \in Numbers : Exists(j, m) => m <= n

\* Mistake: the state is not looked at.
RetriesOpen(row) == row.retryable
\* Mistake: the retryable flag is not looked at.
RetriesEveryFailure(row) == row.state = "failed"
MayRetry(row) == row.state = "failed" /\ row.retryable

EnqueueReprocessing(j, t) ==
  /\ Live(j[1])
  /\ \E n \in Numbers :
       /\ \/ n = 1 /\ \A m \in Numbers : ~Exists(j, m)
          \/ n > 1 /\ Newest(j, n - 1) /\ MayRetry(attempts[j][n - 1])
       /\ attempts' = [attempts EXCEPT ![j][n] = PendingAttempt(t)]
  /\ UNCHANGED <<events, tombstones, claims, evidence, extractions, outbox>>

-----------------------------------------------------------------------------
\* Rows another transaction may hold locked, which SKIP LOCKED passes over.
OpenRows ==
  {r \in Jobs \X Numbers : attempts[r[1]][r[2]].state \in {"pending", "running"}}

\* Mistake: a lease that ends now is not expired yet.
ExpiredBefore(t, locked) ==
  {r \in (Jobs \X Numbers) \ locked :
     Running(r[1], r[2]) /\ attempts[r[1]][r[2]].expires < t /\ r[2] < MaxAttempts}
\* The expired leases that recovery takes.  (Bound: the last attempt number
\* has no successor, its lease is left alone.)
Expired(t, locked) ==
  {r \in (Jobs \X Numbers) \ locked :
     Running(r[1], r[2]) /\ attempts[r[1]][r[2]].expires <= t /\ r[2] < MaxAttempts}

\* The table after _recover_expired_locked: each lapsed attempt has failed and
\* its successor is pending.
Recovered(t, locked) ==
  [j \in Jobs |-> [n \in Numbers |->
     IF <<j, n>> \in Expired(t, locked)
     THEN Failed(attempts[j][n], LeaseExpired, TRUE)
     ELSE IF <<j, n - 1>> \in Expired(t, locked) THEN PendingAttempt(t)
     ELSE attempts[j][n]]]

\* The insert of a successor that exists with other content would raise and
\* roll back the whole recovery.
RecoveryFits(t, locked) ==
  \A r \in Expired(t, locked) : ~Exists(r[1], r[2] + 1)

RecoverExpiredLeases(t, locked) ==
  /\ RecoveryFits(t, locked)
  /\ attempts' = Recovered(t, locked)
  /\ UNCHANGED <<events, tombstones, claims, evidence, extractions, outbox>>

\* The pending attempts of a table that a poll at time t may take.
Due(table, t, locked) ==
  {r \in (Jobs \X Numbers) \ locked :
     table[r[1]][r[2]].state = "pending" /\ table[r[1]][r[2]].started <= t}

\* lease_next: recovery and, in the same transaction, the oldest pending
\* attempt that is due.  Ids break ties of started_at; any row may be first.
LeaseNext(w, t, d, locked) ==
  LET after == Recovered(t, locked)
      due == Due(after, t, locked)
  IN /\ RecoveryFits(t, locked)
     /\ \/ due = {} /\ attempts' = after
        \/ \E r \in due :
             /\ \A q \in due : after[r[1]][r[2]].started <= after[q[1]][q[2]].started
             /\ attempts' = [after EXCEPT ![r[1]][r[2]] = Leased(@, w, t + d)]
     /\ UNCHANGED <<events, tombstones, claims, evidence, extractions, outbox>>

\* fail_attempt.  The owner may report after its lease has lapsed; the CHECK
\* completed_at >= started_at refuses an earlier clock.
FailAttempt(w, j, n, code, asked, t) ==
  /\ Running(j, n)
  /\ attempts[j][n].owner = w
  /\ t >= attempts[j][n].started
  /\ attempts' = [attempts EXCEPT ![j][n] =
                    Failed(@, code, asked /\ code \notin NonretryableCodes)]
  /\ UNCHANGED <<events, tombstones, claims, evidence, extractions, outbox>>

\* complete_attempt with a set of validated writes.  A second completion of a
\* succeeded attempt is answered from claim_extractions without a change.
DistinctClaims(ws) == \A v, w \in ws : v.claim = w.claim => v = w

\* The writes are about the source and contradict no claim.
Agree(ws, j) ==
  /\ DistinctClaims(ws)
  /\ \A v \in ws :
       SpanSource[v.span] = j[1] /\ claims[v.claim] \in {NoContent, v.content}

\* What complete_attempt checks, before it writes or by the constraints that it hits.
MayComplete(w, j, n, t, ws) ==
  /\ Agree(ws, j)
  /\ Running(j, n)
  /\ attempts[j][n].owner = w
  /\ attempts[j][n].started <= t
  /\ t < attempts[j][n].expires
  /\ Live(j[1])
  /\ \A v \in ws : \A m \in Numbers : <<v.claim, j, m>> \in extractions => m = n
  /\ CanEmit({ClaimsChanged(j)})

CompleteAttempt(w, j, n, t, ws) ==
  /\ MayComplete(w, j, n, t, ws)
  /\ claims' = [c \in ClaimIds |->
                  IF \E v \in ws : v.claim = c
                  THEN (CHOOSE v \in ws : v.claim = c).content
                  ELSE claims[c]]
  /\ evidence' = evidence \cup {<<v.claim, v.span>> : v \in ws}
  /\ extractions' = extractions \cup {<<v.claim, j, n>> : v \in ws}
  /\ outbox' = outbox \cup {ClaimsChanged(j)}
  /\ attempts' = [attempts EXCEPT ![j][n] = Succeeded(@)]
  /\ UNCHANGED <<events, tombstones>>

-----------------------------------------------------------------------------
\* delete_source.
\* Mistake: the affected claims lose all their evidence.
EvidenceOfItsClaims(s) ==
  {e \in evidence : \E f \in evidence : f[1] = e[1] /\ SpanSource[f[2]] = s}
EvidenceOf(s) == {e \in evidence : SpanSource[e[2]] = s}
Affected(s) == {e[1] : e \in EvidenceOf(s)}
\* The affected claims that no other source supports.
Retired(s) == {c \in Affected(s) : \A e \in evidence \ EvidenceOf(s) : e[1] # c}

\* Mistake: a deletion that touches no claim is not announced.
KeysIfAffected(s) ==
  {ClaimRecompute(c, s) : c \in Affected(s) \ Retired(s)}
  \cup (IF Affected(s) = {} THEN {} ELSE {SourceDeleted(s)})
DeletionKeys(s) ==
  {ClaimRecompute(c, s) : c \in Affected(s) \ Retired(s)} \cup {SourceDeleted(s)}

\* What delete_source checks of the stored event e.
MayDelete(s, e) == e.id = s /\ ~Tombstoned(s, e.key) /\ CanEmit(DeletionKeys(s))

DeleteSource(s) ==
  \E e \in events :
    /\ MayDelete(s, e)
    /\ evidence' = evidence \ EvidenceOf(s)
    /\ extractions' = {x \in extractions : x[2][1] # s /\ x[1] \notin Retired(s)}
    /\ claims' = [c \in ClaimIds |-> IF c \in Retired(s) THEN NoContent ELSE claims[c]]
    /\ attempts' = [j \in Jobs |-> IF j[1] = s THEN [n \in Numbers |-> NoRow]
                                   ELSE attempts[j]]
    /\ outbox' = (outbox \ ({SourceIngested(s)}
                            \cup {ClaimsChanged(<<s, x>>) : x \in Extractors}))
                 \cup DeletionKeys(s)
    /\ tombstones' = tombstones \cup {[id |-> s, key |-> e.key]}
    /\ events' = events \ {e}

-----------------------------------------------------------------------------
Next ==
  \/ \E r \in Requests, x \in Extractors : Ingest(r, x)
  \/ \E j \in Jobs, t \in Times : EnqueueReprocessing(j, t)
  \/ \E t \in Times, locked \in SUBSET OpenRows : RecoverExpiredLeases(t, locked)
  \/ \E w \in Workers, t \in Times, locked \in SUBSET OpenRows :
       \E d \in 1 .. (MaxTime - t) : LeaseNext(w, t, d, locked)
  \/ \E w \in Workers, j \in Jobs, n \in Numbers, t \in Times :
       \E code \in ErrorCodes, asked \in BOOLEAN :
         FailAttempt(w, j, n, code, asked, t)
  \/ \E w \in Workers, j \in Jobs, n \in Numbers, t \in Times :
       \E ws \in SUBSET ClaimWrites : CompleteAttempt(w, j, n, t, ws)
  \/ \E s \in SourceIds : DeleteSource(s)

Spec == Init /\ [][Next]_vars

\* A worker that polls with an advancing clock, and rows that other
\* transactions do not hold locked for ever.
Fairness ==
  /\ WF_vars(RecoverExpiredLeases(MaxTime, {}))
  /\ WF_vars(\E w \in Workers : LeaseNext(w, MaxTime - 1, 1, {}))

FairSpec == Spec /\ Fairness

-----------------------------------------------------------------------------
TypeOK ==
  /\ events \subseteq Requests
  /\ tombstones \subseteq [id: SourceIds, key: Keys]
  /\ attempts \in [Jobs -> [Numbers -> Row]]
  /\ claims \in [ClaimIds -> Contents \cup {NoContent}]
  /\ evidence \subseteq ClaimIds \X Spans
  /\ extractions \subseteq ClaimIds \X Jobs \X Numbers
  /\ outbox \subseteq OutboxKeys

\* A job's attempts are numbered without a gap, and every attempt that has a
\* successor failed retryably: at most one attempt of a job is open, and a job
\* that succeeded or failed for good has no later attempt, although three
\* methods (ingest, enqueue_reprocessing, the two forms of recovery) insert
\* attempts under different locks.
ChainShape ==
  \A j \in Jobs : \A m, n \in Numbers :
    n < m /\ Exists(j, m) =>
      attempts[j][n].state = "failed" /\ attempts[j][n].retryable

\* Hard deletion: ids and keys of deleted sources are never stored again (and
\* those of stored sources never twice, as the UNIQUE constraints ask), and
\* attempts, evidence and extraction rows exist for live sources only
\* (ingest's tombstone check against delete_source's whole cascade).
DeletedIsForgotten ==
  /\ \A b \in tombstones : \A e \in events : e.id # b.id /\ e.key # b.key
  /\ \A e, f \in events : e.id = f.id \/ e.key = f.key => e = f
  /\ \A j \in Jobs : \A n \in Numbers : Exists(j, n) => Live(j[1])
  /\ \A v \in evidence : Live(SpanSource[v[2]])
  /\ \A x \in extractions : Live(x[2][1])

\* A claim exists exactly while evidence for it does, every piece of evidence
\* was written by a completed attempt on the span's own source, and every
\* extraction row has its attempt succeeded and its evidence in place.  The
\* completions of several sources and extractors and the deletions that retire
\* shared claims meet here.
ClaimsAreGrounded ==
  /\ \A c \in ClaimIds : claims[c] # NoContent <=> \E v \in evidence : v[1] = c
  /\ \A v \in evidence : \E x \in extractions :
       x[1] = v[1] /\ x[2][1] = SpanSource[v[2]]
  /\ \A x \in extractions :
       /\ attempts[x[2]][x[3]].state = "succeeded"
       /\ \E v \in evidence : v[1] = x[1] /\ SpanSource[v[2]] = x[2][1]

\* What consumers of processing_outbox are told agrees with the tables: one
\* ingestion event per live source, one change event per job that succeeded,
\* one deletion event per tombstone, and recomputation of a claim is asked for
\* by deletions only.
OutboxTellsTheTruth ==
  /\ \A s \in SourceIds :
       /\ SourceIngested(s) \in outbox <=> Live(s)
       /\ SourceDeleted(s) \in outbox <=> \E b \in tombstones : b.id = s
  /\ \A j \in Jobs :
       ClaimsChanged(j) \in outbox <=>
         \E n \in Numbers : attempts[j][n].state = "succeeded"
  /\ \A c \in ClaimIds, s \in SourceIds :
       ClaimRecompute(c, s) \in outbox => \E b \in tombstones : b.id = s

\* Rows that different transactions write about the same thing agree: claims with
\* their evidence and extraction rows, events with all of them.
RowsAgree == ClaimsAreGrounded /\ OutboxTellsTheTruth

\* No stored row makes a later transaction raise for ever: a live source can be
\* deleted, recovery finds the successor numbers free, and the owner of a lease
\* can complete its attempt.
NothingWedges ==
  /\ \A s \in SourceIds : Live(s) => ENABLED DeleteSource(s)
  /\ RecoveryFits(MaxTime, {})
  /\ \A j \in Jobs : \A n \in Numbers : Running(j, n) =>
       ENABLED CompleteAttempt(attempts[j][n].owner, j, n, attempts[j][n].started, {})

\* While its source lives, a job that succeeded or failed for good is never
\* touched again: no retry, no late worker, no second completion.
Settled(j) == \E n \in Numbers :
  \/ attempts[j][n].state = "succeeded"
  \/ attempts[j][n].state = "failed" /\ ~attempts[j][n].retryable

SettledStaysSettled ==
  [][\A j \in Jobs : Settled(j) /\ Live(j[1])' => attempts'[j] = attempts[j]]_vars

\* With a polling worker, a lease ends: by completion, failure, deletion or
\* recovery.  (Bound: except for the last attempt number.)
LeasesEnd ==
  \A j \in Jobs : \A n \in 1 .. (MaxAttempts - 1) :
    Running(j, n) ~> ~Running(j, n)

\* With a polling worker, a due attempt does not stay pending: no stream of
\* older or retried attempts keeps it waiting.  (Bound: attempts that become
\* due at the end of the modelled time cannot be leased.)
DueAttemptsStart ==
  \A j \in Jobs : \A n \in Numbers :
    attempts[j][n].state = "pending" /\ attempts[j][n].started < MaxTime
      ~> attempts[j][n].state # "pending" \/ attempts[j][n].started = MaxTime

\* The queue moves on: no lease and no due attempt stays for ever.
QueueMoves == LeasesEnd /\ DueAttemptsStart

=============================================================================
