--------------------------- MODULE ReadCommitted ---------------------------
(***************************************************************************)
(* The transactions of IngestionService taken apart into their SQL         *)
(* statements, for one source, one extractor and one claim.  PostgreSQL    *)
(* runs them at READ COMMITTED (connections are opened with autocommit and *)
(* transaction() names no level): a statement reads what was committed     *)
(* when it began and what its own transaction wrote; a statement that      *)
(* needs a row or an advisory lock of another transaction waits until that *)
(* one ends and then looks at the row again; SKIP LOCKED passes over it; a *)
(* wait cycle is broken by raising in one of its members.                  *)
(*                                                                         *)
(* Module Ingestion has the same methods as atomic steps; the properties   *)
(* ask which interleavings of the statements amount to that.  As there, an *)
(* operator under the word "Mistake" is a wrong version of the next one.   *)
(***************************************************************************)
EXTENDS Integers, TLC

CONSTANTS
  Txns,         \* the transactions, each run once
  Program,      \* [Txns -> [kind, at, owner, number]]: method and arguments
  Workers, NoOwner,
  MaxAttempts,  \* bound: attempts of the job
  MaxTime       \* bound: the clocks that callers pass

Numbers == 1 .. MaxAttempts
Request == [id |-> "source", key |-> "key", body |-> "body", at |-> 0]

\* leased_at + lease_duration; the durations are 1 here.
LeaseEnd(t) == Program[t].at + 1

\* A cell is a row that a transaction may write and lock: the source's own
\* rows, its attempts, its outbox rows and the claim with all that hangs on it.
Event == <<"source_events", 0>>
Tombstone == <<"source_tombstones", 0>>
Claim == <<"claims", 0>>
Attempt(n) == <<"processing_attempts", n>>
Ingested == <<"source_ingested", 0>>
Changed == <<"claims_changed", 0>>
Deleted == <<"source_deleted", 0>>

Attempts == {Attempt(n) : n \in Numbers}
Flags == {Event, Tombstone, Ingested, Changed, Deleted}
Cells == Flags \cup {Claim} \cup Attempts

VARIABLES
  db,        \* the committed rows; of the claim: the attempt it came from or 0
  pc,        \* the next statement of a transaction
  own,       \* what it wrote: a function on the cells that it holds locked
  held,      \* the cells it locked with FOR UPDATE
  advisory,  \* the holders of the advisory locks "ingest" and "source"
  share,     \* transactions with FOR KEY SHARE on the event (foreign keys)
  memo       \* what earlier statements returned: [seen, number, stored]

vars == <<db, pc, own, held, advisory, share, memo>>

NoTxn == "no transaction"
Kind(t) == Program[t].kind
At(t) == Program[t].at

\* The same tables for module Ingestion.
Atomic == INSTANCE Ingestion WITH
  Requests <- {Request},
  SourceIds <- {"source"}, Keys <- {"key"}, Bodies <- {"body"},
  Extractors <- {"extractor"}, ClaimIds <- {"claim"}, Contents <- {"content"},
  NoContent <- "none", Spans <- {"span"},
  SpanSource <- [s \in {"span"} |-> "source"],
  ClaimWrites <- {[claim |-> "claim", content |-> "content", span |-> "span"]},
  ErrorCodes <- {"lease_expired", "provider_error"}, NonretryableCodes <- {},
  LeaseExpired <- "lease_expired", NoError <- "none",
  events <- IF db[Event] THEN {Request} ELSE {},
  tombstones <- IF db[Tombstone] THEN {[id |-> "source", key |-> "key"]} ELSE {},
  attempts <- [j \in {"source"} \X {"extractor"} |-> [n \in Numbers |-> db[Attempt(n)]]],
  claims <- [c \in {"claim"} |-> IF db[Claim] = 0 THEN "none" ELSE "content"],
  evidence <- IF db[Claim] = 0 THEN {} ELSE {<<"claim", "span">>},
  extractions <- IF db[Claim] = 0 THEN {}
                 ELSE {<<"claim", <<"source", "extractor">>, db[Claim]>>},
  outbox <-
    (IF db[Ingested] THEN {[type |-> "source_ingested", source |-> "source"]} ELSE {})
    \cup (IF db[Deleted] THEN {[type |-> "source_deleted", source |-> "source"]} ELSE {})
    \cup (IF db[Changed] THEN {[type |-> "claims_changed", source |-> "source",
                                extractor |-> "extractor"]} ELSE {})

EmptyDb ==
  [c \in Cells |-> IF c \in Attempts THEN Atomic!NoRow
                   ELSE IF c = Claim THEN 0 ELSE FALSE]

\* A source whose first attempt is in state row.
StoredDb(row) ==
  [EmptyDb EXCEPT ![Event] = TRUE, ![Ingested] = TRUE, ![Attempt(1)] = row]

FirstStatement ==
  [ingest |-> "ingest.lock", enqueue |-> "enqueue.lock", lease |-> "lease.recover",
   fail |-> "fail.update", complete |-> "complete.row", delete |-> "delete.lock"]

NoMemo == [seen |-> {}, number |-> 0, stored |-> FALSE]

InitWith(dbs, called) ==
  /\ db \in dbs
  /\ pc = [t \in Txns |-> IF t \in called THEN FirstStatement[Kind(t)] ELSE "done"]
  /\ own = [t \in Txns |-> <<>>]
  /\ held = [t \in Txns |-> {}]
  /\ advisory = [l \in {"ingest", "source"} |-> NoTxn]
  /\ share = {}
  /\ memo = [t \in Txns |-> NoMemo]

-----------------------------------------------------------------------------
\* Locks.
Locked(t) == DOMAIN own[t] \cup held[t]
LockedByOthers(t) == UNION {Locked(u) : u \in Txns \ {t}}

View(t, c) == IF c \in DOMAIN own[t] THEN own[t][c] ELSE db[c]
Stored(n) == db[Attempt(n)].state # "none"

\* The locks that the next statement of t needs.
WantsAdvisory(t) ==
  CASE pc[t] = "ingest.lock" -> {"ingest"}
    [] pc[t] \in {"enqueue.lock", "complete.lock", "delete.lock"} -> {"source"}
    [] OTHER -> {}

WantsCells(t) ==
  CASE pc[t] = "ingest.insert" -> {Event, Attempt(1), Ingested}
    [] pc[t] \in {"enqueue.rows", "delete.rows"} -> {Attempt(n) : n \in memo[t].seen}
    [] pc[t] = "enqueue.insert" -> {Attempt(memo[t].number)}
    [] pc[t] = "lease.retry" -> {Attempt(n + 1) : n \in memo[t].seen}
    [] pc[t] \in {"fail.update", "complete.row"} -> {Attempt(Program[t].number)}
    [] pc[t] = "delete.event" -> {Tombstone, Event}
    [] OTHER -> {}

\* An INSERT of a child row locks the event FOR KEY SHARE.
WantsShare(t) ==
  \/ pc[t] \in {"enqueue.insert", "complete.write"}
  \/ pc[t] = "lease.retry" /\ memo[t].seen # {}

WaitsFor(t, u) ==
  /\ u # t
  /\ \/ \E l \in WantsAdvisory(t) : advisory[l] = u
     \/ WantsCells(t) \cap Locked(u) # {}
     \/ WantsShare(t) /\ Event \in DOMAIN own[u]
     \/ Event \in WantsCells(t) /\ u \in share

\* t is about to execute the statement s, and no lock is in the way.
Runs(t, s) == pc[t] = s /\ \A u \in Txns : ~WaitsFor(t, u)

\* The rows that fail_attempt and complete_attempt accept.
\* Mistake: any row with that id.
NamesAttempt(t) == db[Attempt(Program[t].number)].state # "none"
HoldsLease(t) ==
  /\ db[Attempt(Program[t].number)].state = "running"
  /\ db[Attempt(Program[t].number)].owner = Program[t].owner

Goto(t, s) == pc' = [pc EXCEPT ![t] = s]

Write(t, cells) == own' = [own EXCEPT ![t] = cells @@ @]

\* Mistake: locks of the session.
SessionLocks(t) == advisory
\* pg_advisory_xact_lock: released when the transaction ends.
Released(t) ==
  [l \in DOMAIN advisory |-> IF advisory[l] = t THEN NoTxn ELSE advisory[l]]

End(t, how) ==
  /\ Goto(t, how)
  /\ own' = [own EXCEPT ![t] = <<>>]
  /\ held' = [held EXCEPT ![t] = {}]
  /\ advisory' = Released(t)
  /\ share' = share \ {t}
  /\ memo' = [memo EXCEPT ![t] = NoMemo]

\* An exception leaves the with-block: ROLLBACK.
Raise(t) == End(t, "raised") /\ UNCHANGED db

Commit(t) ==
  /\ pc[t] = "commit"
  /\ db' = own[t] @@ db
  /\ End(t, "done")

\* A read or a decision that takes no lock and writes nothing.
Only(t, s) == Goto(t, s) /\ UNCHANGED <<db, own, held, advisory, share>>

Acquire(t, lock, s) ==
  /\ advisory' = [advisory EXCEPT ![lock] = t]
  /\ Goto(t, s)
  /\ UNCHANGED <<db, own, held, share, memo>>

\* A constraint of the tables stops the next statement of t: a row that it inserts
\* is stored with other content (an identical one is accepted), the source of a row
\* that it inserts is gone, or one that it did not see names the source it deletes.
Clashes(t) ==
  LET Taken(n) == db[Attempt(n)] \notin {Atomic!NoRow, Atomic!PendingAttempt(At(t))}
  IN CASE pc[t] = "ingest.insert" ->
            db[Attempt(1)] \notin {Atomic!NoRow, Atomic!PendingAttempt(Request.at)}
       [] pc[t] = "enqueue.insert" -> ~db[Event] \/ Taken(memo[t].number)
       [] pc[t] = "lease.retry" ->
            memo[t].seen # {} /\ (~db[Event] \/ \E n \in memo[t].seen : Taken(n + 1))
       [] pc[t] = "complete.write" -> ~db[Event] \/ db[Changed] \/ db[Claim] # 0
       [] pc[t] = "delete.event" ->
            db[Tombstone] \/ db[Deleted] \/ \E c \in Attempts : View(t, c) # Atomic!NoRow
       [] OTHER -> FALSE

-----------------------------------------------------------------------------
\* ingest.  Its lock is on the idempotency key, not on the source.
\* Mistake: no lock on the idempotency key.
IngestUnlocked(t) ==
  Runs(t, "ingest.lock") /\ Only(t, "ingest.tombstone") /\ UNCHANGED memo
IngestLock(t) == Runs(t, "ingest.lock") /\ Acquire(t, "ingest", "ingest.tombstone")

IngestTombstone(t) ==
  /\ Runs(t, "ingest.tombstone")
  /\ IF db[Tombstone] THEN Raise(t)
     ELSE Only(t, "ingest.by_key") /\ UNCHANGED memo

IngestByKey(t) ==
  /\ Runs(t, "ingest.by_key")
  /\ memo' = [memo EXCEPT ![t].stored = db[Event]]
  /\ Only(t, "ingest.by_id")

IngestById(t) ==
  /\ Runs(t, "ingest.by_id")
  /\ IF db[Event] # memo[t].stored THEN Raise(t)
     ELSE /\ Only(t, IF db[Event] THEN "commit" ELSE "ingest.insert")
          /\ UNCHANGED memo

IngestInsert(t) ==
  /\ Runs(t, "ingest.insert")
  /\ IF Clashes(t) THEN Raise(t)
     ELSE IF db[Event] THEN Only(t, "commit") /\ UNCHANGED memo
     ELSE /\ Write(t, Event :> TRUE @@ Ingested :> TRUE
                      @@ Attempt(1) :> Atomic!PendingAttempt(Request.at))
          /\ Goto(t, "commit")
          /\ UNCHANGED <<db, held, advisory, share, memo>>

\* enqueue_reprocessing.  SELECT ... FOR UPDATE fixes the rows it returns when it
\* begins; a row that it waited for is read again, a row inserted meanwhile is
\* not found.
EnqueueLock(t) == Runs(t, "enqueue.lock") /\ Acquire(t, "source", "enqueue.source")

EnqueueSource(t) ==
  /\ Runs(t, "enqueue.source")
  /\ IF ~db[Event] THEN Raise(t)
     ELSE Only(t, "enqueue.select") /\ UNCHANGED memo

EnqueueSelect(t) ==
  /\ Runs(t, "enqueue.select")
  /\ memo' = [memo EXCEPT ![t].seen = {n \in Numbers : Stored(n)}]
  /\ Only(t, "enqueue.rows")

EnqueueRows(t) ==
  LET rows == {n \in memo[t].seen : Stored(n)}
      last == CHOOSE n \in rows : \A m \in rows : m <= n
  IN /\ Runs(t, "enqueue.rows")
     /\ IF rows # {} /\ db[Attempt(last)].state # "failed" THEN
          /\ held' = [held EXCEPT ![t] = {Attempt(n) : n \in rows}]
          /\ Goto(t, "commit")
          /\ UNCHANGED <<db, own, advisory, share, memo>>
        ELSE IF rows # {} /\ (~db[Attempt(last)].retryable \/ last = MaxAttempts) THEN
          Raise(t)
        ELSE /\ held' = [held EXCEPT ![t] = {Attempt(n) : n \in rows}]
             /\ memo' = [memo EXCEPT ![t].number = IF rows = {} THEN 1 ELSE last + 1]
             /\ Goto(t, "enqueue.insert")
             /\ UNCHANGED <<db, own, advisory, share>>

EnqueueInsert(t) ==
  LET n == memo[t].number IN
    /\ Runs(t, "enqueue.insert")
    /\ IF Clashes(t) THEN Raise(t)
       ELSE IF Stored(n) THEN Only(t, "commit") /\ UNCHANGED memo
       ELSE /\ Write(t, Attempt(n) :> Atomic!PendingAttempt(At(t)))
            /\ share' = share \cup {t}
            /\ Goto(t, "commit")
            /\ UNCHANGED <<db, held, advisory, memo>>

-----------------------------------------------------------------------------
\* lease_next: SELECT ... FOR UPDATE SKIP LOCKED and its UPDATEs, the INSERTs of
\* the successors, and the UPDATE of one pending attempt.
LeaseRecover(t) ==
  LET expired == {n \in 1 .. (MaxAttempts - 1) :
                    /\ db[Attempt(n)].state = "running"
                    /\ db[Attempt(n)].expires <= At(t)
                    /\ Attempt(n) \notin LockedByOthers(t)}
  IN /\ Runs(t, "lease.recover")
     /\ Write(t, [c \in {Attempt(n) : n \in expired} |->
                    Atomic!Failed(db[c], "lease_expired", TRUE)])
     /\ memo' = [memo EXCEPT ![t].seen = expired]
     /\ Goto(t, "lease.retry")
     /\ UNCHANGED <<db, held, advisory, share>>

LeaseRetry(t) ==
  LET next == {Attempt(n + 1) : n \in {m \in memo[t].seen : ~Stored(m + 1)}} IN
    /\ Runs(t, "lease.retry")
    /\ IF Clashes(t) THEN Raise(t)
       ELSE /\ Write(t, [c \in next |-> Atomic!PendingAttempt(At(t))])
            /\ share' = IF next = {} THEN share ELSE share \cup {t}
            /\ Goto(t, "lease.pick")
            /\ UNCHANGED <<db, held, advisory, memo>>

LeasePick(t) ==
  LET due == {c \in Attempts \ LockedByOthers(t) :
                View(t, c).state = "pending" /\ View(t, c).started <= At(t)}
  IN /\ Runs(t, "lease.pick")
     /\ \/ due = {} /\ UNCHANGED own
        \/ \E c \in due :
             /\ \A other \in due : View(t, c).started <= View(t, other).started
             /\ Write(t, c :> Atomic!Leased(View(t, c), Program[t].owner, LeaseEnd(t)))
     /\ Goto(t, "commit")
     /\ UNCHANGED <<db, held, advisory, share, memo>>

\* fail_attempt: one UPDATE, which looks at the row again after a wait.
FailUpdate(t) ==
  LET c == Attempt(Program[t].number) IN
    /\ Runs(t, "fail.update")
    /\ IF ~HoldsLease(t) \/ At(t) < db[c].started THEN Raise(t)
       ELSE /\ Write(t, c :> Atomic!Failed(db[c], "provider_error", TRUE))
            /\ Goto(t, "commit")
            /\ UNCHANGED <<db, held, advisory, share, memo>>

-----------------------------------------------------------------------------
\* complete_attempt.  It locks the attempt before the source.
CompleteRow(t) ==
  LET c == Attempt(Program[t].number) IN
    /\ Runs(t, "complete.row")
    /\ CASE db[c].state = "succeeded" ->
              /\ held' = [held EXCEPT ![t] = {c}]
              /\ Goto(t, "commit")
              /\ UNCHANGED <<db, own, advisory, share, memo>>
         [] HoldsLease(t) /\ db[c].started <= At(t) /\ At(t) < db[c].expires ->
              /\ held' = [held EXCEPT ![t] = {c}]
              /\ Goto(t, "complete.source")
              /\ UNCHANGED <<db, own, advisory, share, memo>>
         [] OTHER -> Raise(t)

CompleteSource(t) ==
  /\ Runs(t, "complete.source")
  /\ IF ~db[Event] THEN Raise(t) ELSE Only(t, "complete.lock") /\ UNCHANGED memo

CompleteLock(t) == Runs(t, "complete.lock") /\ Acquire(t, "source", "complete.write")

CompleteWrite(t) ==
  LET c == Attempt(Program[t].number) IN
    /\ Runs(t, "complete.write")
    /\ IF Clashes(t) THEN Raise(t)
       ELSE /\ Write(t, c :> Atomic!Succeeded(db[c]) @@ Changed :> TRUE
                        @@ Claim :> Program[t].number)
            /\ share' = share \cup {t}
            /\ Goto(t, "commit")
            /\ UNCHANGED <<db, held, advisory, memo>>

-----------------------------------------------------------------------------
\* delete_source.  DELETE FROM processing_attempts, too, fixes its rows when it
\* begins; a row inserted later makes the foreign key of the event raise.
DeleteLock(t) == Runs(t, "delete.lock") /\ Acquire(t, "source", "delete.source")

DeleteSourceRead(t) ==
  /\ Runs(t, "delete.source")
  /\ IF db[Event] THEN Only(t, "delete.claims") /\ UNCHANGED memo
     ELSE IF db[Tombstone] THEN Only(t, "commit") /\ UNCHANGED memo
     ELSE Raise(t)

DeleteClaims(t) ==
  /\ Runs(t, "delete.claims")
  /\ Write(t, Claim :> 0 @@ Ingested :> FALSE @@ Changed :> FALSE)
  /\ Goto(t, "delete.attempts")
  /\ UNCHANGED <<db, held, advisory, share, memo>>

DeleteAttempts(t) ==
  /\ Runs(t, "delete.attempts")
  /\ memo' = [memo EXCEPT ![t].seen = {n \in Numbers : Stored(n)}]
  /\ Only(t, "delete.rows")

DeleteRows(t) ==
  /\ Runs(t, "delete.rows")
  /\ Write(t, [c \in {Attempt(n) : n \in memo[t].seen} |-> Atomic!NoRow])
  /\ Goto(t, "delete.event")
  /\ UNCHANGED <<db, held, advisory, share, memo>>

DeleteEvent(t) ==
  /\ Runs(t, "delete.event")
  /\ IF Clashes(t) THEN Raise(t)
     ELSE /\ Write(t, Tombstone :> TRUE @@ Event :> FALSE @@ Deleted :> TRUE)
          /\ Goto(t, "commit")
          /\ UNCHANGED <<db, held, advisory, share, memo>>

-----------------------------------------------------------------------------
\* A wait cycle: every member waits for a member and is waited for by one.
Waiting == {t \in Txns : \E u \in Txns : WaitsFor(t, u)}

Cycles ==
  {D \in SUBSET Waiting :
     /\ D # {}
     /\ \A t \in D : (\E u \in D : WaitsFor(t, u)) /\ (\E u \in D : WaitsFor(u, t))}

DeadlockDetected == \E t \in UNION Cycles : Raise(t)

Ingest(t) ==
  \/ IngestLock(t) \/ IngestTombstone(t) \/ IngestByKey(t) \/ IngestById(t)
  \/ IngestInsert(t)
EnqueueReprocessing(t) ==
  \/ EnqueueLock(t) \/ EnqueueSource(t) \/ EnqueueSelect(t) \/ EnqueueRows(t)
  \/ EnqueueInsert(t)
LeaseNext(t) == LeaseRecover(t) \/ LeaseRetry(t) \/ LeasePick(t)
CompleteAttempt(t) ==
  CompleteRow(t) \/ CompleteSource(t) \/ CompleteLock(t) \/ CompleteWrite(t)
DeleteSource(t) ==
  \/ DeleteLock(t) \/ DeleteSourceRead(t) \/ DeleteClaims(t) \/ DeleteAttempts(t)
  \/ DeleteRows(t) \/ DeleteEvent(t)

Step(t) ==
  \/ Ingest(t) \/ EnqueueReprocessing(t) \/ LeaseNext(t) \/ FailUpdate(t)
  \/ CompleteAttempt(t) \/ DeleteSource(t) \/ Commit(t)

Next == (\E t \in Txns : Step(t)) \/ DeadlockDetected

\* The server goes on while some transaction is not waiting.  None runs for ever,
\* so this is enough.
Fairness == WF_vars(Next)

-----------------------------------------------------------------------------
Ended(t) == pc[t] \in {"done", "raised"}

\* What the commits of interleaved transactions do to the tables, the atomic
\* methods of module Ingestion could have done one after the other.
Serializable == [][Atomic!Next]_(Atomic!vars)

\* Once a source is deleted no ingestion stores it again
\* (tests/integration/test_ingestion_service.py: a second ingest of the deleted
\* source raises source_tombstoned).
NoResurrection == ~(db[Event] /\ db[Tombstone])

\* Deadlock is possible only with a completion, the one method that locks an
\* attempt before the source: without it the methods take locks in one order.
DeadlockNeedsCompletion ==
  \A D \in Cycles : \E t \in D : Kind(t) = "complete"

\* Of duplicate ingestions one stores the source and the others are answered
\* from it: none raises.
DuplicatesAgree == \A t \in Txns : Kind(t) = "ingest" => pc[t] # "raised"

\* A recovery has stored an attempt since t looked for the attempts of the job.
Overtaken(t) ==
  \E n \in Numbers \ memo[t].seen :
    Stored(n) /\ n > 1 /\ db[Attempt(n - 1)].error = "lease_expired"

\* The constraints of the tables stop nobody but a reprocessing request or a deletion,
\* and these only when a recovery stored an attempt behind their back
\* (service.py:123 and 457: what waits for its rows does not see a new one).
ClashesNeedRecovery ==
  \A t \in Txns : Runs(t, pc[t]) /\ Clashes(t) =>
    Kind(t) \in {"enqueue", "delete"} /\ Overtaken(t)

\* A call that no test of the service refuses is stopped by the database for two
\* reasons only: a deadlock with a completion, or a recovery between two statements of
\* a reprocessing request or a deletion.  One after the other, the calls would meet
\* neither.  Duplicate deliveries get no error at all.
ErrorsHaveTwoCauses == DeadlockNeedsCompletion /\ ClashesNeedRecovery /\ DuplicatesAgree

\* Every transaction commits or raises: no wait is for ever.
EveryTransactionEnds == <>(\A t \in Txns : Ended(t))

=============================================================================
