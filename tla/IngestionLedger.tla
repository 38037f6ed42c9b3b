-------------------------- MODULE IngestionLedger --------------------------
(* The refinement mapping from Ingestion to SourceLedger. *)
EXTENDS Ingestion

Life(s) ==
  IF Live(s) THEN "live"
  ELSE IF \E b \in tombstones : b.id = s THEN "deleted" ELSE "absent"

JobState(j) ==
  IF \A n \in Numbers : ~Exists(j, n) THEN "idle"
  ELSE IF \E n \in Numbers : attempts[j][n].state = "succeeded" THEN "done"
  ELSE IF Settled(j) THEN "dead"
  ELSE "open"

LifeOfSources == [s \in SourceIds |-> Life(s)]
StateOfJobs == [j \in Jobs |-> JobState(j)]
Support == {<<v[1], SpanSource[v[2]]>> : v \in evidence}

Ledger == INSTANCE SourceLedger WITH
  life <- LifeOfSources,
  job <- StateOfJobs,
  content <- claims,
  support <- Support

\* Every transaction of the service is a step of the ledger or changes nothing
\* the ledger knows of: leases, retries, recovery and reprocessing are invisible,
\* and a completion or a deletion takes effect all at once.
ImplementsLedger == Ledger!Spec
=============================================================================
