--------------------------- MODULE Recomputation ---------------------------
(***************************************************************************)
(* What starts a rebuild of the memories that are derived from claims      *)
(* (summaries and durative claims, src/summaries): the outbox events that  *)
(* ingestion, transitions, resolutions and deletions have left.  They are  *)
(* read from the tables that they were written with and may be delivered   *)
(* late, twice and out of order.  An event is processed as of the instant  *)
(* it was created; a call that raises changes nothing.                     *)
(***************************************************************************)
EXTENDS Beliefs

CONSTANTS SourceType, SessionId, ThreadId, ProducedAt, IdOrder, Gap, NoThread, BadThread

INSTANCE Sessions

ASSUME SessionsAssumption ==
  /\ IsFiniteSet(Sources)
  /\ SourceType \in [Sources -> SourceTypes]
  /\ ProducedAt \in [Sources -> Int]
  /\ IdOrder \in [Sources -> Int]
  /\ \A x, y \in Sources : IdOrder[x] = IdOrder[y] => x = y
  /\ Gap \in Nat
  /\ NoThread # BadThread
  /\ \A s \in Sources : SessionId[s] # BadThread

VARIABLE
  deletedAt   \* [Sources -> Times \cup {Open}]: created_at of source_deleted

NothingDeleted == deletedAt = [s \in Sources |-> Open]
Records(s, t) == deletedAt' = [deletedAt EXCEPT ![s] = t]

\* The outbox events that rebuild.  source_ingested and claims_changed,
\* and source_deleted and claim_recompute_required, are one event each.
Outbox ==
  {[id |-> <<"ingested", s>>, at |-> IngestedAt[s]] : s \in Sources \ forgotten} \cup
  {[id |-> <<"deleted", s>>, at |-> deletedAt[s]] : s \in forgotten} \cup
  {[id |-> <<"conflict", q>>, at |-> deletedAt[q.source]] : q \in requeued} \cup
  {[id |-> <<"moved", a.key>>, at |-> a.at] :
     a \in {b \in transitions : \E n \in announced : n.key = b.key}} \cup
  {[id |-> <<"resolved", r.key>>, at |-> r.at] : r \in resolutions}

\* The sources that are stored and were ingested by an instant.
Visible(at) == {s \in Sources \ forgotten : IngestedAt[s] <= at}

=============================================================================
