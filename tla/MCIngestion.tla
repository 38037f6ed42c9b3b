---------------------------- MODULE MCIngestion ----------------------------
(* Small instances of Ingestion and its refinement of SourceLedger. *)
EXTENDS IngestionLedger

CONSTANTS s1, s2, c1, c2, p1, p2

\* Two sources, a request that reuses an id under the other key, and two
\* sources that can support the same claim or disagree about its content.
MCRequests ==
  {[id |-> s1, key |-> "k1", body |-> "b", at |-> 0],
   [id |-> s2, key |-> "k2", body |-> "b", at |-> 1],
   [id |-> s1, key |-> "k2", body |-> "b", at |-> 1]}

MCSpanSource == [p \in Spans |-> IF p = p1 THEN s1 ELSE s2]

MCClaimWrites ==
  {[claim |-> c1, content |-> "v", span |-> p1],
   [claim |-> c1, content |-> "v", span |-> p2],
   [claim |-> c2, content |-> "v", span |-> p1],
   [claim |-> c2, content |-> "w", span |-> p2]}

=============================================================================
