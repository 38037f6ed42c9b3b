--------------------------- MODULE MCReadCommitted ---------------------------
(* Sets of concurrent transactions for ReadCommitted. *)
EXTENDS ReadCommitted

Call(kind, at, owner, number) ==
  [kind |-> kind, at |-> at, owner |-> owner, number |-> number]

PendingRow == Atomic!PendingAttempt(0)
RunningRow == Atomic!Leased(PendingRow, "w1", 1)

MCProgram ==
  [ingest1 |-> Call("ingest", 0, NoOwner, 1),
   ingest2 |-> Call("ingest", 0, NoOwner, 1),
   poll1 |-> Call("lease", 1, "w1", 1),
   poll2 |-> Call("lease", 2, "w2", 1),
   complete |-> Call("complete", 0, "w1", 1),
   again |-> Call("complete", 0, "w1", 1),
   fail |-> Call("fail", 0, "w1", 1),
   enqueue |-> Call("enqueue", 2, NoOwner, 1),
   delete |-> Call("delete", 2, NoOwner, 1)]
MCTxns == DOMAIN MCProgram

\* The first attempt runs under a lease of w1 that lapses at 1.  The worker
\* completes it twice (a retried call) or reports a failure, two pollers look
\* for work when the lease has lapsed, the user deletes the source and asks for
\* reprocessing.
Queue ==
  InitWith({StoredDb(RunningRow)},
           {"complete", "again", "fail", "poll1", "poll2", "enqueue", "delete"})

\* Duplicate deliveries of one source, with pollers that work on it at once.
Arrival ==
  InitWith({EmptyDb}, {"ingest1", "ingest2", "poll1", "poll2", "complete", "enqueue"})

MCSpec == (Queue \/ Arrival) /\ [][Next]_vars /\ Fairness

\* A retried delivery of a stored source while the user deletes it.
RetrySpec == InitWith({StoredDb(PendingRow)}, {"ingest1", "delete"}) /\ [][Next]_vars
=============================================================================
