------------------------------ MODULE Execution ------------------------------
(* execute_jobs (src/evaluation/qwen_execution.py): a batch of requests is     *)
(* given to a pool of worker threads.  Each request asks the budget gate, then *)
(* calls the provider, retries a transport failure once while the retry ledger *)
(* allows it, and ends with one terminal record written as a file of its own.  *)
(* A later process skips the requests that have a terminal record.             *)
(* What a request asks and what it is answered is left out: an answer is       *)
(* "succeeded", "failed" (a body that is invalid, refused or of another model) *)
(* or "transport" (no body).  A definition headed "Mistake" is a wrong version *)
(* of the one after it and is not used.                                        *)
EXTENDS Naturals, FiniteSets, FiniteSetsExt

CONSTANTS
  Jobs,                  \* the positions of all requests
  MaxWorkers,            \* MAX_WORKERS
  MaxTransportRetries    \* MAX_TRANSPORT_RETRIES, of one ledger

ASSUME ExecutionAssumption ==
  /\ Jobs \subseteq Nat /\ IsFiniteSet(Jobs)
  /\ MaxWorkers \in Nat \ {0}
  /\ MaxTransportRetries \in Nat

VARIABLES
  records,   \* request -> NoRecord or its terminal record
  phase,     \* request -> where its worker is, "idle" without one
  retries,   \* request -> retries of its worker
  pending,   \* request -> the record its worker is about to write
  used,      \* TransportRetryLedger._used
  stopped,   \* requests whose future raised BudgetStop
  calls      \* request -> provider calls ever made for it

executionVars == <<records, phase, retries, pending, used, stopped, calls>>

NoRecord == [status |-> "none", attempts |-> 0]
Terminal == [status : {"succeeded", "failed"}, attempts : 1..2]
Phases == {"idle", "queued", "gate", "calling", "writing"}

ExecutionInit ==
  /\ records = [j \in Jobs |-> NoRecord]
  /\ phase = [j \in Jobs |-> "idle"]
  /\ retries = [j \in Jobs |-> 0]
  /\ pending = [j \in Jobs |-> NoRecord]
  /\ used = 0
  /\ stopped = {}
  /\ calls = [j \in Jobs |-> 0]

TerminalRecords(batch) == {j \in batch : records[j] # NoRecord}
Queued == {j \in Jobs : phase[j] = "queued"}
Busy == {j \in Jobs : phase[j] \in {"gate", "calling", "writing"}}
Drained == Queued \cup Busy = {}
Complete(batch) == TerminalRecords(batch) = batch
AllSucceeded(batch) == \A j \in batch : records[j].status = "succeeded"

\* Mistake: Every request of the batch is submitted again.
AllMissing(batch) == batch
Missing(batch) == batch \ TerminalRecords(batch)

Submit(batch) ==
  /\ Drained
  /\ phase' = [j \in Jobs |-> IF j \in Missing(batch) THEN "queued" ELSE phase[j]]
  /\ retries' = [j \in Jobs |-> IF j \in batch THEN 0 ELSE retries[j]]
  /\ stopped' = {}
  /\ UNCHANGED <<records, pending, used, calls>>

Take(j) ==
  /\ phase[j] = "queued"
  /\ j = Min(Queued)
  /\ Cardinality(Busy) < MaxWorkers
  /\ phase' = [phase EXCEPT ![j] = "gate"]
  /\ UNCHANGED <<records, retries, pending, used, stopped, calls>>

Admit(j) ==
  /\ phase[j] = "gate"
  /\ phase' = [phase EXCEPT ![j] = "calling"]
  /\ calls' = [calls EXCEPT ![j] = @ + 1]
  /\ UNCHANGED <<records, retries, pending, used, stopped>>

\* Mistake: A refused request stays in the pool.
RefuseAndWait(j) ==
  /\ phase[j] = "gate"
  /\ stopped' = stopped \cup {j}
  /\ UNCHANGED <<records, phase, retries, pending, used, calls>>

(* The gate raises outside the try: the worker ends without a record, also    *)
(* after a first attempt that failed.                                          *)
Refuse(j) ==
  /\ phase[j] = "gate"
  /\ phase' = [phase EXCEPT ![j] = "idle"]
  /\ stopped' = stopped \cup {j}
  /\ UNCHANGED <<records, retries, pending, used, calls>>

Conclude(j, status) ==
  /\ phase' = [phase EXCEPT ![j] = "writing"]
  /\ pending' = [pending EXCEPT ![j] = [status |-> status, attempts |-> retries[j] + 1]]
  /\ UNCHANGED <<records, retries, used, stopped, calls>>

MayRetry(j) == retries[j] = 0 /\ used < MaxTransportRetries

\* Mistake: The ledger does not count the retry it grants.
RetryUncounted(j) ==
  /\ retries' = [retries EXCEPT ![j] = 1]
  /\ phase' = [phase EXCEPT ![j] = "gate"]
  /\ UNCHANGED <<records, pending, used, stopped, calls>>

Retry(j) ==
  /\ retries' = [retries EXCEPT ![j] = 1]
  /\ used' = used + 1
  /\ phase' = [phase EXCEPT ![j] = "gate"]
  /\ UNCHANGED <<records, pending, stopped, calls>>

Answered(j, status) == phase[j] = "calling" /\ Conclude(j, status)

TransportFails(j) ==
  /\ phase[j] = "calling"
  /\ IF MayRetry(j) THEN Retry(j) ELSE Conclude(j, "failed")

(* os.link refuses an existing name, so a record is never replaced.            *)
WriteTerminal(j) ==
  /\ phase[j] = "writing"
  /\ records' = IF records[j] = NoRecord THEN [records EXCEPT ![j] = pending[j]] ELSE records
  /\ pending' = [pending EXCEPT ![j] = NoRecord]
  /\ phase' = [phase EXCEPT ![j] = "idle"]
  /\ UNCHANGED <<retries, used, stopped, calls>>

(* The process is gone: the files stay, and a new process starts a new ledger. *)
ProcessLost ==
  /\ phase' = [j \in Jobs |-> "idle"]
  /\ retries' = [j \in Jobs |-> 0]
  /\ pending' = [j \in Jobs |-> NoRecord]
  /\ stopped' = {}
  /\ used' = 0
  /\ UNCHANGED <<records, calls>>

ExecutionTypeOK ==
  /\ records \in [Jobs -> Terminal \cup {NoRecord}]
  /\ phase \in [Jobs -> Phases]
  /\ retries \in [Jobs -> 0..1]
  /\ pending \in [Jobs -> Terminal \cup {NoRecord}]
  /\ used \in 0..MaxTransportRetries
  /\ stopped \subseteq Jobs
  /\ calls \in [Jobs -> Nat]
=============================================================================
