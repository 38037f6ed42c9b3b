------------------------------- MODULE PaidRun --------------------------------
(* The programs that pay a provider request by request and keep a checkpoint   *)
(* to resume from:                                                             *)
(*   "atomic"    execute_atomic_pipeline (src/extraction/run_atomic.py)        *)
(*   "frozen"    run_extraction_batch (src/evaluation/frozen_run.py)           *)
(*   "answers"   run_answer_batch (src/evaluation/frozen_answers.py)           *)
(*   "fallback"  execute_fallback (src/extraction/run_phase4_fallback.py)      *)
(*   "input"     _execute_model (src/extraction/run_phase4_input.py)           *)
(*   "history"   execute_b1_pipeline (src/evaluation/b1_full_history.py)       *)
(* A checkpoint is three files that are replaced one after another: the        *)
(* predictions, the failures, and the record of the run, with the hashes of    *)
(* both in all programs but "history".  The process may be lost between any    *)
(* two steps and started again.                                                *)
(* An operator under the word "Mistake" is a wrong version of the next one.    *)
(* Money is counted in units: a request costs at most MaxCost, an answer says  *)
(* what it cost, and whether a request without an answer is billed is unknown. *)
EXTENDS Naturals, FiniteSets, FiniteSetsExt

CONSTANTS
  Items,         \* positions of the frozen plan
  Programs,      \* which of the programs to start
  Workers,       \* WORKERS, the size of a group of answers
  MaxCost,       \* cost of the maximal request
  Cap,           \* the approved limit
  MaxRetries,    \* maximum_retry_requests
  MaxAttempts,   \* maximum_request_attempts
  MaxResumes     \* bound: times the program is started again

ASSUME PaidRunAssumption ==
  /\ Items \subseteq Nat /\ IsFiniteSet(Items)
  /\ Programs \subseteq {"atomic", "frozen", "answers", "fallback", "input", "history"}
  /\ Workers \in Nat \ {0} /\ MaxCost \in Nat \ {0}
  /\ {Cap, MaxRetries, MaxAttempts, MaxResumes} \subseteq Nat

VARIABLES
  program,      \* the program that runs
  at,           \* "writing", "deciding", "sending", "waiting", "ended", "lost", "refused"
  checkpoint,   \* what the process holds
  step,         \* the file it writes next
  calling,      \* requests the provider has not answered yet
  halting,      \* the answers of this process include a failure
  predictions, failures, run,   \* the files
  unfinished,   \* the process was lost while it wrote one of them
  paid,         \* money the provider has really taken
  requests,     \* item -> requests ever sent for it
  resumes

fileVars == <<predictions, failures, run, unfinished>>
vars == <<program, at, checkpoint, step, calling, halting, fileVars, paid, requests, resumes>>

NoFile == [status |-> "absent"]
Fresh == [status |-> "running", done |-> {}, failed |-> {}, pending |-> {},
          cost |-> [i \in Items |-> 0], prior |-> [i \in Items |-> 0]]

(* What the two files of a checkpoint hold, and what its hashes are of.  The   *)
(* answers program names its pending requests in the record only.              *)
PredictionsOf(c) == {<<i, c.cost[i]>> : i \in c.done}
FailuresOf(c) == IF program = "answers" THEN c.failed ELSE c.failed \cup c.pending

(* The record comes last, but in "history", which reads nothing else again.    *)
FirstFile == IF program = "history" THEN "run" ELSE "predictions"
Following(file) ==
  CASE file = "predictions" -> "failures" [] file = "failures" -> "run" [] OTHER -> "predictions"

PaidRunInit ==
  /\ program \in Programs
  /\ at = "writing" /\ step = FirstFile
  /\ checkpoint = Fresh
  /\ calling = {} /\ halting = FALSE
  /\ predictions = {} /\ failures = {} /\ run = NoFile /\ unfinished = FALSE
  /\ paid = 0
  /\ requests = [i \in Items |-> 0]
  /\ resumes = 0

(* The sum of f over S, counted unit by unit.                                  *)
Total(f, S) == Cardinality(UNION {{i} \X (1..f[i]) : i \in S})

(* run_atomic counts the maximum for every request without an answer, now and  *)
(* in earlier processes, and the two Phase 4 programs do for their last one.   *)
(* The others count what answers said, run_extraction_batch only of successes. *)
Unanswered(c) ==
  CASE program = "atomic" -> Cardinality(c.pending) + Total(c.prior, Items)
                             + Cardinality({i \in c.failed : c.cost[i] = 0})
    [] program \in {"fallback", "input"} -> Cardinality({i \in c.failed : c.cost[i] = 0})
    [] OTHER -> 0
Booked(c) ==
  Total(c.cost, IF program = "frozen" THEN c.done ELSE c.done \cup c.failed)
  + MaxCost * Unanswered(c)

-----------------------------------------------------------------------------
(* The three files of _write_checkpoint, _write_state and _checkpoint, and     *)
(* what the program goes on with.                                              *)
Continue(c) ==
  CASE c.status # "running" -> "ended"
    [] c.status = "running" /\ calling # {} -> "waiting"
    [] c.status = "running" /\ calling = {} /\ c.pending # {} -> "sending"
    [] OTHER -> "deciding"

WriteFile ==
  /\ at = "writing"
  /\ predictions' = IF step = "predictions" THEN PredictionsOf(checkpoint) ELSE predictions
  /\ failures' = IF step = "failures" THEN FailuresOf(checkpoint) ELSE failures
  /\ run' = IF step = "run" THEN checkpoint ELSE run
  /\ step' = Following(step)
  /\ at' = IF Following(step) = FirstFile THEN Continue(checkpoint) ELSE at
  /\ UNCHANGED <<program, checkpoint, calling, halting, unfinished, paid, requests, resumes>>

Save(c) ==
  /\ checkpoint' = c
  /\ at' = "writing"
  /\ UNCHANGED <<program, step, fileVars>>

-----------------------------------------------------------------------------
\* Mistake: A resumed run starts from the first request without a failure.
RemainingUnfailed(c) == Items \ c.failed

Remaining(c) == Items \ (c.done \cup c.failed)

(* The next group of answers, or the one next request of the other programs.   *)
Group(c) ==
  LET size == IF program = "answers" THEN Workers ELSE 1
  IN {i \in Remaining(c) : Cardinality({k \in Remaining(c) : k < i}) < size}

(* The Phase 4 budgets reserve all that is left, the others the next group;    *)
(* run_b1_questions guesses from what the requests before it cost.             *)
Reserved(c) ==
  LET costs == {c.cost[i] : i \in c.done \cup c.failed}
  IN CASE program \in {"fallback", "input"} -> MaxCost * Cardinality(Remaining(c))
       [] program = "history" -> IF costs \subseteq {0} THEN MaxCost ELSE Max(costs)
       [] OTHER -> MaxCost * Cardinality(Group(c))

Attempted(c) == c.done \cup c.failed \cup {i \in Items : c.prior[i] > 0}
Attempts(c) == Cardinality(c.done \cup c.failed) + Total(c.prior, Items)

RequestLimitReached(c) ==
  /\ program = "atomic"
  /\ \/ Attempts(c) + 1 > MaxAttempts
     \/ /\ Group(c) \subseteq Attempted(c)
        /\ Attempts(c) - Cardinality(Attempted(c)) + 1 > MaxRetries

MayRequest(c) == Booked(c) + Reserved(c) <= Cap /\ ~RequestLimitReached(c)

SaveUnless(programs, c, where) ==
  IF program \in programs
  THEN at' = where /\ UNCHANGED <<program, checkpoint, step, fileVars>>
  ELSE Save(c)

(* The answers program goes on after failures of an earlier process and ends   *)
(* as "failed" after one of its own; "history" goes on after most failures.    *)
Completes ==
  /\ at = "deciding" /\ (halting \/ Remaining(checkpoint) = {})
  /\ Save([checkpoint EXCEPT
            !.status = CASE checkpoint.failed = {} -> "completed"
                         [] checkpoint.failed # {} /\ program = "history" -> "provider"
                         [] OTHER -> "failed"])
  /\ UNCHANGED <<calling, halting, paid, requests, resumes>>

Decides == at = "deciding" /\ ~halting /\ Remaining(checkpoint) # {}

(* A limit stops the run before the request.  The frozen programs write that   *)
(* as a failure of the next request; the rows of run_atomic and b1 count       *)
(* nothing and their record is final, so they are left out; the budgets of     *)
(* Phase 4 raise an error.                                                     *)
StopsAtLimit ==
  /\ Decides /\ ~MayRequest(checkpoint)
  /\ SaveUnless({"fallback", "input"},
       [checkpoint EXCEPT
          !.status = IF program = "answers" THEN "failed" ELSE "stopped",
          !.failed = IF program \in {"frozen", "answers"} THEN @ \cup {Min(Group(checkpoint))} ELSE @],
       "ended")
  /\ UNCHANGED <<calling, halting, paid, requests, resumes>>

(* A checkpoint says what is about to be sent, in three of the programs.       *)
Announce ==
  /\ Decides /\ MayRequest(checkpoint)
  /\ SaveUnless({"fallback", "input", "history"},
       [checkpoint EXCEPT !.pending = Group(checkpoint)], "sending")
  /\ UNCHANGED <<calling, halting, paid, requests, resumes>>

Send ==
  /\ at = "sending"
  /\ calling' = Group(checkpoint)
  /\ requests' = [i \in Items |-> IF i \in Group(checkpoint) THEN requests[i] + 1 ELSE requests[i]]
  /\ at' = "waiting"
  /\ UNCHANGED <<program, checkpoint, step, halting, fileVars, paid, resumes>>

Settle(i) ==
  /\ at = "waiting" /\ i \in calling
  /\ calling' = calling \ {i}
  /\ UNCHANGED <<requests, resumes>>

Succeeds(i, price) ==
  /\ Settle(i)
  /\ paid' = paid + price
  /\ Save([checkpoint EXCEPT !.done = @ \cup {i}, !.pending = @ \ {i}, !.cost[i] = price])
  /\ UNCHANGED halting

(* A request may fail in the provider, be answered by another model, or have   *)
(* an answer that is not valid.  told is what is known of its cost: all with   *)
(* the last kind, nothing or all with the second, but the frozen programs do   *)
(* not look then.  What is not known may have been billed all the same.        *)
Fails(i, stage, price, told) ==
  /\ Settle(i)
  /\ CASE stage = "validation" -> price > 0 /\ told = price
       [] stage = "mismatch" -> told \in (IF program \in {"frozen", "answers"} THEN {0} ELSE {0, price})
       [] OTHER -> told = 0
  /\ paid' = paid + price
  /\ halting' = (program # "history")
  /\ Save([checkpoint EXCEPT
            !.failed = @ \cup {i}, !.pending = @ \ {i}, !.cost[i] = told,
            !.status = CASE program = "answers" -> "running"
                         [] program = "history" /\ stage # "mismatch" -> "running"
                         [] program = "atomic" /\ stage = "provider" -> "provider"
                         [] OTHER -> "failed"])

-----------------------------------------------------------------------------
(* The process is lost.  What it had sent may have been billed, and the file   *)
(* it was writing is left unfinished: a temporary file, or with the Phase 4    *)
(* programs half of the file itself.                                           *)
Lost(bill) ==
  /\ at \notin {"ended", "lost", "refused"}
  /\ bill <= MaxCost * Cardinality(calling)
  /\ paid' = paid + bill
  /\ unfinished' \in {unfinished, at = "writing"}
  /\ at' = "lost" /\ step' = FirstFile
  /\ checkpoint' = Fresh /\ calling' = {} /\ halting' = FALSE
  /\ UNCHANGED <<program, predictions, failures, run, requests, resumes>>

(* No program goes on beside a file that it does not know, and a temporary     *)
(* file is one.  All but b1 compare the hashes.                                *)
FilesAgree ==
  /\ run # NoFile /\ ~unfinished
  /\ program # "history" => predictions = PredictionsOf(run) /\ failures = FailuresOf(run)

\* Mistake: What was pending when the process was lost is not counted as an attempt.
CarriedWithoutPending(c) ==
  [c EXCEPT !.failed = {}, !.pending = {},
            !.prior = [i \in Items |-> IF i \in c.failed THEN c.prior[i] + 1 ELSE c.prior[i]]]

(* What was pending or failed is kept as an earlier attempt.                   *)
Carried(c) ==
  [c EXCEPT !.failed = {}, !.pending = {},
            !.prior = [i \in Items |->
              IF i \in c.failed \cup c.pending THEN c.prior[i] + 1 ELSE c.prior[i]]]

MayResume ==
  /\ FilesAgree
  /\ CASE program = "atomic" -> run.status \in {"running", "provider"}
       [] program = "frozen" -> run.pending = {} /\ run.failed = {}
       [] program = "answers" -> run.pending = {}
       [] program = "history" ->
            run.status \in {"running", "provider"} /\ \A i \in run.failed : run.cost[i] = 0
       [] program = "input" -> run.failed = {}
       [] OTHER -> run.failed = {} /\ (Remaining(run) = {} => run.status = "completed")

Resume ==
  /\ at \in {"ended", "lost"} /\ resumes < MaxResumes
  /\ resumes' = resumes + 1
  /\ CASE ~MayResume ->
            at' = "refused" /\ UNCHANGED <<program, checkpoint, step, fileVars>>
       [] MayResume /\ run.status = "completed" ->
            at' = "ended" /\ UNCHANGED <<program, checkpoint, step, fileVars>>
       [] MayResume /\ run.status # "completed" /\ program \in {"atomic", "history"} ->
            Save([Carried(run) EXCEPT !.status = "running"])
       [] MayResume /\ run.status # "completed" /\ program \in {"frozen", "answers"} ->
            Save([run EXCEPT !.status = "running"])
       [] OTHER ->
            /\ checkpoint' = run /\ at' = "deciding"
            /\ UNCHANGED <<program, step, fileVars>>
  /\ halting' = FALSE
  /\ UNCHANGED <<calling, paid, requests>>

Over == at \in {"refused", "lost", "ended"} /\ UNCHANGED vars

Next ==
  \/ WriteFile \/ Completes \/ StopsAtLimit \/ Announce \/ Send
  \/ \E i \in Items, price \in 1..MaxCost : Succeeds(i, price)
  \/ \E i \in Items, stage \in {"provider", "mismatch", "validation"}, price \in 0..MaxCost :
       \E told \in 0..price : Fails(i, stage, price, told)
  \/ \E bill \in 0..MaxCost * Workers : Lost(bill)
  \/ Resume \/ Over

Spec == PaidRunInit /\ [][Next]_vars

-----------------------------------------------------------------------------
Statuses == {"running", "completed", "failed", "provider", "stopped"}
Checkpoints == [status : Statuses, done : SUBSET Items, failed : SUBSET Items,
                pending : SUBSET Items, cost : [Items -> 0..MaxCost],
                prior : [Items -> Nat]]

(* Types of the state, and a checkpoint never holds one request twice.         *)
PaidRunTypeOK ==
  /\ at \in {"writing", "deciding", "sending", "waiting", "ended", "lost", "refused"}
  /\ checkpoint \in Checkpoints
  /\ step \in {"predictions", "failures", "run"}
  /\ calling \subseteq Items /\ halting \in BOOLEAN /\ unfinished \in BOOLEAN
  /\ predictions \subseteq Items \X (0..MaxCost) /\ failures \subseteq Items
  /\ run = NoFile \/ run \in Checkpoints
  /\ {paid, resumes} \subseteq Nat /\ requests \in [Items -> Nat]
  /\ \A c \in {checkpoint, run} \ {NoFile} :
       c.done \cap c.failed = {} /\ (c.done \cup c.failed) \cap c.pending = {}

(* What was approved is kept however often the program is lost and resumed:    *)
(* the money the provider took never exceeds the limit, the stored record of   *)
(* run_atomic never counts less than was taken, and "at most the retry count   *)
(* stated in the approval" holds over all processes; the frozen programs allow *)
(* no retry at all.                                                            *)
ApprovalIsKept ==
  /\ PaidRunTypeOK
  /\ program \in {"atomic", "frozen"} => paid <= Cap
  /\ program = "atomic" /\ run # NoFile => paid <= Booked(run)
  /\ program = "atomic" =>
       /\ Total(requests, Items) <= MaxAttempts
       /\ Total([i \in Items |-> IF requests[i] > 1 THEN requests[i] - 1 ELSE 0], Items) <= MaxRetries
  /\ program \in {"frozen", "answers"} => \A i \in Items : requests[i] <= 1

(* "Never replay successful or validation-failed cases": what a stored record  *)
(* counts as done keeps its prediction, and no request whose answer it counts  *)
(* is sent again.                                                              *)
SuccessIsFinal ==
  [][run # NoFile =>
       /\ \A i \in run.done : i \in run'.done /\ run'.cost[i] = run.cost[i]
       /\ \A i \in Items :
            i \in run.done \/ (i \in run.failed /\ run.cost[i] > 0) => requests'[i] = requests[i]]_vars
=============================================================================
