------------------------------- MODULE Pipeline -------------------------------
(* run_pipeline (src/evaluation/qwen_pipeline.py) with JarvisManager and       *)
(* BudgetWatchdog (qwen_lifecycle.py): one rented machine is created, set up,   *)
(* used for the batches of all stages and destroyed.  Three kinds of thread     *)
(* meet in cleanup: the main thread, the signal trap that runs on top of it,    *)
(* and the watchdogs of the budget.  The machine is external: commands on it    *)
(* may fail, it is a spot instance that may vanish, and an accepted destroy may *)
(* take effect late.  Without the wrapper (qwen_execution.py main) one batch    *)
(* runs against a server that is there, and the process may be started again.  *)
(* A definition headed "Mistake" is a wrong version of a later one, not used.   *)
EXTENDS Execution, Sequences

CONSTANTS
  Batches,       \* sequence of [stage, jobs, strict]: strict batches must succeed whole
  MaxSignals,    \* bound: signals delivered
  MaxRestarts    \* bound: processes started again without the wrapper

ASSUME PipelineAssumption ==
  /\ Batches \in Seq([stage : Nat, jobs : SUBSET Jobs, strict : BOOLEAN])
  /\ Batches # <<>>
  /\ \A i, k \in DOMAIN Batches : i # k => Batches[i].jobs \cap Batches[k].jobs = {}
  /\ UNION {Batches[i].jobs : i \in DOMAIN Batches} = Jobs
  /\ MaxSignals \in Nat /\ MaxRestarts \in Nat

VARIABLES
  wrapped,    \* FALSE: the command line of qwen_execution.py
  at,         \* where the main thread is
  raising,    \* an exception is on its way out of the main thread
  batch,      \* index of the current batch
  sealed,     \* batches with a manifest
  over,       \* assert_cleanup_safe of the current budget fails
  instance,   \* the machine: "none", "live", "ending" (destroy accepted), "gone"
  recorded,   \* JarvisManager.machine_id is set
  handlers,   \* the trap is installed
  frame,      \* thread -> its step in cleanup, "none" outside it
  fired,      \* watchdogs that have called cleanup
  verified,   \* _cleaned, set with the event destruction_verified
  status,     \* summary["status"]
  signals, restarts,
  refused,    \* some destroy command failed or, without the trap, was interrupted
  disturbed   \* a call failed because the machine was not there

machineVars == <<instance, recorded, handlers, frame, fired, verified, refused>>
mainVars == <<wrapped, at, raising, batch, sealed, over, status, signals, restarts>>
vars == <<executionVars, machineVars, mainVars, disturbed>>

(* Each stage has a watchdog for its batches and one for its last mirror.     *)
Stages == {Batches[i].stage : i \in DOMAIN Batches}
Dogs == {"batches", "mirror"} \X Stages
MainThread == <<"main", 0>>
Handler == <<"trap", 0>>
Threads == {MainThread, Handler} \cup Dogs
Frames == {"none", "lock", "destroy", "verify"}
Ended == {"ended", "killed"}

PipelineInit ==
  /\ ExecutionInit
  /\ wrapped \in BOOLEAN
  /\ at = IF wrapped THEN "creating" ELSE "submit"
  /\ raising = FALSE /\ batch = 1 /\ sealed = {} /\ over = FALSE
  /\ instance = IF wrapped THEN "none" ELSE "live"
  /\ recorded = FALSE /\ handlers = FALSE
  /\ frame = [t \in Threads |-> "none"]
  /\ fired = {} /\ verified = FALSE /\ status = "running"
  /\ signals = 0 /\ restarts = 0 /\ refused = FALSE /\ disturbed = FALSE

LastOfStage ==
  \A k \in DOMAIN Batches : k > batch => Batches[k].stage # Batches[batch].stage
Past(stage) == \A k \in DOMAIN Batches : k >= batch => Batches[k].stage # stage

(* The main thread runs its own code only when the trap is not running on it. *)
MainRuns(where) == at = where /\ frame[MainThread] = "none" /\ frame[Handler] = "none"

Goto(where, exception) == at' = where /\ raising' = exception

-----------------------------------------------------------------------------
(* The machine, which is not under src/.                                      *)
Preempt ==
  /\ wrapped /\ instance = "live" /\ at \notin Ended
  /\ instance' = "gone"
  /\ UNCHANGED <<executionVars, recorded, handlers, frame, fired, verified, refused, mainVars, disturbed>>

Vanish ==
  /\ instance = "ending"
  /\ instance' = "gone"
  /\ UNCHANGED <<executionVars, recorded, handlers, frame, fired, verified, refused, mainVars, disturbed>>

TimePasses ==
  /\ wrapped /\ recorded /\ ~over /\ at \notin Ended \cup {"creating", "installing"}
  /\ over' = TRUE
  /\ UNCHANGED <<executionVars, machineVars, wrapped, at, raising, batch, sealed, status, signals, restarts, disturbed>>

-----------------------------------------------------------------------------
(* JarvisManager.create: __enter__ has not returned, so __exit__ is not called *)
(* when it raises, and a machine without a readable answer is not recorded.   *)
Create(created, readable) ==
  /\ MainRuns("creating")
  /\ instance' = IF created THEN "live" ELSE "none"
  /\ recorded' = (created /\ readable)
  /\ IF recorded' THEN Goto("installing", FALSE) ELSE Goto("finally", TRUE)
  /\ UNCHANGED <<executionVars, handlers, frame, fired, verified, refused,
                 wrapped, batch, sealed, over, status, signals, restarts, disturbed>>

InstallSignalHandlers ==
  /\ MainRuns("installing")
  /\ handlers' = TRUE
  /\ Goto("setup", FALSE)
  /\ UNCHANGED <<executionVars, instance, recorded, frame, fired, verified, refused,
                 wrapped, batch, sealed, over, status, signals, restarts, disturbed>>

CommandMayWork == instance \in {"live", "ending"}

(* Installation, uploads, download of the model and start of the server.      *)
Setup(works) ==
  /\ MainRuns("setup")
  /\ works => CommandMayWork /\ ~over
  /\ IF works THEN Goto("submit", FALSE) ELSE Goto("exit", TRUE)
  /\ UNCHANGED <<executionVars, machineVars, wrapped, batch, sealed, over, status, signals, restarts, disturbed>>

SubmitBatch ==
  /\ MainRuns("submit")
  /\ Submit(Batches[batch].jobs)
  /\ Goto("waiting", FALSE)
  /\ UNCHANGED <<machineVars, wrapped, batch, sealed, over, status, signals, restarts, disturbed>>

(* as_completed raises at the first BudgetStop, and a trap raises anywhere;   *)
(* either way ThreadPoolExecutor.__exit__ waits for every submitted request.  *)
Failing == IF wrapped THEN "exit" ELSE "ended"

BatchDone ==
  /\ MainRuns("waiting") /\ Drained
  /\ IF raising \/ stopped # {} THEN Goto(Failing, TRUE) ELSE Goto("seal", FALSE)
  /\ UNCHANGED <<executionVars, machineVars, wrapped, batch, sealed, over, status, signals, restarts, disturbed>>

Seal ==
  /\ MainRuns("seal")
  /\ IF ~Complete(Batches[batch].jobs)
     THEN Goto(Failing, TRUE) /\ UNCHANGED sealed
     ELSE /\ sealed' = sealed \cup {batch}
          /\ IF wrapped THEN Goto("mirror", FALSE) ELSE Goto("ended", FALSE)
  /\ UNCHANGED <<executionVars, machineVars, wrapped, batch, over, status, signals, restarts, disturbed>>

(* mirror_artifacts runs two commands on the machine.                         *)
Mirror(works) ==
  /\ MainRuns("mirror")
  /\ works => CommandMayWork
  /\ IF ~works THEN Goto("exit", TRUE)
     ELSE IF LastOfStage THEN Goto("check", FALSE) ELSE Goto("gate", FALSE)
  /\ UNCHANGED <<executionVars, machineVars, wrapped, batch, sealed, over, status, signals, restarts, disturbed>>

\* Mistake: Nothing is done about a stage that ran over its time.
CleanupAlwaysSafe ==
  /\ MainRuns("check")
  /\ Goto("gate", FALSE)
  /\ UNCHANGED <<executionVars, machineVars, wrapped, batch, sealed, over, status, signals, restarts, disturbed>>

AssertCleanupSafe ==
  /\ MainRuns("check")
  /\ IF over THEN Goto("exit", TRUE) ELSE Goto("gate", FALSE)
  /\ UNCHANGED <<executionVars, machineVars, wrapped, batch, sealed, over, status, signals, restarts, disturbed>>

(* The gates of the stages also compare projected costs, so they may refuse a *)
(* batch that is whole; every stage starts a budget of its own.               *)
Gate(passes) ==
  /\ MainRuns("gate")
  /\ passes => (Batches[batch].strict => AllSucceeded(Batches[batch].jobs))
  /\ IF passes /\ batch < Len(Batches)
     THEN /\ Goto("submit", FALSE)
          /\ batch' = batch + 1
          /\ over' = (over /\ ~LastOfStage)
     ELSE Goto("exit", ~passes) /\ UNCHANGED <<batch, over>>
  /\ UNCHANGED <<executionVars, machineVars, wrapped, sealed, status, signals, restarts, disturbed>>

Begin(t) == frame' = [frame EXCEPT ![t] = "lock"]

(* JarvisManager.__exit__                                                     *)
ExitManager ==
  /\ MainRuns("exit")
  /\ Begin(MainThread)
  /\ UNCHANGED <<executionVars, instance, recorded, handlers, fired, verified, refused, mainVars, disturbed>>

Finally ==
  /\ MainRuns("finally")
  /\ status' = IF raising /\ status = "running" THEN "failed" ELSE status
  /\ IF recorded /\ ~verified THEN Begin(MainThread) /\ UNCHANGED at
                              ELSE at' = "ended" /\ UNCHANGED frame
  /\ UNCHANGED <<executionVars, instance, recorded, handlers, fired, verified, refused,
                 wrapped, raising, batch, sealed, over, signals, restarts, disturbed>>

-----------------------------------------------------------------------------
(* cleanup, by the main thread, the trap on top of it or a watchdog.  The lock *)
(* is reentrant: the trap shares it with the cleanup it interrupted.          *)
Owner(t) == IF t = Handler THEN MainThread ELSE t
Holds(t) == frame[t] \in {"destroy", "verify"}
LockFree(t) == \A u \in Threads : Holds(u) => Owner(u) = Owner(t)
Runs(t) == at \notin Ended /\ (t = MainThread => frame[Handler] = "none")

(* Where the main thread may go on when cleanup ends in it or an exception    *)
(* reaches it.  The first one in a batch makes it wait for the pool, another   *)
(* one ends this wait while the workers go on.                                *)
Landing ==
  CASE at = "waiting" /\ raising -> {"exit"}
    [] at = "waiting" /\ ~raising -> {"waiting"} \cup (IF stopped # {} THEN {"exit"} ELSE {})
    [] at = "finally" -> {IF frame[MainThread] = "none" THEN "finally" ELSE "ended"}
    [] at = "exit" -> {IF frame[MainThread] = "none" THEN "exit" ELSE "finally"}
    [] at \in {"creating", "installing"} -> {"finally"}
    [] OTHER -> {"exit"}

(* SystemExit or KeyboardInterrupt unwinds whatever the main thread was in.    *)
Thrown ==
  /\ frame' = [frame EXCEPT ![Handler] = "none", ![MainThread] = "none"]
  /\ at' \in Landing
  /\ raising' = TRUE
  /\ status' = IF at = "finally" THEN "failed" ELSE status

(* A watchdog just ends; the trap raises SystemExit in the main thread.       *)
Return(t, works) ==
  \/ /\ t \in Dogs
     /\ frame' = [frame EXCEPT ![t] = "none"]
     /\ UNCHANGED <<at, raising, status>>
  \/ /\ t = MainThread
     /\ frame' = [frame EXCEPT ![t] = "none"]
     /\ at' \in Landing
     /\ raising' = (raising \/ ~works)
     /\ status' = IF at = "exit" /\ works /\ ~raising THEN "completed" ELSE status
  \/ t = Handler /\ Thrown

(* Signal handlers are only put back in the main thread.                      *)
Restored(t) == handlers /\ t \in Dogs

Lock(t) ==
  /\ Runs(t) /\ frame[t] = "lock" /\ LockFree(t)
  /\ IF verified
     THEN Return(t, TRUE) /\ handlers' = Restored(t)
     ELSE /\ frame' = [frame EXCEPT ![t] = "destroy"]
          /\ UNCHANGED <<at, raising, status, handlers>>
  /\ UNCHANGED <<executionVars, instance, recorded, fired, verified, refused,
                 wrapped, batch, sealed, over, signals, restarts, disturbed>>

(* A destroy may be refused or time out, and a timed-out one may have worked. *)
Destroy(t, accepted) ==
  /\ Runs(t) /\ frame[t] = "destroy"
  /\ IF instance = "live"
     THEN instance' \in {"ending", "gone"} \cup (IF accepted THEN {} ELSE {"live"})
     ELSE UNCHANGED instance
  /\ refused' = (refused \/ ~accepted)
  /\ IF accepted
     THEN frame' = [frame EXCEPT ![t] = "verify"] /\ UNCHANGED <<at, raising, status>>
     ELSE Return(t, FALSE)
  /\ UNCHANGED <<executionVars, recorded, handlers, fired, verified,
                 wrapped, batch, sealed, over, signals, restarts, disturbed>>

\* Mistake: The listing is not looked at.
Unlisted == TRUE

(* jl list and jl get: either command may fail, and a machine that is still   *)
(* ending is listed.                                                          *)
Absent == instance = "gone"

Verify(t, works) ==
  /\ Runs(t) /\ frame[t] = "verify"
  /\ works => Absent
  /\ verified' = (verified \/ works)
  /\ handlers' = IF works THEN Restored(t) ELSE handlers
  /\ Return(t, works)
  /\ UNCHANGED <<executionVars, instance, recorded, fired, refused,
                 wrapped, batch, sealed, over, signals, restarts, disturbed>>

-----------------------------------------------------------------------------
(* A watchdog looks until its block is left, and the main thread waits half a  *)
(* minute for it there: the one of the mirror may find the time over after the *)
(* main thread did not, and clean up while the next stage begins.             *)
Watched(kind) ==
  IF kind = "batches"
  THEN at \in {"setup", "submit", "waiting", "seal"} \/ (at \in {"mirror", "gate"} /\ ~LastOfStage)
  ELSE at \in {"mirror", "check", "gate"} /\ LastOfStage

Fire(d) ==
  /\ wrapped /\ over /\ d \notin fired
  /\ d[2] = Batches[batch].stage /\ Watched(d[1])
  /\ fired' = fired \cup {d}
  /\ Begin(d)
  /\ UNCHANGED <<executionVars, instance, recorded, handlers, verified, refused, mainVars, disturbed>>

(* A signal may interrupt the trap of another one: the new trap cleans up, with *)
(* the lock that the interrupted one has, and its SystemExit ends both.        *)
Trap ==
  /\ wrapped /\ handlers /\ signals < MaxSignals /\ at \notin Ended
  /\ signals' = signals + 1
  /\ frame' = [frame EXCEPT ![Handler] = IF Holds(Handler) THEN "destroy" ELSE "lock"]
  /\ UNCHANGED <<executionVars, instance, recorded, handlers, fired, verified, refused,
                 wrapped, at, raising, batch, sealed, over, status, restarts, disturbed>>

(* Without the trap SIGTERM ends the process where it is: before the trap is  *)
(* installed the machine may or may not exist, and nothing destroys it.       *)
Terminate ==
  /\ wrapped /\ ~handlers /\ signals < MaxSignals /\ at \notin Ended
  /\ signals' = signals + 1
  /\ Goto("killed", TRUE)
  /\ ProcessLost
  /\ frame' = [t \in Threads |-> "none"]
  /\ instance' \in IF at = "creating" THEN {"none", "live"} ELSE {instance}
  /\ UNCHANGED <<recorded, handlers, fired, verified, refused,
                 wrapped, batch, sealed, over, status, restarts, disturbed>>

(* Without the trap SIGINT is a KeyboardInterrupt, before the trap is installed *)
(* and after cleanup has put the old handlers back.                           *)
Interrupt ==
  /\ wrapped /\ ~handlers /\ signals < MaxSignals /\ at \notin Ended
  /\ signals' = signals + 1
  /\ Thrown
  /\ instance' \in IF at = "creating" THEN {"none", "live"} ELSE {instance}
  /\ refused' = (refused \/ frame[MainThread] # "none")
  /\ UNCHANGED <<executionVars, recorded, handlers, fired, verified,
                 wrapped, batch, sealed, over, restarts, disturbed>>

Crash ==
  /\ ~wrapped /\ at \notin Ended
  /\ Goto("killed", TRUE)
  /\ ProcessLost
  /\ UNCHANGED <<machineVars, wrapped, batch, sealed, over, status, signals, restarts, disturbed>>

Restart ==
  /\ ~wrapped /\ at \in Ended /\ restarts < MaxRestarts
  /\ restarts' = restarts + 1
  /\ Goto("submit", FALSE)
  /\ ProcessLost
  /\ UNCHANGED <<machineVars, wrapped, batch, sealed, over, status, signals, disturbed>>

-----------------------------------------------------------------------------
(* The workers go on whatever the main thread and the machine do, also after  *)
(* run_pipeline has ended: the interpreter waits for them.                    *)
Alive == at # "killed"

WorkerTakes(j) == Alive /\ Take(j) /\ UNCHANGED <<machineVars, mainVars, disturbed>>
BudgetAdmits(j) == Alive /\ ~over /\ Admit(j) /\ UNCHANGED <<machineVars, mainVars, disturbed>>
BudgetRefuses(j) == Alive /\ wrapped /\ Refuse(j) /\ UNCHANGED <<machineVars, mainVars, disturbed>>

ProviderAnswers(j, answer) ==
  /\ Alive /\ CommandMayWork
  /\ Answered(j, answer)
  /\ UNCHANGED <<machineVars, mainVars, disturbed>>

NoBody(j) ==
  /\ Alive
  /\ TransportFails(j)
  /\ disturbed' = (disturbed \/ instance # "live")
  /\ UNCHANGED <<machineVars, mainVars>>

WorkerWrites(j) == Alive /\ WriteTerminal(j) /\ UNCHANGED <<machineVars, mainVars, disturbed>>

Main ==
  \/ \E created, readable \in BOOLEAN : Create(created, readable)
  \/ InstallSignalHandlers
  \/ \E works \in BOOLEAN : Setup(works) \/ Mirror(works) \/ Gate(works)
  \/ SubmitBatch \/ BatchDone \/ Seal \/ AssertCleanupSafe
  \/ ExitManager \/ Finally
Cleanup ==
  \E t \in Threads :
    \/ Lock(t)
    \/ \E works \in BOOLEAN : Destroy(t, works) \/ Verify(t, works)
Work ==
  \E j \in Jobs :
    \/ WorkerTakes(j) \/ BudgetAdmits(j) \/ BudgetRefuses(j)
    \/ \E answer \in {"succeeded", "failed"} : ProviderAnswers(j, answer)
    \/ NoBody(j) \/ WorkerWrites(j)
Events ==
  \/ Preempt \/ Vanish \/ TimePasses
  \/ Trap \/ Terminate \/ Interrupt \/ Crash \/ Restart
  \/ \E d \in Dogs : Fire(d)
Stopped == at \in Ended /\ UNCHANGED vars

Next == Main \/ Cleanup \/ Work \/ Events \/ Stopped
Spec == PipelineInit /\ [][Next]_vars

(* Commands time out after 30 minutes and provider calls have a timeout, so   *)
(* every thread that can go on does.                                          *)
FairSpec == Spec /\ WF_vars(Main) /\ WF_vars(Cleanup) /\ WF_vars(Work)
-----------------------------------------------------------------------------
(* Types of the state of the pipeline.                                         *)
PipelineTypeOK ==
  /\ ExecutionTypeOK
  /\ wrapped \in BOOLEAN /\ raising \in BOOLEAN /\ over \in BOOLEAN
  /\ recorded \in BOOLEAN /\ handlers \in BOOLEAN /\ verified \in BOOLEAN
  /\ refused \in BOOLEAN /\ disturbed \in BOOLEAN
  /\ at \in Ended \cup {"creating", "installing", "setup", "submit", "waiting", "seal",
                        "mirror", "check", "gate", "exit", "finally"}
  /\ batch \in DOMAIN Batches /\ sealed \subseteq DOMAIN Batches
  /\ instance \in {"none", "live", "ending", "gone"}
  /\ frame \in [Threads -> Frames] /\ fired \subseteq Dogs
  /\ status \in {"running", "completed", "failed"}
  /\ signals \in 0..MaxSignals /\ restarts \in 0..MaxRestarts

(* The provider is called at most twice for a request, and again for at most   *)
(* as many requests as the one ledger of the pipeline grants retries, whatever *)
(* the threads, the budget and the trap do; a terminal record counts the calls *)
(* that were made for it.                                                      *)
CallsAreBounded ==
  /\ PipelineTypeOK
  /\ wrapped =>
    /\ \A j \in Jobs : calls[j] <= 2
    /\ Cardinality({j \in Jobs : calls[j] = 2}) <= MaxTransportRetries
    /\ \A j \in Jobs : records[j] # NoRecord => records[j].attempts = calls[j]

(* A request with a terminal record is never called again and its record never *)
(* changes, in no later batch, process or trap.                                *)
TerminalIsFinal ==
  [][\A j \in Jobs : records[j] # NoRecord => records'[j] = records[j] /\ calls'[j] = calls[j]]_vars

(* A pipeline that reports "completed" has sealed every batch and verified the  *)
(* destruction; no watchdog of a stage's batches fired.  Neither a lost spot   *)
(* machine nor a signal nor a watchdog before the check at the end of its      *)
(* stage can fail a request of it: if one failed because the machine was not   *)
(* live, then the mirror's watchdog of an earlier stage fired after that check. *)
CompletedIsUndisturbed ==
  status = "completed" =>
    /\ sealed = DOMAIN Batches /\ verified
    /\ \A d \in fired : d[1] = "mirror"
    /\ disturbed => \E d \in fired : Past(d[2])

(* A receipt that says the destruction is verified tells the truth, and the    *)
(* program never ends by itself with the recorded machine running unless a     *)
(* destroy command failed, or a second signal interrupted the one that a first *)
(* signal led to before the trap was installed, however traps, watchdogs and   *)
(* exits overlap.                                                              *)
DestructionIsVerified ==
  /\ verified => instance = "gone"
  /\ at = "ended" /\ recorded /\ instance = "live" => refused

(* The program ends: no thread waits for the cleanup lock or the pool forever. *)
PipelineEnds == <>(at \in Ended)
=============================================================================
