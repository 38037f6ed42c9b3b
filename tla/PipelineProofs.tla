---------------------------- MODULE PipelineProofs ----------------------------
(* Theorems of module Pipeline, for any requests, batches, pool size and number *)
(* of signals.  The invariant has a part for each thing that threads share:     *)
(* the request files, the threads inside cleanup, the receipt of the machine,   *)
(* and what the main thread has finished.                                       *)
EXTENDS Pipeline, FiniteSetTheorems, TLAPS

-----------------------------------------------------------------------------
(* The pool works only while the main thread waits for it, or after an         *)
(* exception has made it leave the wait; no worker has a request with a record. *)
Left == wrapped /\ raising /\ at \in {"exit", "finally", "ended"}

PoolIsOwned ==
  /\ \A j \in Jobs : records[j] # NoRecord => phase[j] = "idle"
  /\ at # "waiting" /\ ~Left => \A j \in Jobs : phase[j] = "idle"

(* A thread is in cleanup only after the trap is installed; the main thread    *)
(* enters it from two places; without the wrapper there is none.               *)
FramesAreOwned ==
  /\ frame \in [Threads -> Frames]
  /\ at \in {"creating", "installing"} => ~handlers /\ \A t \in Threads : frame[t] = "none"
  /\ frame[MainThread] # "none" => at \in {"exit", "finally"} \cup Ended
  /\ ~wrapped => ~recorded /\ (\A t \in Threads : frame[t] = "none")
                 /\ at \in {"submit", "waiting", "seal"} \cup Ended

(* A thread that verifies has had its destroy accepted.                        *)
ReceiptIsTrue ==
  /\ at = "creating" => ~verified
  /\ verified => instance = "gone"
  /\ \A t \in Threads : frame[t] = "verify" => instance # "live"
  /\ at = "ended" /\ recorded /\ instance = "live" => refused

(* The stage in progress will not end well: it is past its time, and the check *)
(* at its end is still to come.                                                *)
Overrun ==
  /\ over
  /\ \/ at \in {"setup", "submit", "waiting", "seal", "mirror", "check"}
     \/ at = "gate" /\ ~LastOfStage

(* The watchdog of a mirror that fired after the check of its stage.           *)
Late(d) ==
  /\ d[1] = "mirror"
  /\ \/ Past(d[2])
     \/ at = "gate" /\ LastOfStage /\ d[2] = Batches[batch].stage
     \/ at \in {"exit", "finally"} \cup Ended

OnlyLateFired == \A d \in fired : Late(d)
AnEarlierFired == \E d \in fired : Past(d[2])

(* A watchdog that fired, unless it was late, and a machine that somebody is   *)
(* destroying, or a call that failed on it, unless a late watchdog is the      *)
(* reason, stop the pipeline later, if nothing else does.                      *)
DisturbanceStops ==
  /\ raising => at \in {"waiting", "exit", "finally"} \cup Ended
  /\ instance \in {"none", "live", "ending", "gone"}
  /\ instance = "none" => at \in {"creating", "finally"} \cup Ended
  /\ fired \subseteq Dogs /\ \A d \in Dogs : frame[d] # "none" => d \in fired
  /\ ~wrapped => instance = "live" /\ fired = {}
  /\ Overrun \/ raising \/ OnlyLateFired
  /\ instance = "ending" =>
       Overrun \/ raising \/ frame[Handler] # "none" \/ frame[MainThread] # "none" \/ fired # {}
  /\ wrapped /\ disturbed =>
       \/ Overrun \/ raising \/ frame[Handler] # "none" \/ AnEarlierFired
       \/ instance = "gone" /\ at \in {"waiting", "seal", "mirror"}

BatchesInOrder ==
  /\ batch \in DOMAIN Batches
  /\ wrapped /\ at \in {"creating", "installing", "setup", "submit", "waiting", "seal"} =>
       sealed = 1 .. batch - 1
  /\ at \in {"mirror", "check", "gate"} => sealed = 1 .. batch
  /\ at = "exit" /\ ~raising => sealed = DOMAIN Batches
  /\ status = "completed" =>
       /\ wrapped /\ verified /\ sealed = DOMAIN Batches /\ at \in {"finally"} \cup Ended
       /\ frame[MainThread] = "none" /\ (raising => at = "killed")
       /\ OnlyLateFired /\ (disturbed => AnEarlierFired)

-----------------------------------------------------------------------------
LEMMA PoolTypes == ExecutionInit => ExecutionTypeOK
  BY ExecutionAssumption DEF ExecutionInit, ExecutionTypeOK, Phases

LEMMA PoolTypeStep == ExecutionTypeOK /\ [Next]_vars => ExecutionTypeOK'
<1> SUFFICES ASSUME ExecutionTypeOK, [Next]_vars PROVE ExecutionTypeOK'
  OBVIOUS
<1> USE ExecutionAssumption DEF ExecutionTypeOK
<1>1. ASSUME NEW B, Submit(B) PROVE ExecutionTypeOK'
  BY <1>1 DEF Submit, Phases
<1>2. ASSUME NEW j \in Jobs, Take(j) \/ Admit(j) \/ Refuse(j) PROVE ExecutionTypeOK'
  <2>1. phase' \in [Jobs -> Phases]
    BY <1>2 DEF Take, Admit, Refuse, Phases
  <2>2. calls' \in [Jobs -> Nat]
    BY <1>2 DEF Take, Admit, Refuse
  <2>3. stopped' \subseteq Jobs
    BY <1>2 DEF Take, Admit, Refuse
  <2> QED BY <1>2, <2>1, <2>2, <2>3 DEF Take, Admit, Refuse
<1>3. ASSUME NEW j \in Jobs, NEW status_ \in {"succeeded", "failed"}, phase[j] = "calling",
             Conclude(j, status_)
      PROVE ExecutionTypeOK'
  <2>1. [status |-> status_, attempts |-> retries[j] + 1] \in Terminal
    BY DEF Terminal
  <2> QED BY <1>3, <2>1 DEF Conclude, Phases
<1>4. ASSUME NEW j \in Jobs, TransportFails(j) PROVE ExecutionTypeOK'
  <2>1. CASE MayRetry(j)
    <3>1. phase' \in [Jobs -> Phases] /\ retries' \in [Jobs -> 0..1]
      BY <1>4, <2>1 DEF TransportFails, Retry, Phases
    <3>2. used' \in 0..MaxTransportRetries
      BY <1>4, <2>1 DEF TransportFails, MayRetry, Retry
    <3> QED BY <1>4, <2>1, <3>1, <3>2 DEF TransportFails, Retry
  <2> QED BY <1>3, <1>4, <2>1 DEF TransportFails
<1>5. ASSUME NEW j \in Jobs, WriteTerminal(j) PROVE ExecutionTypeOK'
  BY <1>5 DEF WriteTerminal, Phases
<1>6. ASSUME ProcessLost PROVE ExecutionTypeOK'
  BY <1>6 DEF ProcessLost, Phases
<1>7. ASSUME UNCHANGED executionVars PROVE ExecutionTypeOK'
  BY <1>7 DEF executionVars
<1>8. ASSUME SubmitBatch PROVE ExecutionTypeOK'
  BY <1>1, <1>8 DEF SubmitBatch
<1>9. CASE Work
  BY <1>9, <1>2, <1>3, <1>4, <1>5
     DEF Work, WorkerTakes, BudgetAdmits, BudgetRefuses, ProviderAnswers, Answered, NoBody, WorkerWrites
<1>10. CASE Main
  BY <1>10, <1>7, <1>8 DEF Main, Create, InstallSignalHandlers, Setup, Mirror, Gate, BatchDone, Seal,
     AssertCleanupSafe, ExitManager, Finally
<1>11. CASE Cleanup
  BY <1>11, <1>7 DEF Cleanup, Lock, Destroy, Verify
<1>12. CASE Events
  BY <1>12, <1>6, <1>7 DEF Events, Preempt, Vanish, TimePasses, Trap, Terminate, Interrupt, Crash,
     Restart, Fire
<1> QED BY <1>7, <1>9, <1>10, <1>11, <1>12 DEF Next, Stopped, vars

-----------------------------------------------------------------------------
LEMMA ThreadsDiffer ==
  /\ Threads = {MainThread, Handler} \cup Dogs
  /\ MainThread # Handler /\ MainThread \notin Dogs /\ Handler \notin Dogs
<1>1. "main" \notin {"batches", "mirror"} /\ "trap" \notin {"batches", "mirror"} /\ "main" # "trap"
  OBVIOUS
<1> QED BY <1>1 DEF Threads, MainThread, Handler, Dogs

(* What every way out of cleanup has in common.                                *)
LEMMA Returns ==
  ASSUME FramesAreOwned, NEW t \in Threads, NEW works \in BOOLEAN, Return(t, works), Runs(t),
         frame[t] # "none"
  PROVE  /\ frame' \in [Threads -> Frames] /\ frame'[t] = "none"
         /\ \A u \in Threads : frame'[u] \in {"none", frame[u]}
         /\ t \in Dogs => UNCHANGED <<at, raising, status>>
         /\ t \notin Dogs => /\ at' \in Landing /\ frame'[MainThread] = "none"
                             /\ raising => raising'
         /\ t = Handler => raising' /\ (status' = status \/ status' = "failed")
         /\ t = MainThread => /\ at \in {"exit", "finally"} /\ frame[Handler] = "none"
                             /\ at' \in {"finally", "ended"} /\ raising' = (raising \/ ~works)
                             /\ \/ status' = status
                                \/ status' = "completed" /\ at = "exit" /\ works /\ ~raising
<1> USE ThreadsDiffer DEF FramesAreOwned, Frames, Ended
<1>1. CASE t \in Dogs
  BY <1>1 DEF Return
<1>2. CASE t = MainThread
  BY <1>2 DEF Return, Landing, Runs
<1>3. CASE t = Handler
  BY <1>3 DEF Return, Thrown
<1> QED BY <1>1, <1>2, <1>3

(* Where the main thread lands: it never goes back to its work, and leaves the *)
(* wait for the pool only with an exception.                                   *)
LEMMA Lands ==
  ASSUME at \notin Ended, NEW place \in Landing
  PROVE  /\ place \in {"waiting", "exit", "finally", "ended"}
         /\ place = "waiting" => at = "waiting"
         /\ at = "finally" => place \in {"finally", "ended"}
         /\ at \in {"creating", "installing"} => place = "finally"
         /\ at \notin {"creating", "installing", "finally"} => place # "ended"
BY DEF Landing, Ended

LEMMA PoolStep ==
  ExecutionTypeOK /\ PoolIsOwned /\ FramesAreOwned /\ DisturbanceStops /\ [Next]_vars => PoolIsOwned'
<1> SUFFICES ASSUME ExecutionTypeOK, PoolIsOwned, FramesAreOwned, DisturbanceStops, [Next]_vars
             PROVE  PoolIsOwned'
  OBVIOUS
<1> USE DEF PoolIsOwned, ExecutionTypeOK
<1>1. CASE SubmitBatch
  BY <1>1 DEF SubmitBatch, Submit, Missing, TerminalRecords, MainRuns, Goto
<1>2. CASE BatchDone
  BY <1>2 DEF BatchDone, Drained, Queued, Busy, Phases, executionVars
<1>3. ASSUME Main, ~SubmitBatch, ~BatchDone PROVE PoolIsOwned'
  BY <1>3 DEF Main, Create, InstallSignalHandlers, Setup, Mirror, Gate, Seal, AssertCleanupSafe,
     ExitManager, Finally, MainRuns, Goto, Failing, executionVars, mainVars, Left
<1>4. ASSUME UNCHANGED <<executionVars, wrapped>>, wrapped, at \notin Ended, at' \in Landing,
             raising \/ at = "waiting" => raising' \/ at' = "waiting"
      PROVE PoolIsOwned'
  <2>1. UNCHANGED <<records, phase>>
    BY <1>4 DEF executionVars
  <2>2. CASE at = "waiting" \/ Left
    BY <1>4, <2>1, <2>2, Lands DEF Left
  <2>3. CASE ~(at = "waiting" \/ Left)
    BY <2>1, <2>3
  <2> QED BY <2>2, <2>3
<1>5. CASE Cleanup
  <2> SUFFICES ASSUME NEW t \in Threads, NEW works \in BOOLEAN,
                      Lock(t) \/ Destroy(t, works) \/ Verify(t, works)
               PROVE  PoolIsOwned'
    BY <1>5 DEF Cleanup
  <2>1. UNCHANGED <<executionVars, wrapped>> /\ Runs(t) /\ frame[t] # "none" /\ wrapped
    BY DEF Lock, Destroy, Verify, FramesAreOwned
  <2>2. UNCHANGED <<at, raising>> \/ \E b \in BOOLEAN : Return(t, b)
    BY DEF Lock, Destroy, Verify
  <2>3. CASE UNCHANGED <<at, raising>>
    BY <2>1, <2>3 DEF executionVars, Left
  <2>4. CASE t \notin Dogs /\ \E b \in BOOLEAN : Return(t, b)
    <3>1. at' \in Landing /\ at \notin Ended
      BY <2>1, <2>4, Returns DEF Runs
    <3>2. raising \/ at = "waiting" => raising'
      BY <2>1, <2>4, Returns, ThreadsDiffer
    <3> QED BY <1>4, <2>1, <3>1, <3>2
  <2>5. t \in Dogs /\ (\E b \in BOOLEAN : Return(t, b)) => UNCHANGED <<at, raising>>
    BY <2>1, Returns
  <2> QED BY <2>2, <2>3, <2>4, <2>5
<1>6. CASE Work
  <2>1. ASSUME NEW j \in Jobs, WorkerTakes(j) \/ BudgetAdmits(j) \/ BudgetRefuses(j) \/ WorkerWrites(j)
        PROVE PoolIsOwned'
    BY <2>1 DEF WorkerTakes, BudgetAdmits, BudgetRefuses, WorkerWrites, Take, Admit, Refuse,
       WriteTerminal, mainVars, Left
  <2>2. ASSUME NEW j \in Jobs, NEW answer \in {"succeeded", "failed"}, ProviderAnswers(j, answer)
        PROVE PoolIsOwned'
    BY <2>2 DEF ProviderAnswers, Answered, Conclude, mainVars, Left
  <2>3. ASSUME NEW j \in Jobs, NoBody(j) PROVE PoolIsOwned'
    BY <2>3 DEF NoBody, TransportFails, Conclude, Retry, mainVars, Left
  <2> QED BY <1>6, <2>1, <2>2, <2>3 DEF Work
<1>7. CASE Events
  <2>1. CASE Terminate \/ Crash \/ Restart
    BY <2>1 DEF Terminate, Crash, Restart, ProcessLost
  <2>2. CASE Interrupt
    <3>1. wrapped /\ at \notin Ended /\ at' \in Landing /\ raising' /\ UNCHANGED <<executionVars, wrapped>>
      BY <2>2 DEF Interrupt, Thrown
    <3> QED BY <1>4, <3>1
  <2> QED BY <1>7, <2>1, <2>2 DEF Events, Preempt, Vanish, TimePasses, Trap, Fire, executionVars, mainVars, Left
<1>8. CASE Stopped \/ UNCHANGED vars
  BY <1>8 DEF Stopped, vars, executionVars, mainVars, Left
<1> QED BY <1>1, <1>2, <1>3, <1>5, <1>6, <1>7, <1>8 DEF Next

-----------------------------------------------------------------------------
LEMMA FramesStep == FramesAreOwned /\ [Next]_vars => FramesAreOwned'
<1> SUFFICES ASSUME FramesAreOwned, [Next]_vars PROVE FramesAreOwned'
  OBVIOUS
<1> USE DEF FramesAreOwned, Ended, Frames
<1>1. CASE Main
  <2>1. CASE \E created, readable \in BOOLEAN : Create(created, readable)
    BY <2>1 DEF Create, MainRuns, Goto
  <2>2. CASE ExitManager \/ Finally
    BY <2>2, ThreadsDiffer DEF ExitManager, Finally, MainRuns, Begin, mainVars
  <2>3. CASE InstallSignalHandlers \/ SubmitBatch \/ BatchDone \/ Seal \/ AssertCleanupSafe
    BY <2>3 DEF InstallSignalHandlers, SubmitBatch, BatchDone, Seal, AssertCleanupSafe, MainRuns, Goto,
       Failing, machineVars
  <2>4. CASE \E works \in BOOLEAN : Setup(works) \/ Mirror(works) \/ Gate(works)
    BY <2>4 DEF Setup, Mirror, Gate, MainRuns, Goto, machineVars
  <2> QED BY <1>1, <2>1, <2>2, <2>3, <2>4 DEF Main
<1>2. CASE Cleanup
  <2> SUFFICES ASSUME NEW t \in Threads, NEW works \in BOOLEAN,
                      Lock(t) \/ Destroy(t, works) \/ Verify(t, works)
               PROVE  FramesAreOwned'
    BY <1>2 DEF Cleanup
  <2>1. /\ wrapped /\ wrapped' = wrapped /\ recorded' = recorded
        /\ at \notin {"creating", "installing"} \cup Ended /\ Runs(t) /\ frame[t] # "none"
    BY DEF Lock, Destroy, Verify, Runs
  <2>2. CASE \E b \in BOOLEAN : Return(t, b)
    <3>1. /\ frame' \in [Threads -> Frames] /\ \A u \in Threads : frame'[u] \in {"none", frame[u]}
          /\ at' = at \/ (at' \in Landing /\ frame'[MainThread] = "none")
      BY <2>1, <2>2, Returns DEF FramesAreOwned
    <3>2. at' \in Landing => at' \notin {"creating", "installing"}
      BY <2>1, Lands
    <3> QED BY <2>1, <3>1, <3>2, ThreadsDiffer
  <2>3. CASE at' = at /\ \E step \in Frames : frame' = [frame EXCEPT ![t] = step] /\ frame[t] # "none"
    BY <2>1, <2>3
  <2> QED BY <2>2, <2>3 DEF Lock, Destroy, Verify
<1>3. CASE Work
  BY <1>3 DEF Work, WorkerTakes, BudgetAdmits, BudgetRefuses, ProviderAnswers, NoBody, WorkerWrites,
     machineVars, mainVars
<1>4. CASE Events
  <2>1. CASE Trap
    BY <2>1, ThreadsDiffer DEF Trap
  <2>2. CASE \E d \in Dogs : Fire(d)
    BY <2>2, ThreadsDiffer DEF Fire, Watched, Begin, mainVars
  <2>3. CASE Terminate
    BY <2>3 DEF Terminate, Goto
  <2>4. CASE Interrupt
    <3>1. /\ wrapped /\ wrapped' = wrapped /\ at \notin Ended /\ at' \in Landing
          /\ frame' = [frame EXCEPT ![Handler] = "none", ![MainThread] = "none"]
      BY <2>4 DEF Interrupt, Thrown
    <3>2. at' \notin {"creating", "installing"}
      BY <3>1, Lands
    <3> QED BY <3>1, <3>2, ThreadsDiffer
  <2>5. CASE Crash
    BY <2>5 DEF Crash, Goto, machineVars
  <2>6. CASE Restart
    BY <2>6, ThreadsDiffer DEF Restart, Goto, machineVars
  <2>7. CASE Preempt \/ Vanish \/ TimePasses
    BY <2>7 DEF Preempt, Vanish, TimePasses, machineVars, mainVars
  <2> QED BY <1>4, <2>1, <2>2, <2>3, <2>4, <2>5, <2>6, <2>7 DEF Events
<1>5. CASE Stopped \/ UNCHANGED vars
  BY <1>5 DEF Stopped, vars, machineVars, mainVars
<1> QED BY <1>1, <1>2, <1>3, <1>4, <1>5 DEF Next

(* A destroy command that is accepted leaves no live machine, and afterwards    *)
(* nothing creates one.                                                        *)
LEMMA ReceiptStep == FramesAreOwned /\ ReceiptIsTrue /\ [Next]_vars => ReceiptIsTrue'
<1> SUFFICES ASSUME FramesAreOwned, ReceiptIsTrue, [Next]_vars PROVE ReceiptIsTrue'
  OBVIOUS
<1> USE DEF FramesAreOwned, ReceiptIsTrue, Ended
<1>1. CASE Main
  <2>1. CASE \E created, readable \in BOOLEAN : Create(created, readable)
    BY <2>1 DEF Create, MainRuns, Goto
  <2>2. CASE ExitManager
    BY <2>2, ThreadsDiffer DEF ExitManager, MainRuns, Begin, mainVars
  <2>3. CASE Finally
    BY <2>3, ThreadsDiffer DEF Finally, MainRuns, Begin, mainVars
  <2>4. CASE InstallSignalHandlers \/ SubmitBatch \/ BatchDone \/ Seal \/ AssertCleanupSafe
    BY <2>4 DEF InstallSignalHandlers, SubmitBatch, BatchDone, Seal, AssertCleanupSafe, MainRuns, Goto,
       Failing, machineVars
  <2>5. CASE \E works \in BOOLEAN : Setup(works) \/ Mirror(works) \/ Gate(works)
    BY <2>5 DEF Setup, Mirror, Gate, MainRuns, Goto, machineVars
  <2> QED BY <1>1, <2>1, <2>2, <2>3, <2>4, <2>5 DEF Main
<1>2. CASE Cleanup
  <2>1. PICK t \in Threads : Lock(t) \/ \E works \in BOOLEAN : Destroy(t, works) \/ Verify(t, works)
    BY <1>2 DEF Cleanup
  <2>2. recorded' = recorded /\ at \notin {"creating", "ended"} /\ frame[t] # "none" /\ Runs(t)
    BY <2>1 DEF Lock, Destroy, Verify, Runs
  <2>3. ASSUME NEW b \in BOOLEAN, Return(t, b)
        PROVE  at' # "creating" /\ \A u \in Threads : frame'[u] = "verify" => frame[u] = "verify"
    <3>1. \A u \in Threads : frame'[u] \in {"none", frame[u]}
      BY <2>2, <2>3, Returns
    <3>2. at' # "creating"
      <4>1. at' = at \/ at' \in Landing
        BY <2>2, <2>3, Returns
      <4> QED BY <2>2, <4>1, Lands DEF Runs
    <3> QED BY <3>1, <3>2
  <2>4. CASE Lock(t)
    <3>1. CASE verified
      BY <2>2, <2>3, <2>4, <3>1 DEF Lock
    <3>2. CASE ~verified
      BY <2>2, <2>4, <3>2 DEF Lock
    <3> QED BY <3>1, <3>2
  <2>5. ASSUME NEW works \in BOOLEAN, Destroy(t, works)
        PROVE  ReceiptIsTrue'
    <3>1. CASE works
      BY <2>2, <2>5, <3>1 DEF Destroy
    <3>2. CASE ~works
      BY <2>2, <2>3, <2>5, <3>2 DEF Destroy
    <3> QED BY <3>1, <3>2
  <2>6. ASSUME NEW works \in BOOLEAN, Verify(t, works)
        PROVE  ReceiptIsTrue'
    BY <2>2, <2>3, <2>6 DEF Verify, Absent
  <2> QED BY <2>1, <2>4, <2>5, <2>6
<1>3. CASE Work
  BY <1>3 DEF Work, WorkerTakes, BudgetAdmits, BudgetRefuses, ProviderAnswers, NoBody, WorkerWrites,
     machineVars, mainVars
<1>4. CASE Events
  <2>1. CASE Trap
    BY <2>1, ThreadsDiffer DEF Trap, Holds
  <2>2. CASE \E d \in Dogs : Fire(d)
    BY <2>2, ThreadsDiffer DEF Fire, Begin, mainVars
  <2>3. CASE Terminate
    BY <2>3 DEF Terminate, Goto
  <2>4. CASE Interrupt
    <3>1. /\ wrapped /\ at \notin Ended /\ at' \in Landing /\ UNCHANGED <<recorded, verified>>
          /\ frame' = [frame EXCEPT ![Handler] = "none", ![MainThread] = "none"]
          /\ refused' = (refused \/ frame[MainThread] # "none")
          /\ at # "creating" => instance' = instance
      BY <2>4 DEF Interrupt, Thrown
    <3>2. at' # "creating" /\ (at' = "ended" => at = "finally" /\ frame[MainThread] # "none")
      BY <3>1 DEF Landing
    <3>3. \A t \in Threads : frame'[t] = "verify" => frame[t] = "verify" /\ at # "creating"
      BY <3>1, ThreadsDiffer
    <3> QED BY <3>1, <3>2, <3>3
  <2>5. CASE Crash \/ Restart
    BY <2>5 DEF Crash, Restart, Goto, machineVars
  <2>6. CASE Preempt \/ Vanish \/ TimePasses
    BY <2>6 DEF Preempt, Vanish, TimePasses, machineVars, mainVars
  <2> QED BY <1>4, <2>1, <2>2, <2>3, <2>4, <2>5, <2>6 DEF Events
<1>5. CASE Stopped \/ UNCHANGED vars
  BY <1>5 DEF Stopped, vars, machineVars, mainVars
<1> QED BY <1>1, <1>2, <1>3, <1>4, <1>5 DEF Next

-----------------------------------------------------------------------------
LEMMA BatchNumbers ==
  /\ Len(Batches) \in Nat \ {0} /\ DOMAIN Batches = 1 .. Len(Batches)
  /\ BatchesInOrder => batch \in 1 .. Len(Batches)
<1>1. Batches \in Seq([stage : Nat, jobs : SUBSET Jobs, strict : BOOLEAN]) /\ Batches # <<>>
  BY PipelineAssumption
<1> QED BY <1>1 DEF BatchesInOrder

(* What is known of the watchdogs that fired stays while the batch does.       *)
LEMMA FiredStay ==
  ASSUME UNCHANGED <<batch, fired>>,
         \/ at' = at \/ at' \in {"exit", "finally"} \cup Ended
         \/ at \notin {"gate", "exit", "finally"} \cup Ended
  PROVE  /\ OnlyLateFired => OnlyLateFired'
         /\ AnEarlierFired => AnEarlierFired'
         /\ LastOfStage' <=> LastOfStage
BY DEF OnlyLateFired, AnEarlierFired, Late, Past, LastOfStage

LEMMA LateIsEarlier ==
  ASSUME OnlyLateFired, fired # {}, at \notin {"gate", "exit", "finally"} \cup Ended
  PROVE  AnEarlierFired
BY DEF OnlyLateFired, AnEarlierFired, Late

LEMMA NextStageKeepsFired ==
  ASSUME at = "gate", batch \in Nat, batch' = batch + 1, fired' = fired, DOMAIN Batches \subseteq Nat
  PROVE  /\ OnlyLateFired => OnlyLateFired'
         /\ AnEarlierFired => AnEarlierFired'
<1>1. \A stage : Past(stage) => Past(stage)'
  BY DEF Past
<1>2. \A stage : LastOfStage /\ stage = Batches[batch].stage => Past(stage)'
  BY DEF LastOfStage, Past
<1>3. \A d \in fired : Late(d) => Late(d)'
  BY <1>1, <1>2 DEF Late, Ended
<1> QED BY <1>1, <1>3 DEF OnlyLateFired, AnEarlierFired

(* A step of the main thread that is not the last of its stage.                *)
LEMMA MainMoves ==
  ASSUME DisturbanceStops, UNCHANGED <<machineVars, wrapped, batch, over, disturbed>>,
         at \notin {"gate", "exit", "finally"} \cup Ended,
         frame[MainThread] = "none", frame[Handler] = "none",
         raising => raising',
         raising' => at' \in {"waiting", "exit", "finally"} \cup Ended,
         instance = "none" => at' \in {"creating", "finally"} \cup Ended,
         wrapped /\ ~raising' => at # "check" \/ ~over,
         wrapped /\ ~raising' =>
           \/ at' \in {"setup", "submit", "waiting", "seal", "mirror", "check"}
           \/ at' = "gate" /\ (over => ~LastOfStage),
         wrapped /\ ~raising' /\ instance = "gone" /\ at \in {"waiting", "seal", "mirror"}
           => at' \in {"waiting", "seal", "mirror"}
  PROVE  DisturbanceStops'
<1>1. /\ OnlyLateFired => OnlyLateFired'
      /\ AnEarlierFired => AnEarlierFired'
      /\ LastOfStage' <=> LastOfStage
  BY FiredStay DEF machineVars, Ended
<1>2. OnlyLateFired' \/ fired # {}
  BY DEF OnlyLateFired, machineVars
<1> QED BY <1>1, <1>2 DEF DisturbanceStops, Overrun, machineVars, Ended

(* A step that leaves the main thread where it is.                             *)
LEMMA OthersMove ==
  ASSUME DisturbanceStops, UNCHANGED <<wrapped, at, raising, batch, fired>>, over => over',
         disturbed' = disturbed, \A d \in Dogs : frame'[d] # "none" => frame[d] # "none",
         frame[Handler] # "none" => frame'[Handler] # "none",
         instance' = "ending" /\ frame[MainThread] # "none"
           => frame'[MainThread] # "none" \/ frame'[Handler] # "none",
         instance' \in {"none", "live", "ending", "gone"}, instance' = "none" => instance = "none",
         ~wrapped => instance' = instance,
         instance' = "ending" => instance = "ending" \/ fired # {} \/ raising
                                   \/ frame'[Handler] # "none" \/ frame'[MainThread] # "none",
         instance = "gone" => instance' = "gone"
  PROVE  DisturbanceStops'
<1>1. /\ OnlyLateFired => OnlyLateFired'
      /\ AnEarlierFired => AnEarlierFired'
      /\ LastOfStage' <=> LastOfStage
  BY FiredStay
<1> QED BY <1>1 DEF DisturbanceStops, Overrun

(* An exception on its way out of the main thread stops everything.            *)
LEMMA RaisingStops ==
  ASSUME DisturbanceStops, UNCHANGED <<wrapped, fired>>, raising',
         at' \in {"waiting", "exit", "finally"} \cup Ended,
         \A d \in Dogs : frame'[d] # "none" => frame[d] # "none",
         instance' \in {"none", "live", "ending", "gone"},
         instance' = "none" => at' \in {"finally"} \cup Ended,
         ~wrapped => instance' = instance
  PROVE  DisturbanceStops'
BY DEF DisturbanceStops

LEMMA DisturbanceStep ==
  PoolIsOwned /\ FramesAreOwned /\ ReceiptIsTrue /\ BatchesInOrder /\ DisturbanceStops /\ [Next]_vars
    => DisturbanceStops'
<1> SUFFICES ASSUME PoolIsOwned, FramesAreOwned, ReceiptIsTrue, BatchesInOrder, DisturbanceStops,
                    [Next]_vars
             PROVE  DisturbanceStops'
  OBVIOUS
<1>0. /\ raising => at \in {"waiting", "exit", "finally"} \cup Ended
      /\ instance \in {"none", "live", "ending", "gone"}
      /\ instance = "none" => at \in {"creating", "finally"} \cup Ended
      /\ ~wrapped => instance = "live" /\ fired = {}
      /\ frame \in [Threads -> Frames]
      /\ frame[MainThread] # "none" => at \in {"exit", "finally"} \cup Ended
  BY DEF DisturbanceStops, FramesAreOwned
<1>1. CASE Main
  <2>1. CASE \E created, readable \in BOOLEAN : Create(created, readable)
    <3>1. /\ at = "creating" /\ frame[Handler] = "none" /\ frame[MainThread] = "none"
          /\ UNCHANGED <<frame, fired, wrapped, batch, over, disturbed>>
          /\ instance' \in {"none", "live"}
          /\ \/ at' = "installing" /\ ~raising' /\ instance' = "live"
             \/ at' = "finally" /\ raising'
      BY <2>1 DEF Create, MainRuns, Goto
    <3>2. CASE at' = "finally" /\ raising'
      BY <1>0, <3>1, <3>2, RaisingStops DEF Ended, FramesAreOwned
    <3>3. CASE at' = "installing"
      <4>1. /\ OnlyLateFired => OnlyLateFired'
            /\ AnEarlierFired => AnEarlierFired'
        BY <3>1, FiredStay DEF Ended
      <4> QED BY <1>0, <3>1, <3>3, <4>1 DEF DisturbanceStops, Overrun, Ended
    <3> QED BY <3>1, <3>2, <3>3
  <2>2. CASE ExitManager
    BY <1>0, <2>2, OthersMove, ThreadsDiffer DEF ExitManager, MainRuns, Begin, Frames, mainVars
  <2>3. CASE Finally
    <3>1. CASE UNCHANGED at
      BY <1>0, <2>3, <3>1, OthersMove, ThreadsDiffer DEF Finally, MainRuns, Begin, Frames, Ended
    <3>2. CASE at' = "ended" /\ UNCHANGED frame
      <4>1. /\ OnlyLateFired => OnlyLateFired'
            /\ AnEarlierFired => AnEarlierFired'
        BY <2>3, <3>2, FiredStay DEF Finally, Ended
      <4> QED BY <2>3, <3>2, <4>1 DEF Finally, MainRuns, DisturbanceStops, Overrun, Ended
    <3> QED BY <2>3, <3>1, <3>2 DEF Finally
  <2>4. CASE InstallSignalHandlers
    <3>1. /\ OnlyLateFired => OnlyLateFired'
          /\ AnEarlierFired => AnEarlierFired'
      BY <2>4, FiredStay DEF InstallSignalHandlers, MainRuns, Ended
    <3> QED BY <1>0, <2>4, <3>1 DEF InstallSignalHandlers, MainRuns, Goto, DisturbanceStops, Overrun, Ended
  <2>5. CASE SubmitBatch \/ BatchDone
    BY <1>0, <2>5, MainMoves DEF SubmitBatch, BatchDone, MainRuns, Goto, Failing, Ended
  <2>6. CASE Seal
    BY <1>0, <2>6, MainMoves DEF Seal, MainRuns, Goto, Failing, Ended
  <2>7. CASE AssertCleanupSafe
    BY <1>0, <2>7, MainMoves DEF AssertCleanupSafe, MainRuns, Goto, Ended
  <2>8. ASSUME NEW works \in BOOLEAN, Setup(works) PROVE DisturbanceStops'
    BY <1>0, <2>8, MainMoves DEF Setup, MainRuns, Goto, Ended
  <2>9. ASSUME NEW works \in BOOLEAN, Mirror(works) PROVE DisturbanceStops'
    BY <1>0, <2>9, MainMoves DEF Mirror, MainRuns, CommandMayWork, Goto, Ended
  <2>10. ASSUME NEW works \in BOOLEAN, Gate(works) PROVE DisturbanceStops'
    <3>1. at = "gate" /\ frame[Handler] = "none" /\ UNCHANGED <<machineVars, wrapped, disturbed>>
      BY <2>10 DEF Gate, MainRuns
    <3>2. ~raising /\ frame[MainThread] = "none" /\ instance # "none"
      BY <1>0, <3>1 DEF Ended
    <3>3. CASE works /\ batch < Len(Batches)
      <4>1. at' = "submit" /\ ~raising' /\ batch' = batch + 1 /\ (over' <=> over /\ ~LastOfStage)
        BY <2>10, <3>3 DEF Gate, Goto
      <4>2. /\ OnlyLateFired => OnlyLateFired'
            /\ AnEarlierFired => AnEarlierFired'
        BY <3>1, <4>1, NextStageKeepsFired, BatchNumbers DEF machineVars
      <4> QED BY <3>1, <3>2, <4>1, <4>2 DEF DisturbanceStops, Overrun, machineVars, Ended
    <3>4. CASE ~(works /\ batch < Len(Batches))
      <4>1. at' = "exit" /\ raising' = ~works /\ UNCHANGED <<batch, over>>
        BY <2>10, <3>4 DEF Gate, Goto
      <4>2. works => LastOfStage
        BY <3>4, BatchNumbers DEF LastOfStage
      <4>3. /\ OnlyLateFired => OnlyLateFired'
            /\ AnEarlierFired => AnEarlierFired'
        BY <3>1, <4>1, FiredStay DEF machineVars
      <4>4. CASE works
        <5>1. ~Overrun /\ ~raising'
          BY <3>1, <4>1, <4>2, <4>4 DEF Overrun
        <5> QED BY <3>1, <3>2, <4>1, <4>3, <5>1 DEF DisturbanceStops, Overrun, machineVars, Ended
      <4>5. CASE ~works
        BY <1>0, <3>1, <3>2, <4>1, <4>5, RaisingStops DEF machineVars
      <4> QED BY <4>4, <4>5
    <3> QED BY <3>3, <3>4
  <2> QED BY <1>1, <2>1, <2>2, <2>3, <2>4, <2>5, <2>6, <2>7, <2>8, <2>9, <2>10 DEF Main
<1>2. CASE Cleanup
  <2>1. PICK t \in Threads : Lock(t) \/ \E works \in BOOLEAN : Destroy(t, works) \/ Verify(t, works)
    BY <1>2 DEF Cleanup
  <2>2. /\ Runs(t) /\ frame[t] # "none" /\ wrapped /\ at \notin Ended
        /\ UNCHANGED <<wrapped, batch, over, disturbed, fired>>
        /\ \/ instance' = instance
           \/ instance = "live" /\ instance' \in {"ending", "gone"}
    BY <2>1 DEF Lock, Destroy, Verify, Runs, FramesAreOwned
  <2> DEFINE Goes ==
        \/ \E b \in BOOLEAN : Return(t, b) /\ (b => instance' = "gone")
        \/ UNCHANGED <<at, raising>> /\ frame' = [frame EXCEPT ![t] = frame'[t]] /\ frame'[t] # "none"
  <2>3. Goes
    <3>1. CASE Lock(t)
      BY <1>0, <2>2, <3>1 DEF Lock, ReceiptIsTrue
    <3>2. ASSUME NEW works \in BOOLEAN, Destroy(t, works) PROVE Goes
      BY <1>0, <2>2, <3>2 DEF Destroy
    <3>3. ASSUME NEW works \in BOOLEAN, Verify(t, works) PROVE Goes
      BY <1>0, <2>2, <3>3 DEF Verify, Absent
    <3> QED BY <2>1, <3>1, <3>2, <3>3
  <2>4. CASE UNCHANGED <<at, raising>> /\ frame' = [frame EXCEPT ![t] = frame'[t]] /\ frame'[t] # "none"
    <3>1. /\ \A d \in Dogs : frame'[d] # "none" => frame[d] # "none"
          /\ \A u \in {Handler, MainThread} : frame[u] # "none" => frame'[u] # "none"
          /\ t \in {Handler, MainThread} \/ t \in fired
      BY <1>0, <2>2, <2>4, ThreadsDiffer DEF DisturbanceStops
    <3>2. t \in {Handler, MainThread} => frame'[t] # "none"
      BY <2>4
    <3> QED BY <1>0, <2>2, <2>4, <3>1, <3>2, OthersMove
  <2>5. CASE t \in Dogs /\ \E b \in BOOLEAN : Return(t, b)
    <3>1. /\ UNCHANGED <<at, raising>> /\ \A u \in Threads : frame'[u] \in {"none", frame[u]}
          /\ frame' = [frame EXCEPT ![t] = "none"]
      BY <2>2, <2>5, Returns, ThreadsDiffer DEF Return
    <3>2. t \in fired
      BY <2>2, <2>5 DEF DisturbanceStops
    <3>3. UNCHANGED <<frame[Handler], frame[MainThread]>>
      BY <1>0, <2>5, <3>1, ThreadsDiffer
    <3> QED BY <1>0, <2>2, <3>1, <3>2, <3>3, OthersMove, ThreadsDiffer
  <2>6. CASE t = Handler /\ \E b \in BOOLEAN : Return(t, b)
    <3>1. /\ raising' /\ at' \in Landing /\ \A u \in Threads : frame'[u] \in {"none", frame[u]}
      BY <2>2, <2>6, Returns, ThreadsDiffer
    <3>2. at' \in {"waiting", "exit", "finally", "ended"} /\ (at = "finally" => at' \in {"finally", "ended"})
          /\ (at = "creating" => at' = "finally")
      BY <2>2, <3>1, Lands
    <3>3. instance' = "none" => at' \in {"finally"} \cup Ended
      BY <1>0, <2>2, <3>2 DEF Ended
    <3> QED BY <1>0, <2>2, <3>1, <3>2, <3>3, RaisingStops, ThreadsDiffer DEF Ended
  <2>7. ASSUME t = MainThread, NEW b \in BOOLEAN, Return(t, b), b => instance' = "gone"
        PROVE  DisturbanceStops'
    <3>1. /\ at \in {"exit", "finally"} /\ frame[Handler] = "none" /\ at' \in {"finally", "ended"}
          /\ raising' = (raising \/ ~b) /\ \A u \in Threads : frame'[u] \in {"none", frame[u]}
      BY <2>2, <2>7, Returns, ThreadsDiffer
    <3>2. CASE ~b
      BY <1>0, <2>2, <3>1, <3>2, RaisingStops, ThreadsDiffer DEF Ended
    <3>3. CASE b
      <4>1. /\ OnlyLateFired => OnlyLateFired'
            /\ AnEarlierFired => AnEarlierFired'
        BY <2>2, <3>1, FiredStay DEF Ended
      <4> QED BY <2>2, <2>7, <3>1, <3>3, <4>1, ThreadsDiffer DEF DisturbanceStops, Overrun, Ended
    <3> QED BY <3>2, <3>3
  <2> QED BY <2>3, <2>4, <2>5, <2>6, <2>7, ThreadsDiffer
<1>3. CASE Work
  <2>1. ASSUME NEW j \in Jobs, NoBody(j) PROVE DisturbanceStops'
    <3>1. UNCHANGED <<machineVars, mainVars>> /\ disturbed' = (disturbed \/ instance # "live")
      BY <2>1 DEF NoBody
    <3>2. at = "waiting" \/ Left
      BY <2>1 DEF NoBody, TransportFails, PoolIsOwned
    <3>3. /\ OnlyLateFired => OnlyLateFired'
          /\ AnEarlierFired => AnEarlierFired'
          /\ LastOfStage' <=> LastOfStage
      BY <3>1, FiredStay DEF mainVars, machineVars
    <3>4. CASE raising
      BY <1>0, <3>1, <3>4, RaisingStops DEF machineVars, mainVars, Ended
    <3>5. CASE at = "waiting" /\ ~raising
      <4>1. frame[MainThread] = "none" /\ instance \in {"live", "ending", "gone"}
        BY <1>0, <3>5 DEF Ended
      <4>2. instance = "ending" => Overrun \/ frame[Handler] # "none" \/ AnEarlierFired
        BY <3>5, <4>1, LateIsEarlier DEF DisturbanceStops, Ended
      <4> QED BY <3>1, <3>3, <3>5, <4>1, <4>2 DEF DisturbanceStops, Overrun, machineVars, mainVars
    <3> QED BY <3>2, <3>4, <3>5 DEF Left
  <2>2. ASSUME UNCHANGED <<machineVars, mainVars, disturbed>> PROVE DisturbanceStops'
    BY <1>0, <2>2, OthersMove DEF machineVars, mainVars
  <2> QED BY <1>3, <2>1, <2>2 DEF Work, WorkerTakes, BudgetAdmits, BudgetRefuses, ProviderAnswers, WorkerWrites
<1>4. CASE Events
  <2>1. CASE Trap
    <3>1. UNCHANGED <<wrapped, at, raising, batch, fired, over, disturbed, instance>>
          /\ \A u \in Threads \ {Handler} : frame'[u] = frame[u]
      BY <1>0, <2>1 DEF Trap
    <3>2. frame'[Handler] # "none"
      BY <1>0, <2>1, ThreadsDiffer DEF Trap
    <3> QED BY <1>0, <3>1, <3>2, OthersMove, ThreadsDiffer
  <2>2. ASSUME NEW d \in Dogs, Fire(d) PROVE DisturbanceStops'
    <3>1. /\ over /\ d[2] = Batches[batch].stage /\ Watched(d[1]) /\ fired' = fired \cup {d} /\ wrapped
          /\ frame' = [frame EXCEPT ![d] = "lock"] /\ UNCHANGED <<instance, mainVars, disturbed>>
      BY <2>2 DEF Fire, Begin
    <3>2. Overrun \/ Late(d)
      BY <2>2, <3>1 DEF Overrun, Watched, Late, Dogs
    <3>3. \A e : Late(e)' <=> Late(e)
      BY <3>1 DEF Late, Past, LastOfStage, mainVars
    <3>4. OnlyLateFired /\ Late(d) => OnlyLateFired'
      BY <3>1, <3>3 DEF OnlyLateFired
    <3>5. AnEarlierFired => AnEarlierFired'
      BY <3>1 DEF AnEarlierFired, Past, mainVars
    <3>6. Overrun' <=> Overrun
      BY <3>1 DEF Overrun, LastOfStage, mainVars
    <3>7. /\ UNCHANGED <<frame[Handler], frame[MainThread]>>
          /\ \A e \in Dogs : frame'[e] # "none" => e = d \/ frame[e] # "none"
      BY <1>0, <3>1, ThreadsDiffer
    <3> QED BY <3>1, <3>2, <3>4, <3>5, <3>6, <3>7 DEF DisturbanceStops, mainVars
  <2>3. CASE Terminate
    BY <1>0, <2>3, RaisingStops, ThreadsDiffer DEF Terminate, Goto, Ended
  <2>4. CASE Interrupt
    <3>1. /\ wrapped /\ at \notin Ended /\ at' \in Landing /\ raising' /\ UNCHANGED <<wrapped, fired>>
          /\ frame' = [frame EXCEPT ![Handler] = "none", ![MainThread] = "none"]
          /\ instance' \in {"none", "live", instance} /\ (at # "creating" => instance' = instance)
      BY <2>4 DEF Interrupt, Thrown
    <3>2. at' \in {"waiting", "exit", "finally", "ended"} /\ (at = "finally" => at' \in {"finally", "ended"})
          /\ (at = "creating" => at' = "finally")
      BY <3>1, Lands
    <3>3. instance' = "none" => at' \in {"finally"} \cup Ended
      BY <1>0, <3>1, <3>2 DEF Ended
    <3> QED BY <1>0, <3>1, <3>2, <3>3, RaisingStops, ThreadsDiffer DEF Ended
  <2>5. CASE Crash
    BY <1>0, <2>5, RaisingStops DEF Crash, Goto, machineVars, Ended
  <2>6. CASE Restart
    <3>1. fired = {} /\ instance = "live" /\ UNCHANGED <<machineVars, wrapped, disturbed>> /\ ~wrapped
          /\ at' = "submit" /\ ~raising'
      BY <1>0, <2>6 DEF Restart, Goto
    <3>2. OnlyLateFired'
      BY <3>1 DEF OnlyLateFired, machineVars
    <3> QED BY <3>1, <3>2 DEF DisturbanceStops, machineVars
  <2>7. CASE Preempt \/ Vanish
    BY <1>0, <2>7, OthersMove DEF Preempt, Vanish, mainVars
  <2>8. CASE TimePasses
    BY <1>0, <2>8, OthersMove DEF TimePasses, machineVars
  <2> QED BY <1>4, <2>1, <2>2, <2>3, <2>4, <2>5, <2>6, <2>7, <2>8 DEF Events
<1>5. CASE Stopped \/ UNCHANGED vars
  BY <1>0, <1>5, OthersMove DEF Stopped, vars, machineVars, mainVars
<1> QED BY <1>1, <1>2, <1>3, <1>4, <1>5 DEF Next

-----------------------------------------------------------------------------
LEMMA BatchesStep ==
  PoolIsOwned /\ FramesAreOwned /\ ReceiptIsTrue /\ DisturbanceStops /\ BatchesInOrder /\ [Next]_vars
    => BatchesInOrder'
<1> SUFFICES ASSUME PoolIsOwned, FramesAreOwned, ReceiptIsTrue, DisturbanceStops, BatchesInOrder,
                    [Next]_vars
             PROVE  BatchesInOrder'
  OBVIOUS
<1> USE DEF BatchesInOrder, FramesAreOwned, Ended
<1>0. /\ batch \in 1 .. Len(Batches) /\ Len(Batches) \in Nat /\ DOMAIN Batches = 1 .. Len(Batches)
      /\ raising => at \in {"waiting", "exit", "finally", "ended", "killed"}
  BY BatchNumbers DEF DisturbanceStops
<1> DEFINE Completed == /\ wrapped /\ verified /\ sealed = DOMAIN Batches /\ at \in {"finally"} \cup Ended
                        /\ frame[MainThread] = "none" /\ (raising => at = "killed")
                        /\ OnlyLateFired /\ (disturbed => AnEarlierFired)
(* Once the status is "completed" hardly anything moves.                       *)
<1>c. ASSUME UNCHANGED <<wrapped, sealed, batch, fired>>, verified => verified', disturbed' = disturbed,
             at' = at \/ at' \in {"finally"} \cup Ended, raising' => raising \/ at' = "killed", Completed,
             at = "killed" => at' = "killed", at' \in {"finally"} \cup Ended,
             frame'[MainThread] = "none"
      PROVE Completed'
  <2>1. /\ OnlyLateFired => OnlyLateFired'
        /\ AnEarlierFired => AnEarlierFired'
    BY <1>c, FiredStay
  <2> QED BY <1>c, <2>1
<1>1. CASE Main
  <2>1. CASE \E created, readable \in BOOLEAN : Create(created, readable)
    BY <1>0, <2>1 DEF Create, MainRuns, Goto
  <2>2. CASE ExitManager
    BY <1>c, <2>2 DEF ExitManager, MainRuns, mainVars
  <2>3. CASE Finally
    BY <1>0, <1>c, <2>3 DEF Finally, MainRuns
  <2>4. CASE InstallSignalHandlers \/ SubmitBatch \/ AssertCleanupSafe
    BY <1>0, <2>4 DEF InstallSignalHandlers, SubmitBatch, AssertCleanupSafe, MainRuns, Goto, machineVars
  <2>5. CASE BatchDone
    BY <1>0, <2>5 DEF BatchDone, MainRuns, Goto, Failing, machineVars
  <2>6. CASE Seal
    <3>1. at = "seal" /\ UNCHANGED <<machineVars, wrapped, batch, status, disturbed>>
      BY <2>6 DEF Seal, MainRuns
    <3>2. \/ at' \in {"exit", "ended"} /\ raising' /\ sealed' = sealed
          \/ wrapped /\ at' = "mirror" /\ sealed' = sealed \cup {batch}
          \/ ~wrapped /\ at' = "ended"
      BY <2>6 DEF Seal, Goto, Failing
    <3>3. wrapped => sealed \cup {batch} = 1 .. batch
      BY <1>0, <3>1
    <3> QED BY <1>0, <3>1, <3>2, <3>3 DEF machineVars
  <2>7. ASSUME NEW works \in BOOLEAN, Setup(works) \/ Mirror(works) PROVE BatchesInOrder'
    BY <1>0, <2>7 DEF Setup, Mirror, MainRuns, Goto, machineVars
  <2>8. ASSUME NEW works \in BOOLEAN, Gate(works) PROVE BatchesInOrder'
    <3>1. at = "gate" /\ UNCHANGED <<machineVars, wrapped, sealed, status, disturbed>>
      BY <2>8 DEF Gate, MainRuns
    <3>2. CASE works /\ batch < Len(Batches)
      <4>1. at' = "submit" /\ batch' = batch + 1
        BY <2>8, <3>2 DEF Gate, Goto
      <4> QED BY <1>0, <3>1, <3>2, <4>1 DEF machineVars
    <3>3. CASE ~(works /\ batch < Len(Batches))
      <4>1. at' = "exit" /\ raising' = ~works /\ batch' = batch
        BY <2>8, <3>3 DEF Gate, Goto
      <4>2. works => batch = Len(Batches)
        BY <1>0, <3>3
      <4> QED BY <1>0, <3>1, <4>1, <4>2 DEF machineVars
    <3> QED BY <3>2, <3>3
  <2> QED BY <1>1, <2>1, <2>2, <2>3, <2>4, <2>5, <2>6, <2>7, <2>8 DEF Main
<1>2. CASE Cleanup
  <2>1. PICK t \in Threads : Lock(t) \/ \E works \in BOOLEAN : Destroy(t, works) \/ Verify(t, works)
    BY <1>2 DEF Cleanup
  <2>2. /\ Runs(t) /\ frame[t] # "none" /\ wrapped /\ at \notin Ended
        /\ UNCHANGED <<wrapped, batch, sealed, disturbed, fired>>
        /\ verified => verified'
    BY <2>1 DEF Lock, Destroy, Verify, Runs
  <2>3. CASE UNCHANGED <<at, raising, status>>
    <3>1. status = "completed" => t # MainThread
      BY <2>2
    <3>2. t # MainThread => frame'[MainThread] \in {"none", frame[MainThread]}
      BY <2>1, <2>2, <3>1, Returns, ThreadsDiffer DEF Lock, Destroy, Verify
    <3> QED BY <1>c, <2>2, <2>3, <3>1, <3>2
  <2>4. CASE t = Handler /\ \E b \in BOOLEAN : Return(t, b)
    <3>1. raising' /\ at' \in Landing /\ (status' = status \/ status' = "failed")
      BY <2>2, <2>4, Returns, ThreadsDiffer
    <3>2. CASE at = "finally"
      <4>1. status' = "failed"
        BY <2>4, <3>2, ThreadsDiffer DEF Return, Thrown
      <4>2. at' \in {"finally", "ended"}
        BY <2>2, <3>1, <3>2, Lands
      <4> QED BY <2>2, <3>1, <4>1, <4>2
    <3>3. CASE at # "finally"
      <4>1. status' # "completed"
        BY <2>2, <3>1, <3>3
      <4>2. at' \in {"waiting", "exit", "finally", "ended"} /\ (at' = "waiting" => at = "waiting")
        BY <2>2, <3>1, Lands
      <4> QED BY <2>2, <3>1, <4>1, <4>2
    <3> QED BY <3>2, <3>3
  <2>5. ASSUME t = MainThread, NEW b \in BOOLEAN, Return(t, b), b => verified'
        PROVE  BatchesInOrder'
    <3>1. /\ at \in {"exit", "finally"} /\ frame[Handler] = "none" /\ at' \in {"finally", "ended"}
          /\ raising' = (raising \/ ~b) /\ frame'[MainThread] = "none"
          /\ \/ status' = status
             \/ status' = "completed" /\ at = "exit" /\ b /\ ~raising
      BY <2>2, <2>5, Returns, ThreadsDiffer
    <3>2. CASE status' = "completed" /\ at = "exit" /\ b /\ ~raising
      <4>1. OnlyLateFired /\ (disturbed => AnEarlierFired)
        BY <2>2, <3>1, <3>2 DEF DisturbanceStops, Overrun
      <4>2. /\ OnlyLateFired => OnlyLateFired'
            /\ AnEarlierFired => AnEarlierFired'
        BY <2>2, <3>1, FiredStay
      <4> QED BY <2>2, <2>5, <3>1, <3>2, <4>1, <4>2
    <3>3. CASE status' = status /\ status # "completed"
      BY <2>2, <3>1, <3>3
    <3> QED BY <2>2, <2>5, <3>1, <3>2, <3>3
  <2>6. \/ UNCHANGED <<at, raising, status>>
        \/ t \in {MainThread, Handler} /\ \E b \in BOOLEAN : Return(t, b) /\ (b => verified')
    BY <2>1 DEF Lock, Destroy, Verify, Return
  <2> QED BY <2>3, <2>4, <2>5, <2>6
<1>3. CASE Work
  <2>1. ASSUME NEW j \in Jobs, NoBody(j) PROVE BatchesInOrder'
    <3>1. at = "waiting" \/ Left
      BY <2>1 DEF NoBody, TransportFails, PoolIsOwned
    <3>2. status # "completed"
      BY <3>1 DEF Left
    <3> QED BY <2>1, <3>2 DEF NoBody, machineVars, mainVars
  <2>2. ASSUME UNCHANGED <<machineVars, mainVars, disturbed>> PROVE BatchesInOrder'
    BY <1>c, <2>2 DEF machineVars, mainVars
  <2> QED BY <1>3, <2>1, <2>2 DEF Work, WorkerTakes, BudgetAdmits, BudgetRefuses, ProviderAnswers, WorkerWrites
<1>4. CASE Events
  <2>1. CASE Trap
    BY <1>c, <2>1, ThreadsDiffer DEF Trap
  <2>2. CASE \E d \in Dogs : Fire(d)
    <3>1. status # "completed"
      BY <2>2 DEF Fire, Watched
    <3> QED BY <2>2, <3>1 DEF Fire, mainVars
  <2>3. CASE Terminate
    BY <1>c, <2>3, ThreadsDiffer DEF Terminate, Goto
  <2>4. CASE Interrupt
    <3>1. /\ wrapped /\ at \notin Ended /\ at' \in Landing /\ raising'
          /\ UNCHANGED <<wrapped, sealed, batch>>
          /\ status' = IF at = "finally" THEN "failed" ELSE status
      BY <2>4 DEF Interrupt, Thrown
    <3>2. at' \in {"waiting", "exit", "finally", "ended"} /\ (at' = "waiting" => at = "waiting")
      BY <3>1, Lands
    <3>3. status' # "completed"
      BY <3>1
    <3> QED BY <3>1, <3>2, <3>3
  <2>5. CASE Crash \/ Restart
    BY <2>5 DEF Crash, Restart, Goto, machineVars
  <2>6. CASE Preempt \/ Vanish \/ TimePasses
    BY <1>c, <2>6 DEF Preempt, Vanish, TimePasses, mainVars, machineVars
  <2> QED BY <1>4, <2>1, <2>2, <2>3, <2>4, <2>5, <2>6 DEF Events
<1>5. CASE Stopped \/ UNCHANGED vars
  BY <1>c, <1>5 DEF Stopped, vars, machineVars, mainVars
<1> QED BY <1>1, <1>2, <1>3, <1>4, <1>5 DEF Next

-----------------------------------------------------------------------------
(* A request of a later batch, or of the current one before it is submitted.   *)
Early == {"creating", "installing", "setup", "submit"}
Untouched(j) ==
  \/ \E k \in DOMAIN Batches : k > batch /\ j \in Batches[k].jobs
  \/ at \in Early /\ j \in Batches[batch].jobs

(* Where a worker is, its retries tell how often the provider was called.      *)
Counted(j) ==
  /\ phase[j] \in {"idle", "writing"} => calls[j] <= retries[j] + 1
  /\ phase[j] \in {"queued", "gate"} => calls[j] = retries[j]
  /\ phase[j] = "queued" => retries[j] = 0
  /\ phase[j] = "calling" => calls[j] = retries[j] + 1
  /\ phase[j] = "writing" => pending[j].attempts = calls[j]
  /\ records[j] # NoRecord => records[j].attempts = calls[j]
  /\ Untouched(j) =>
       phase[j] = "idle" /\ calls[j] = 0 /\ retries[j] = 0 /\ records[j] = NoRecord

Retried == {j \in Jobs : retries[j] = 1}

(* With the wrapper a request is submitted once, and the ledger has an entry   *)
(* for every request that is tried again, until the process is lost.           *)
CallsAreCounted ==
  wrapped /\ at # "killed" => (\A j \in Jobs : Counted(j)) /\ Cardinality(Retried) = used

LEMMA UntouchedStays ==
  ASSUME batch' = batch, at' \in Early => at \in Early, NEW j, Untouched(j)'
  PROVE  Untouched(j)
BY DEF Untouched

LEMMA JobsStay ==
  ASSUME UNCHANGED executionVars, wrapped' = wrapped, at # "killed" \/ at' = "killed",
         \A j \in Jobs : Untouched(j)' => Untouched(j), CallsAreCounted
  PROVE  CallsAreCounted'
<1>1. Retried' = Retried
  BY DEF Retried, executionVars
<1>2. ASSUME NEW j \in Jobs, Counted(j) PROVE Counted(j)'
  BY <1>2 DEF Counted, executionVars
<1> QED BY <1>1, <1>2 DEF CallsAreCounted, executionVars

LEMMA SubmitCounts ==
  ASSUME ExecutionTypeOK, PoolIsOwned, BatchesInOrder, CallsAreCounted, SubmitBatch
  PROVE  CallsAreCounted'
<1> DEFINE B == Batches[batch].jobs
<1>0. SUFFICES ASSUME wrapped PROVE CallsAreCounted'
  BY DEF CallsAreCounted, SubmitBatch
<1>1. /\ at = "submit" /\ at' = "waiting" /\ batch' = batch /\ wrapped' = wrapped
      /\ UNCHANGED <<records, pending, used, calls>>
      /\ retries' = [j \in Jobs |-> IF j \in B THEN 0 ELSE retries[j]]
      /\ phase' = [j \in Jobs |-> IF j \in Missing(B) THEN "queued" ELSE phase[j]]
  BY DEF SubmitBatch, Submit, MainRuns, Goto
<1>2. \A j \in Jobs : Counted(j) /\ phase[j] = "idle"
  BY <1>0, <1>1 DEF CallsAreCounted, PoolIsOwned, Left
<1>3. \A j \in Jobs : j \in B => Untouched(j)
  BY <1>1 DEF Untouched, Early
<1>4. \A j \in Jobs : retries'[j] = retries[j]
  BY <1>1, <1>2, <1>3 DEF Counted
<1>5. Retried' = Retried
  BY <1>4 DEF Retried
<1>6. ASSUME NEW j \in Jobs, j \in B PROVE ~Untouched(j)'
  <2>1. \A k \in DOMAIN Batches : k # batch => j \notin Batches[k].jobs
    BY <1>6, PipelineAssumption DEF BatchesInOrder
  <2>2. at' \notin Early
    BY <1>1 DEF Early
  <2> QED BY <1>1, <2>1, <2>2, BatchNumbers DEF Untouched
<1>7. ASSUME NEW j \in Jobs PROVE Counted(j)'
  <2>1. CASE j \in B
    <3>1. calls[j] = 0 /\ retries[j] = 0 /\ records[j] = NoRecord
      BY <1>2, <1>3, <2>1 DEF Counted
    <3>2. phase'[j] = "queued"
      BY <1>1, <2>1, <3>1 DEF Missing, TerminalRecords
    <3> QED BY <1>1, <1>4, <1>6, <2>1, <3>1, <3>2 DEF Counted
  <2>2. CASE j \notin B
    <3>1. phase'[j] = phase[j]
      BY <1>1, <2>2 DEF Missing
    <3>2. Untouched(j)' => Untouched(j)
      BY <1>1, UntouchedStays DEF Early
    <3>3. Counted(j)
      BY <1>2
    <3> QED BY <1>1, <1>4, <3>1, <3>2, <3>3 DEF Counted
  <2> QED BY <2>1, <2>2
<1> QED BY <1>0, <1>1, <1>2, <1>5, <1>7 DEF CallsAreCounted

(* A worker's step changes the counts of its own request.                      *)
LEMMA WorkCounts ==
  ASSUME ExecutionTypeOK, PoolIsOwned, CallsAreCounted, wrapped, at # "killed", Work
  PROVE  CallsAreCounted'
<1>1. PICK j \in Jobs :
        \/ WorkerTakes(j) \/ BudgetAdmits(j) \/ BudgetRefuses(j)
        \/ \E answer \in {"succeeded", "failed"} : ProviderAnswers(j, answer)
        \/ NoBody(j) \/ WorkerWrites(j)
  BY DEF Work
<1>2. UNCHANGED mainVars
  BY <1>1 DEF WorkerTakes, BudgetAdmits, BudgetRefuses, ProviderAnswers, NoBody, WorkerWrites
<1>3. phase[j] # "idle"
  BY <1>1 DEF WorkerTakes, BudgetAdmits, BudgetRefuses, ProviderAnswers, NoBody, WorkerWrites,
     Take, Admit, Refuse, Answered, TransportFails, WriteTerminal
<1>4. \A i \in Jobs : Untouched(i)' => Untouched(i)
  BY <1>2, UntouchedStays DEF mainVars
<1>5. \A i \in Jobs : Counted(i)
  BY DEF CallsAreCounted
<1>6. ~Untouched(j)' /\ records[j] = NoRecord
  BY <1>3, <1>4, <1>5 DEF Counted, PoolIsOwned
<1>7. \A i \in Jobs : i # j => Counted(i)'
  <2>1. ASSUME NEW i \in Jobs, i # j
        PROVE  /\ phase'[i] = phase[i] /\ retries'[i] = retries[i] /\ calls'[i] = calls[i]
               /\ pending'[i] = pending[i] /\ records'[i] = records[i]
    BY <1>1, <2>1 DEF ExecutionTypeOK, WorkerTakes, BudgetAdmits, BudgetRefuses, ProviderAnswers, NoBody,
       WorkerWrites, Take, Admit, Refuse, Answered, TransportFails, WriteTerminal, Conclude, Retry
  <2> QED BY <1>4, <1>5, <2>1 DEF Counted
<1>8. Counted(j)
  BY <1>5
<1> USE DEF ExecutionTypeOK
<1>9. CASE ~(phase[j] = "calling" /\ MayRetry(j) /\ NoBody(j))
  <2>1. retries' = retries /\ used' = used
    BY <1>1, <1>9 DEF WorkerTakes, BudgetAdmits, BudgetRefuses, ProviderAnswers, NoBody,
       WorkerWrites, Take, Admit, Refuse, Answered, TransportFails, WriteTerminal, Conclude
  <2>2. Counted(j)'
    <3>1. CASE WorkerTakes(j) \/ BudgetAdmits(j) \/ BudgetRefuses(j)
      BY <1>6, <1>8, <2>1, <3>1 DEF Counted, WorkerTakes, BudgetAdmits, BudgetRefuses, Take, Admit, Refuse
    <3>2. ASSUME NEW status_, phase[j] = "calling", Conclude(j, status_) PROVE Counted(j)'
      <4>1. phase'[j] = "writing" /\ pending'[j].attempts = retries[j] + 1 /\ UNCHANGED <<calls, records>>
        BY <3>2 DEF Conclude
      <4> QED BY <1>6, <1>8, <2>1, <3>2, <4>1 DEF Counted
    <3>3. CASE NoBody(j)
      BY <1>9, <3>2, <3>3 DEF NoBody, TransportFails
    <3>4. CASE \E answer \in {"succeeded", "failed"} : ProviderAnswers(j, answer)
      BY <3>2, <3>4 DEF ProviderAnswers, Answered
    <3>5. CASE WorkerWrites(j)
      <4>1. /\ phase[j] = "writing" /\ phase'[j] = "idle" /\ records'[j] = pending[j] /\ calls' = calls
        BY <1>6, <3>5 DEF WorkerWrites, WriteTerminal
      <4> QED BY <1>6, <1>8, <2>1, <4>1 DEF Counted
    <3> QED BY <1>1, <3>1, <3>3, <3>4, <3>5
  <2>3. Retried' = Retried
    BY <2>1 DEF Retried
  <2> QED BY <1>2, <1>7, <2>1, <2>2, <2>3 DEF CallsAreCounted, mainVars
<1>10. CASE phase[j] = "calling" /\ MayRetry(j) /\ NoBody(j)
  <2>1. /\ retries[j] = 0 /\ retries' = [retries EXCEPT ![j] = 1] /\ used' = used + 1
        /\ phase'[j] = "gate" /\ UNCHANGED <<calls, records, pending>>
    BY <1>10 DEF NoBody, TransportFails, Retry, MayRetry
  <2>2. Counted(j)'
    BY <1>6, <1>8, <1>10, <2>1 DEF Counted
  <2>3. Retried' = Retried \cup {j} /\ j \notin Retried
    BY <2>1 DEF Retried
  <2>4. Cardinality(Retried') = Cardinality(Retried) + 1
    <3>1. IsFiniteSet(Retried)
      BY ExecutionAssumption, FS_Subset DEF Retried
    <3> QED BY <2>3, <3>1, FS_AddElement
  <2> QED BY <1>2, <1>7, <2>1, <2>2, <2>4 DEF CallsAreCounted, mainVars
<1> QED BY <1>9, <1>10

LEMMA CountedStep ==
  ExecutionTypeOK /\ PoolIsOwned /\ FramesAreOwned /\ BatchesInOrder /\ CallsAreCounted /\ [Next]_vars
    => CallsAreCounted'
<1> SUFFICES ASSUME ExecutionTypeOK, PoolIsOwned, FramesAreOwned, BatchesInOrder, CallsAreCounted,
                    [Next]_vars
             PROVE  CallsAreCounted'
  OBVIOUS
<1>0. wrapped' = wrapped
  BY DEF Next, Main, Create, InstallSignalHandlers, Setup, SubmitBatch, BatchDone, Seal, Mirror,
     AssertCleanupSafe, Gate, ExitManager, Finally, Cleanup, Lock, Destroy, Verify, Work, WorkerTakes,
     BudgetAdmits, BudgetRefuses, ProviderAnswers, NoBody, WorkerWrites, Events, Preempt, Vanish,
     TimePasses, Trap, Terminate, Interrupt, Crash, Restart, Fire, Stopped, vars, mainVars
<1>1. SUFFICES ASSUME wrapped PROVE CallsAreCounted'
  BY <1>0 DEF CallsAreCounted
<1>2. ASSUME UNCHANGED <<executionVars, batch>>, at' = at \/ at' \notin Early,
             at # "killed" \/ at' = "killed"
      PROVE  CallsAreCounted'
  <2>1. \A j \in Jobs : Untouched(j)' => Untouched(j)
    BY <1>2, UntouchedStays
  <2> QED BY <1>0, <1>2, <2>1, JobsStay
<1>3. CASE Main
  <2>1. CASE SubmitBatch
    BY <2>1, SubmitCounts
  <2>2. CASE (\E works \in BOOLEAN : Setup(works)) \/ InstallSignalHandlers
             \/ (\E created, readable \in BOOLEAN : Create(created, readable))
    <3>1. UNCHANGED <<executionVars, batch>> /\ at \in Early /\ at # "killed"
      BY <2>2 DEF Setup, InstallSignalHandlers, Create, MainRuns, Early
    <3>2. \A j \in Jobs : Untouched(j)' => Untouched(j)
      BY <3>1, UntouchedStays
    <3> QED BY <1>0, <3>1, <3>2, JobsStay
  <2>3. ASSUME NEW works \in BOOLEAN, Gate(works) PROVE CallsAreCounted'
    <3>1. UNCHANGED executionVars /\ at = "gate"
      BY <2>3 DEF Gate, MainRuns
    <3>2. CASE batch' = batch /\ at' = "exit"
      BY <1>2, <3>1, <3>2 DEF Early
    <3>3. CASE batch < Len(Batches) /\ batch' = batch + 1
      <4>1. ASSUME NEW j \in Jobs, Untouched(j)' PROVE Untouched(j)
        <5>1. batch \in Nat /\ batch' \in DOMAIN Batches
          BY <3>3, BatchNumbers
        <5>2. PICK k \in DOMAIN Batches : k >= batch' /\ j \in Batches[k].jobs
          BY <4>1, <5>1, BatchNumbers DEF Untouched
        <5>3. k > batch
          BY <3>3, <5>1, <5>2, BatchNumbers
        <5> QED BY <5>2, <5>3 DEF Untouched
      <4> QED BY <1>0, <3>1, <4>1, JobsStay
    <3> QED BY <2>3, <3>2, <3>3 DEF Gate, Goto
  <2>4. CASE BatchDone \/ Seal \/ AssertCleanupSafe \/ ExitManager \/ Finally
             \/ \E works \in BOOLEAN : Mirror(works)
    <3>1. UNCHANGED <<executionVars, batch>> /\ at # "killed"
      BY <2>4 DEF BatchDone, Seal, AssertCleanupSafe, ExitManager, Finally, Mirror, MainRuns, mainVars
    <3>2. at' = at \/ at' \notin Early
      BY <2>4 DEF BatchDone, Seal, AssertCleanupSafe, ExitManager, Finally, Mirror, Goto, Failing, Early,
         mainVars
    <3> QED BY <1>2, <3>1, <3>2
  <2> QED BY <1>3, <2>1, <2>2, <2>3, <2>4 DEF Main
<1>4. CASE Cleanup
  <2>1. PICK t \in Threads : Lock(t) \/ \E works \in BOOLEAN : Destroy(t, works) \/ Verify(t, works)
    BY <1>4 DEF Cleanup
  <2>2. UNCHANGED <<executionVars, batch>> /\ at # "killed"
    BY <2>1 DEF Lock, Destroy, Verify, Runs, Ended
  <2>3. at' = at \/ \E b \in BOOLEAN : Return(t, b)
    BY <2>1 DEF Lock, Destroy, Verify
  <2>4. at' = at \/ at' \in Landing
    BY <2>3 DEF Return, Thrown
  <2>5. at' = at \/ at' \notin Early
    BY <2>1, <2>4, Lands DEF Lock, Destroy, Verify, Runs, Early
  <2> QED BY <1>2, <2>2, <2>5
<1>5. CASE Work
  <2>1. at # "killed"
    BY <1>5 DEF Work, WorkerTakes, BudgetAdmits, BudgetRefuses, ProviderAnswers, NoBody, WorkerWrites,
       Alive, Ended
  <2> QED BY <1>1, <1>5, <2>1, WorkCounts
<1>6. CASE Events
  <2>1. CASE Terminate
    BY <2>1 DEF Terminate, Goto, CallsAreCounted
  <2>2. CASE Interrupt
    <3>1. at \notin Ended /\ at' \in Landing /\ UNCHANGED <<executionVars, batch>>
      BY <2>2 DEF Interrupt, Thrown
    <3>2. at' \notin Early
      BY <3>1, Lands DEF Early
    <3> QED BY <1>2, <3>1, <3>2 DEF Ended
  <2>3. CASE Preempt \/ Vanish \/ TimePasses \/ Trap \/ \E d \in Dogs : Fire(d)
    BY <1>2, <2>3 DEF Preempt, Vanish, TimePasses, Trap, Fire, mainVars
  <2> QED BY <1>1, <1>6, <2>1, <2>2, <2>3 DEF Events, Crash, Restart
<1>7. CASE Stopped \/ UNCHANGED vars
  BY <1>2, <1>7 DEF Stopped, vars, mainVars
<1> QED BY <1>3, <1>4, <1>5, <1>6, <1>7 DEF Next

-----------------------------------------------------------------------------
PipelineInv ==
  ExecutionTypeOK /\ PoolIsOwned /\ FramesAreOwned /\ ReceiptIsTrue /\ DisturbanceStops /\ BatchesInOrder

LEMMA InvStart == PipelineInit => PipelineInv
<1> SUFFICES ASSUME PipelineInit PROVE PipelineInv
  OBVIOUS
<1>1. ExecutionTypeOK /\ PoolIsOwned
  BY PoolTypes DEF PipelineInit, ExecutionInit, PoolIsOwned
<1>2. FramesAreOwned /\ ReceiptIsTrue /\ DisturbanceStops
  BY ThreadsDiffer
     DEF PipelineInit, FramesAreOwned, ReceiptIsTrue, DisturbanceStops, OnlyLateFired, Frames, Ended
<1>3. BatchesInOrder
  BY BatchNumbers DEF PipelineInit, BatchesInOrder
<1> QED BY <1>1, <1>2, <1>3 DEF PipelineInv

LEMMA InvStep == PipelineInv /\ [Next]_vars => PipelineInv'
  BY PoolTypeStep, PoolStep, FramesStep, ReceiptStep, DisturbanceStep, BatchesStep DEF PipelineInv

(* The invariant holds of every run of the pipeline: who owns the pool and the *)
(* cleanup, what the receipt says, and that a disturbed pipeline is stopped.   *)
THEOREM InvAlways == Spec => []PipelineInv
  BY InvStart, InvStep, PTL DEF Spec

(* What the counts come to, also after the process is lost.                    *)
CallsHold ==
  wrapped =>
    /\ \A j \in Jobs : calls[j] <= 2
    /\ Cardinality({j \in Jobs : calls[j] = 2}) <= MaxTransportRetries
    /\ \A j \in Jobs : records[j] # NoRecord => records[j].attempts = calls[j]

LEMMA CountsBound == ExecutionTypeOK /\ CallsAreCounted /\ at # "killed" => CallsHold
<1> SUFFICES ASSUME ExecutionTypeOK, CallsAreCounted, at # "killed", wrapped PROVE CallsHold
  BY DEF CallsHold
<1> DEFINE Twice == {j \in Jobs : calls[j] = 2}
<1>1. \A j \in Jobs : Counted(j)
  BY DEF CallsAreCounted
<1>2. \A j \in Jobs : calls[j] <= retries[j] + 1 /\ retries[j] \in 0..1 /\ calls[j] \in Nat
  BY <1>1 DEF Counted, ExecutionTypeOK, Phases
<1>3. Twice \subseteq Retried
  BY <1>2 DEF Retried
<1>4. IsFiniteSet(Retried)
  BY ExecutionAssumption, FS_Subset DEF Retried
<1>5. Cardinality(Twice) <= Cardinality(Retried) /\ Cardinality(Twice) \in Nat
  BY <1>3, <1>4, FS_Subset, FS_CardinalityType
<1>6. Cardinality(Retried) = used /\ used <= MaxTransportRetries /\ used \in Nat
  BY ExecutionAssumption DEF CallsAreCounted, ExecutionTypeOK
<1>7. Cardinality(Twice) <= MaxTransportRetries
  BY <1>5, <1>6, ExecutionAssumption
<1>8. \A j \in Jobs : calls[j] <= 2
  BY <1>2
<1> QED BY <1>1, <1>7, <1>8 DEF Counted, CallsHold

LEMMA CallsHoldStep ==
  PipelineInv /\ CallsAreCounted /\ CallsHold /\ [Next]_vars => CallsHold'
<1> SUFFICES ASSUME PipelineInv, CallsAreCounted, CallsHold, [Next]_vars PROVE CallsHold'
  OBVIOUS
<1> USE DEF PipelineInv
<1>1. ExecutionTypeOK' /\ CallsAreCounted'
  BY PoolTypeStep, CountedStep
<1>2. CASE at' # "killed"
  <2>1. (at # "killed")'
    BY <1>2
  <2> QED BY <1>1, <2>1, CountsBound, PTL
<1>3. CASE at' = "killed"
  <2>1. UNCHANGED <<wrapped, calls, records>>
    <3>1. CASE Main
      BY <1>3, <3>1 DEF Main, Create, InstallSignalHandlers, Setup, SubmitBatch, BatchDone, Seal, Mirror,
         AssertCleanupSafe, Gate, ExitManager, Finally, Goto, Failing, MainRuns, executionVars, mainVars
    <3>2. CASE Cleanup
      BY <3>2 DEF Cleanup, Lock, Destroy, Verify, executionVars
    <3>3. CASE Work
      BY <1>3, <3>3 DEF Work, WorkerTakes, BudgetAdmits, BudgetRefuses, ProviderAnswers, NoBody,
         WorkerWrites, Alive, Ended, mainVars
    <3>4. CASE Events
      BY <3>4 DEF Events, Preempt, Vanish, TimePasses, Trap, Terminate, Interrupt, Crash, Restart, Fire,
         ProcessLost, executionVars, mainVars
    <3> QED BY <3>1, <3>2, <3>3, <3>4 DEF Next, Stopped, vars, executionVars, mainVars
  <2> QED BY <2>1 DEF CallsHold
<1> QED BY <1>2, <1>3

-----------------------------------------------------------------------------
LEMMA TypeStep == PipelineTypeOK /\ PipelineInv /\ [Next]_vars => PipelineTypeOK'
<1> SUFFICES ASSUME PipelineTypeOK, PipelineInv, [Next]_vars PROVE PipelineTypeOK'
  OBVIOUS
<1>0. ExecutionTypeOK' /\ FramesAreOwned' /\ DisturbanceStops' /\ BatchesInOrder'
  BY InvStep DEF PipelineInv
<1> DEFINE Points == Ended \cup {"creating", "installing", "setup", "submit", "waiting", "seal",
                        "mirror", "check", "gate", "exit", "finally"}
           Flags == /\ wrapped \in BOOLEAN /\ raising \in BOOLEAN /\ over \in BOOLEAN
                    /\ recorded \in BOOLEAN /\ handlers \in BOOLEAN /\ verified \in BOOLEAN
                    /\ refused \in BOOLEAN /\ disturbed \in BOOLEAN
           Rest == /\ at \in Points
                   /\ sealed \subseteq DOMAIN Batches /\ fired \subseteq Dogs
                   /\ status \in {"running", "completed", "failed"}
                   /\ signals \in 0..MaxSignals /\ restarts \in 0..MaxRestarts
<1>1. Flags /\ Rest /\ batch \in DOMAIN Batches /\ MaxSignals \in Nat /\ MaxRestarts \in Nat
  BY PipelineAssumption DEF PipelineTypeOK
<1>. SUFFICES Flags' /\ Rest'
  <2>1. frame' \in [Threads -> Frames] /\ instance' \in {"none", "live", "ending", "gone"}
        /\ batch' \in DOMAIN Batches
    BY <1>0 DEF FramesAreOwned, DisturbanceStops, BatchesInOrder
  <2> QED BY <1>0, <2>1 DEF PipelineTypeOK
<1>2. CASE Main
  <2>1. Flags'
    <3>1. UNCHANGED <<wrapped, verified, refused, disturbed>>
      BY <1>2 DEF Main, Create, InstallSignalHandlers, Setup, SubmitBatch, BatchDone, Seal, Mirror,
         AssertCleanupSafe, Gate, ExitManager, Finally, Goto, mainVars, machineVars
    <3>2. recorded' \in BOOLEAN /\ handlers' \in BOOLEAN
      BY <1>1, <1>2 DEF Main, Create, InstallSignalHandlers, Setup, SubmitBatch, BatchDone, Seal, Mirror,
         AssertCleanupSafe, Gate, ExitManager, Finally, Goto, mainVars, machineVars
    <3>3. raising' \in BOOLEAN
      BY <1>1, <1>2 DEF Main, Create, InstallSignalHandlers, Setup, SubmitBatch, BatchDone, Seal, Mirror,
         AssertCleanupSafe, Gate, ExitManager, Finally, Goto, mainVars, machineVars
    <3>4. over' \in BOOLEAN
      BY <1>1, <1>2 DEF Main, Create, InstallSignalHandlers, Setup, SubmitBatch, BatchDone, Seal, Mirror,
         AssertCleanupSafe, Gate, ExitManager, Finally, Goto, mainVars, machineVars
    <3> QED BY <1>1, <3>1, <3>2, <3>3, <3>4
  <2>2. at' \in Points /\ status' \in {"running", "completed", "failed"}
    BY <1>1, <1>2 DEF Main, Create, InstallSignalHandlers, Setup, SubmitBatch, BatchDone, Seal, Mirror,
       AssertCleanupSafe, Gate, ExitManager, Finally, Goto, Failing, mainVars, Ended
  <2>3. sealed' \subseteq DOMAIN Batches /\ UNCHANGED <<fired, signals, restarts>>
    BY <1>1, <1>2 DEF Main, Create, InstallSignalHandlers, Setup, SubmitBatch, BatchDone, Seal, Mirror,
       AssertCleanupSafe, Gate, ExitManager, Finally, mainVars, machineVars
  <2> QED BY <1>1, <2>1, <2>2, <2>3
<1>3. CASE Cleanup
  <2>1. PICK t \in Threads : Lock(t) \/ \E works \in BOOLEAN : Destroy(t, works) \/ Verify(t, works)
    BY <1>3 DEF Cleanup
  <2>2. UNCHANGED <<at, raising, status>> \/ \E b \in BOOLEAN : Return(t, b)
    BY <2>1 DEF Lock, Destroy, Verify
  <2>3. /\ at' \in Points /\ raising' \in BOOLEAN /\ status' \in {"running", "completed", "failed"}
    <3>1. Runs(t) /\ at \notin Ended
      BY <2>1 DEF Lock, Destroy, Verify, Runs
    <3>2. UNCHANGED at \/ at' \in Landing
      BY <2>2 DEF Return, Thrown
    <3>3. /\ raising' \in BOOLEAN /\ status' \in {"running", "completed", "failed"}
      BY <1>1, <2>2 DEF Return, Thrown
    <3> QED BY <1>1, <3>1, <3>2, <3>3, Lands DEF Ended
  <2>4. /\ UNCHANGED <<wrapped, over, recorded, disturbed, sealed, fired, signals, restarts>>
        /\ handlers' \in BOOLEAN /\ verified' \in BOOLEAN /\ refused' \in BOOLEAN
    BY <1>1, <2>1 DEF Lock, Destroy, Verify, Restored
  <2> QED BY <1>1, <2>3, <2>4
<1>4. CASE Work
  <2>1. UNCHANGED <<machineVars, mainVars>> /\ disturbed' \in BOOLEAN
    BY <1>1, <1>4 DEF Work, WorkerTakes, BudgetAdmits, BudgetRefuses, ProviderAnswers, NoBody, WorkerWrites
  <2> QED BY <1>1, <2>1 DEF machineVars, mainVars
<1>5. CASE Events
  <2>1. Flags'
    <3>1. UNCHANGED <<wrapped, recorded, handlers, verified, disturbed>> /\ refused' \in BOOLEAN
      BY <1>1, <1>5 DEF Events, Preempt, Vanish, TimePasses, Trap, Terminate, Interrupt, Crash, Restart,
         Fire, machineVars, mainVars
    <3>2. raising' \in BOOLEAN /\ over' \in BOOLEAN
      BY <1>1, <1>5 DEF Events, Preempt, Vanish, TimePasses, Trap, Terminate, Interrupt, Thrown, Crash,
         Restart, Fire, Goto, machineVars, mainVars
    <3> QED BY <1>1, <3>1, <3>2
  <2>2. at' \in Points /\ UNCHANGED sealed /\ fired' \subseteq Dogs
        /\ status' \in {"running", "completed", "failed"}
    <3>1. CASE Interrupt
      <4>1. at \notin Ended /\ at' \in Landing /\ UNCHANGED <<sealed, fired>> /\ status' \in {"failed", status}
        BY <3>1 DEF Interrupt, Thrown
      <4>2. at' \in {"waiting", "exit", "finally", "ended"}
        BY <4>1, Lands
      <4> QED BY <1>1, <4>1, <4>2 DEF Ended
    <3>2. CASE ~Interrupt
      BY <1>1, <1>5, <3>2 DEF Events, Preempt, Vanish, TimePasses, Trap, Terminate, Crash, Restart, Fire,
         Goto, machineVars, mainVars, Ended
    <3> QED BY <3>1, <3>2
  <2>3. signals' \in 0..MaxSignals /\ restarts' \in 0..MaxRestarts
    <3>1. \/ signals' = signals
          \/ signals < MaxSignals /\ signals' = signals + 1
      BY <1>5 DEF Events, Preempt, Vanish, TimePasses, Trap, Terminate, Interrupt, Crash, Restart, Fire,
         machineVars, mainVars
    <3>2. \/ restarts' = restarts
          \/ restarts < MaxRestarts /\ restarts' = restarts + 1
      BY <1>5 DEF Events, Preempt, Vanish, TimePasses, Trap, Terminate, Interrupt, Crash, Restart, Fire,
         machineVars, mainVars
    <3> QED BY <1>1, <3>1, <3>2
  <2> QED BY <1>1, <2>1, <2>2, <2>3
<1>6. CASE Stopped \/ UNCHANGED vars
  BY <1>1, <1>6 DEF Stopped, vars, machineVars, mainVars
<1> QED BY <1>2, <1>3, <1>4, <1>5, <1>6 DEF Next

(* The provider is called at most twice for a request, and a second time for no *)
(* more requests than the retry ledger has entries, whatever workers, budget,   *)
(* trap and watchdogs do (execute_jobs under run_pipeline).                     *)
THEOREM CallsStayBounded == Spec => []CallsAreBounded
<1> DEFINE Inv == PipelineInv /\ PipelineTypeOK /\ CallsAreCounted /\ CallsHold
<1>1. PipelineInit => Inv
  <2> SUFFICES ASSUME PipelineInit PROVE Inv
    OBVIOUS
  <2>1. PipelineInv
    BY InvStart
  <2>2. PipelineTypeOK
    <3>1. frame \in [Threads -> Frames] /\ instance \in {"none", "live", "ending", "gone"}
          /\ batch \in DOMAIN Batches /\ ExecutionTypeOK
      BY <2>1 DEF PipelineInv, FramesAreOwned, DisturbanceStops, BatchesInOrder
    <3>2. signals \in 0..MaxSignals /\ restarts \in 0..MaxRestarts
      BY PipelineAssumption DEF PipelineInit
    <3>3. at \in {"creating", "submit"}
      BY DEF PipelineInit
    <3> QED BY <3>1, <3>2, <3>3 DEF PipelineInit, PipelineTypeOK
  <2>3. Retried = {}
    BY DEF PipelineInit, ExecutionInit, Retried
  <2>4. CallsAreCounted
    BY <2>3, FS_EmptySet DEF PipelineInit, ExecutionInit, CallsAreCounted, Counted
  <2>5. CallsHold
    BY <2>1, <2>4, CountsBound DEF PipelineInit, PipelineInv
  <2> QED BY <2>1, <2>2, <2>4, <2>5
<1>2. Inv /\ [Next]_vars => Inv'
  BY InvStep, TypeStep, CallsHoldStep, CountedStep DEF PipelineInv
<1>3. Inv => CallsAreBounded
  BY DEF CallsAreBounded, CallsHold
<1> QED BY <1>1, <1>2, <1>3, PTL DEF Spec

(* A receipt that says the destruction is verified tells the truth, and no     *)
(* machine of which the program knows is left running in silence, with any     *)
(* overlap of main thread, trap and watchdogs (JarvisManager.cleanup).         *)
THEOREM ReceiptsAreTrue == Spec => []DestructionIsVerified
<1>1. PipelineInv => DestructionIsVerified
  BY DEF PipelineInv, ReceiptIsTrue, DestructionIsVerified
<1> QED BY <1>1, InvAlways, PTL

(* A pipeline that reports completion has sealed every batch; no watchdog of a *)
(* stage's batches fired in it, and a request of it failed for want of a live  *)
(* machine only if the mirror's watchdog of an earlier stage fired after the   *)
(* check of that stage (run_pipeline).                                         *)
THEOREM CompletionIsHonest == Spec => []CompletedIsUndisturbed
<1>1. PipelineInv => CompletedIsUndisturbed
  BY DEF PipelineInv, BatchesInOrder, OnlyLateFired, AnEarlierFired, Late, CompletedIsUndisturbed
<1> QED BY <1>1, InvAlways, PTL

(* A request with a terminal record is never called again and keeps its        *)
(* record, in every later batch and process (execute_jobs).                    *)
THEOREM RecordsAreFinal == Spec => TerminalIsFinal
<1>1. ASSUME PipelineInv, [Next]_vars, NEW j \in Jobs, records[j] # NoRecord
      PROVE  records'[j] = records[j] /\ calls'[j] = calls[j]
  <2> USE DEF PipelineInv, ExecutionTypeOK
  <2>0. phase[j] = "idle"
    BY <1>1 DEF PoolIsOwned
  <2>1. CASE UNCHANGED <<records, calls>>
    BY <2>1
  <2>2. CASE Work
    <3>1. PICK i \in Jobs :
            \/ WorkerTakes(i) \/ BudgetAdmits(i) \/ BudgetRefuses(i)
            \/ \E answer \in {"succeeded", "failed"} : ProviderAnswers(i, answer)
            \/ NoBody(i) \/ WorkerWrites(i)
      BY <2>2 DEF Work
    <3>2. phase[i] # "idle"
      BY <3>1 DEF WorkerTakes, BudgetAdmits, BudgetRefuses, ProviderAnswers, NoBody, WorkerWrites,
         Take, Admit, Refuse, Answered, TransportFails, WriteTerminal
    <3>3. i # j
      BY <2>0, <3>2
    <3> QED BY <1>1, <3>1, <3>3 DEF WorkerTakes, BudgetAdmits, BudgetRefuses, ProviderAnswers, NoBody,
         WorkerWrites, Take, Admit, Refuse, Answered, TransportFails, WriteTerminal, Conclude, Retry
  <2>3. CASE Main
    BY <2>1, <2>3 DEF Main, Create, InstallSignalHandlers, Setup, SubmitBatch, Submit, BatchDone, Seal,
       Mirror, AssertCleanupSafe, Gate, ExitManager, Finally, executionVars
  <2>4. CASE Cleanup
    BY <2>1, <2>4 DEF Cleanup, Lock, Destroy, Verify, executionVars
  <2>5. CASE Events
    BY <2>1, <2>5 DEF Events, Preempt, Vanish, TimePasses, Trap, Terminate, Interrupt, Crash, Restart,
       Fire, ProcessLost, executionVars
  <2> QED BY <1>1, <2>1, <2>2, <2>3, <2>4, <2>5 DEF Next, Stopped, vars, executionVars
<1>2. PipelineInv /\ [Next]_vars
        => [\A j \in Jobs : records[j] # NoRecord =>
              records'[j] = records[j] /\ calls'[j] = calls[j]]_vars
  BY <1>1
<1> QED BY <1>2, InvAlways, PTL DEF Spec, TerminalIsFinal

=============================================================================
