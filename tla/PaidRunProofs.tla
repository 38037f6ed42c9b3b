----------------------------- MODULE PaidRunProofs -----------------------------
(* Theorems of module PaidRun, for any plan, price, limit and number of         *)
(* restarts.  They hold because a process that resumes starts from the stored   *)
(* record, and because nothing is sent before its announcement is stored.       *)
EXTENDS PaidRun, FiniteSetTheorems, TLAPS

-----------------------------------------------------------------------------
Announces == program \in {"atomic", "frozen", "answers"}
Active == at \notin {"ended", "lost", "refused"}

(* What the process holds and what is stored are checkpoints; requests in      *)
(* flight are neither done nor failed, and only the answers program has more   *)
(* than one.                                                                   *)
WellFormed(c) ==
  /\ c \in Checkpoints
  /\ c.done \cap c.failed = {} /\ (c.done \cup c.failed) \cap c.pending = {}
  /\ ~Announces => c.pending = {}

ProcessShape ==
  /\ program \in Programs
  /\ at \in {"writing", "deciding", "sending", "waiting", "ended", "lost", "refused"}
  /\ step \in {"predictions", "failures", "run"}
  /\ calling \subseteq Remaining(checkpoint)
  /\ program # "answers" => \A i, k \in calling : i = k
  /\ at \notin {"waiting", "writing"} => calling = {}
  /\ at = "writing" /\ checkpoint.status # "running" => calling = {}
  /\ at \notin {"sending", "waiting", "writing"} => checkpoint.pending = {}
  /\ at = "writing" /\ checkpoint.status # "running" => checkpoint.pending = {}
  /\ Active /\ Announces => checkpoint.pending \in {calling, Group(checkpoint)}
  /\ calling # {} /\ Announces => checkpoint.pending = calling
  /\ at = "sending" /\ Announces => checkpoint.pending = Group(checkpoint)

(* A record of run_atomic that may be resumed holds no failure with an answer. *)
ResumableIsUnbilled(c) ==
  program = "atomic" /\ c.status \in {"running", "provider"} => \A i \in c.failed : c.cost[i] = 0

StatusIsKept ==
  /\ ResumableIsUnbilled(checkpoint)
  /\ run # NoFile => ResumableIsUnbilled(run)
  /\ Announces /\ at \in {"deciding", "sending", "waiting"} => checkpoint.status = "running"

(* The running process has all that is stored as done or as billed.            *)
StoredIsHeld ==
  Active /\ run # NoFile =>
    /\ \A i \in run.done : i \in checkpoint.done /\ checkpoint.cost[i] = run.cost[i]
    /\ \A i \in run.failed :
         run.cost[i] > 0 => i \in checkpoint.failed /\ checkpoint.cost[i] = run.cost[i]

Shapes ==
  /\ WellFormed(checkpoint)
  /\ run # NoFile => WellFormed(run)
  /\ ProcessShape

-----------------------------------------------------------------------------
(* A finite set of numbers has its minimum (Min of the next group).  The sets  *)
(* of the elements below one are ordered by inclusion, which is well-founded.  *)
LEMMA MinIsIn ==
  ASSUME NEW S \in SUBSET Nat, IsFiniteSet(S), S # {}
  PROVE  Min(S) \in S /\ \A n \in S : Min(S) <= n
<1> DEFINE Below(m) == {k \in S : k < m}
           T == {Below(m) : m \in S}
<1>1. IsWellFoundedOn(StrictSubsetOrdering(S), FiniteSubsetsOf(S))
  BY FS_StrictSubsetOrderingWellFounded
<1>2. T \subseteq FiniteSubsetsOf(S) /\ T # {}
  <2>1. ASSUME NEW m \in S PROVE IsFiniteSet(Below(m))
    BY FS_Subset
  <2> QED BY <2>1 DEF FiniteSubsetsOf
<1>3. PICK U \in T : \A V \in T : ~(<<V, U>> \in StrictSubsetOrdering(S))
  <2> HIDE DEF T
  <2> QED BY <1>1, <1>2, WFMin
<1>4. PICK m \in S : U = Below(m)
  OBVIOUS
<1>5. ASSUME NEW n \in S, n < m PROVE FALSE
  <2>1. Below(n) \subseteq Below(m) /\ Below(n) # Below(m)
    <3>1. n \in Below(m) /\ n \notin Below(n)
      BY <1>5
    <3>2. \A k \in S : k < n => k < m
      BY <1>5
    <3> QED BY <3>1, <3>2
  <2>2. <<Below(n), Below(m)>> \in StrictSubsetOrdering(S)
    BY <2>1 DEF StrictSubsetOrdering
  <2> QED BY <1>3, <1>4, <2>2
<1>6. \A n \in S : m <= n
  BY <1>5
<1> QED BY <1>6 DEF Min

(* The next group is not empty while something remains, and holds one request  *)
(* in all programs but that of the answers.                                    *)
LEMMA GroupShape ==
  ASSUME NEW c
  PROVE  /\ Group(c) \subseteq Remaining(c)
         /\ Remaining(c) # {} => Min(Group(c)) \in Group(c)
         /\ program # "answers" => \A i, k \in Group(c) : i = k
<1> DEFINE R == Remaining(c)
<1>0. R \in SUBSET Nat /\ IsFiniteSet(R)
  BY PaidRunAssumption, FS_Subset DEF Remaining
<1>1. Group(c) \subseteq R
  BY DEF Group
<1>2. ASSUME R # {} PROVE Min(Group(c)) \in Group(c)
  <2>1. Min(R) \in R /\ \A n \in R : Min(R) <= n
    BY <1>0, <1>2, MinIsIn
  <2>2. {k \in R : k < Min(R)} = {}
    BY <1>0, <2>1
  <2>3. Min(R) \in Group(c)
    BY <2>1, <2>2, FS_EmptySet, PaidRunAssumption DEF Group
  <2>4. IsFiniteSet(Group(c)) /\ Group(c) \in SUBSET Nat
    BY <1>0, <1>1, FS_Subset
  <2> QED BY <2>3, <2>4, MinIsIn
<1>3. ASSUME program # "answers", NEW i \in Group(c), NEW k \in Group(c), i < k PROVE FALSE
  <2>1. i \in {m \in R : m < k}
    BY <1>1, <1>3
  <2>2. IsFiniteSet({m \in R : m < k})
    BY <1>0, FS_Subset
  <2>3. Cardinality({m \in R : m < k}) < 1
    BY <1>3 DEF Group
  <2>4. Cardinality({m \in R : m < k}) = 0
    BY <2>2, <2>3, FS_CardinalityType
  <2> QED BY <2>1, <2>2, <2>4, FS_EmptySet
<1>4. ASSUME program # "answers", NEW i \in Group(c), NEW k \in Group(c) PROVE i = k
  <2>1. i \in Nat /\ k \in Nat
    BY <1>0, <1>1
  <2>2. ~(i < k) /\ ~(k < i)
    BY <1>3, <1>4
  <2> QED BY <2>1, <2>2
<1> QED BY <1>1, <1>2, <1>4

-----------------------------------------------------------------------------
LEMMA FreshShape == WellFormed(Fresh) /\ WellFormed(Fresh)'
  BY PaidRunAssumption DEF WellFormed, Fresh, Checkpoints, Statuses, Announces

(* What goes on after the three files.                                         *)
LEMMA ContinueShape ==
  ASSUME NEW c
  PROVE  \/ Continue(c) = "ended" /\ c.status # "running"
         \/ Continue(c) = "waiting" /\ c.status = "running" /\ calling # {}
         \/ Continue(c) = "sending" /\ c.status = "running" /\ calling = {} /\ c.pending # {}
         \/ Continue(c) = "deciding" /\ c.status = "running" /\ calling = {} /\ c.pending = {}
  BY DEF Continue

LEMMA ShapesStep == Shapes /\ StatusIsKept /\ [Next]_vars => Shapes'
<1> SUFFICES ASSUME Shapes, StatusIsKept, [Next]_vars PROVE Shapes'
  OBVIOUS
<1> USE PaidRunAssumption
<1> DEFINE c == checkpoint
<1>0. WellFormed(c) /\ (run # NoFile => WellFormed(run)) /\ ProcessShape
  BY DEF Shapes
<1>1. CASE WriteFile
  <2>1. UNCHANGED <<program, checkpoint, calling>> /\ at = "writing"
    BY <1>1 DEF WriteFile
  <2>2. at' = "writing" \/ at' = Continue(c)
    BY <1>1 DEF WriteFile
  <2>3. step' \in {"predictions", "failures", "run"}
    BY <1>1 DEF WriteFile, Following
  <2>4. WellFormed(checkpoint)' /\ (run' # NoFile => WellFormed(run)')
    BY <1>0, <1>1, <2>1 DEF WriteFile, WellFormed, Announces
  <2>5. Remaining(checkpoint)' = Remaining(checkpoint) /\ Group(checkpoint)' = Group(checkpoint)
    BY <2>1 DEF Group, Remaining
  <2>6. ProcessShape'
    <3>1. CASE at' = "writing"
      BY <1>0, <2>1, <2>3, <2>5, <3>1 DEF ProcessShape, Active, Announces
    <3>2. CASE at' = Continue(c)
      BY <1>0, <2>1, <2>3, <2>5, <3>2, ContinueShape DEF ProcessShape, Active, Announces
    <3> QED BY <2>2, <3>1, <3>2
  <2> QED BY <2>4, <2>6 DEF Shapes
<1>2. CASE Completes
  <2>1. /\ at = "deciding" /\ at' = "writing" /\ UNCHANGED <<program, step, run, calling>>
        /\ \E s \in Statuses : checkpoint' = [c EXCEPT !.status = s]
    BY <1>2 DEF Completes, Save, fileVars, Statuses
  <2>2. WellFormed(checkpoint)'
    BY <1>0, <2>1 DEF WellFormed, Checkpoints, Announces
  <2>3. calling = {} /\ checkpoint'.pending = {}
    BY <1>0, <2>1 DEF ProcessShape, WellFormed, Checkpoints
  <2> QED BY <1>0, <2>1, <2>2, <2>3 DEF Shapes, ProcessShape, WellFormed, Announces
<1>3. CASE StopsAtLimit
  <2>1. /\ at = "deciding" /\ UNCHANGED <<program, step, run, calling>> /\ Remaining(c) # {}
        /\ at' \in {"writing", "ended"}
        /\ \/ checkpoint' = c
           \/ \E s \in Statuses :
                checkpoint' = [c EXCEPT !.status = s, !.failed = @ \cup {Min(Group(c))}]
           \/ \E s \in Statuses : checkpoint' = [c EXCEPT !.status = s, !.failed = @]
    BY <1>3 DEF StopsAtLimit, Decides, SaveUnless, Save, fileVars, Statuses
  <2>2. calling = {} /\ c.pending = {}
    BY <1>0, <2>1 DEF ProcessShape
  <2>3. Min(Group(c)) \in Items /\ Min(Group(c)) \notin c.done
    BY <2>1, GroupShape DEF Remaining
  <2>4. WellFormed(checkpoint)' /\ checkpoint'.pending = {}
    <3>1. c \in Checkpoints
      BY <1>0 DEF WellFormed
    <3>2. CASE checkpoint' = c
      BY <1>0, <2>1, <2>2, <3>2 DEF WellFormed, Announces
    <3>3. ASSUME NEW s \in Statuses,
                 checkpoint' = [c EXCEPT !.status = s, !.failed = @ \cup {Min(Group(c))}]
          PROVE  WellFormed(checkpoint)' /\ checkpoint'.pending = {}
      <4>1. checkpoint' \in Checkpoints
        BY <2>3, <3>1, <3>3 DEF Checkpoints
      <4>2. /\ checkpoint'.done = c.done /\ checkpoint'.pending = {}
            /\ checkpoint'.failed = c.failed \cup {Min(Group(c))}
        BY <2>2, <3>1, <3>3 DEF Checkpoints
      <4> QED BY <1>0, <2>1, <2>3, <4>1, <4>2 DEF WellFormed
    <3>4. ASSUME NEW s \in Statuses, checkpoint' = [c EXCEPT !.status = s, !.failed = @]
          PROVE  WellFormed(checkpoint)' /\ checkpoint'.pending = {}
      BY <1>0, <2>1, <2>2, <3>1, <3>4 DEF WellFormed, Checkpoints
    <3> QED BY <2>1, <3>2, <3>3, <3>4
  <2> QED BY <1>0, <2>1, <2>2, <2>4 DEF Shapes, ProcessShape, WellFormed, Announces
<1>4. CASE Announce
  <2>1. /\ at = "deciding" /\ UNCHANGED <<program, step, run, calling>>
        /\ \/ ~Announces /\ at' = "sending" /\ checkpoint' = c
           \/ at' = "writing" /\ checkpoint' = [c EXCEPT !.pending = Group(c)]
              /\ program \notin {"fallback", "input", "history"}
    BY <1>4 DEF Announce, Decides, SaveUnless, Save, fileVars, Announces
  <2>2. calling = {} /\ c.pending = {} /\ c.status \in Statuses
    BY <1>0, <2>1 DEF ProcessShape, WellFormed, Checkpoints
  <2>3. CASE ~Announces /\ at' = "sending" /\ checkpoint' = c
    BY <1>0, <2>1, <2>2, <2>3 DEF Shapes, ProcessShape, WellFormed, Announces
  <2>4. CASE at' = "writing" /\ checkpoint' = [c EXCEPT !.pending = Group(c)]
             /\ program \notin {"fallback", "input", "history"}
    <3>1. Announces
      BY <1>0, <2>4 DEF Announces, ProcessShape
    <3>2. Group(c) \subseteq Items /\ Group(c) \cap (c.done \cup c.failed) = {}
      BY GroupShape DEF Remaining
    <3>3. WellFormed(checkpoint)' /\ checkpoint'.pending = Group(c)
      BY <1>0, <2>1, <2>4, <3>1, <3>2 DEF WellFormed, Checkpoints, Announces
    <3>4. /\ checkpoint'.done = c.done /\ checkpoint'.failed = c.failed
          /\ checkpoint'.status = "running"
      BY <1>0, <2>1, <2>4, <3>1 DEF WellFormed, Checkpoints, StatusIsKept
    <3>5. Remaining(checkpoint)' = Remaining(c) /\ Group(checkpoint)' = Group(c)
      BY <2>1, <3>4 DEF Group, Remaining
    <3>6. ProcessShape'
      BY <1>0, <2>1, <2>2, <2>4, <3>3, <3>4, <3>5 DEF ProcessShape, Announces, Active
    <3> QED BY <1>0, <2>1, <3>3, <3>6 DEF Shapes, WellFormed, Announces
  <2> QED BY <2>1, <2>3, <2>4
<1>5. CASE Send
  <2>1. /\ at = "sending" /\ at' = "waiting" /\ UNCHANGED <<program, checkpoint, step, run>>
        /\ calling' = Group(c)
    BY <1>5 DEF Send, fileVars
  <2>2. Remaining(checkpoint)' = Remaining(c) /\ Group(checkpoint)' = Group(c)
    BY <2>1 DEF Group, Remaining
  <2>3. c.pending = Group(c) \/ ~Announces
    BY <1>0, <2>1 DEF ProcessShape
  <2> QED BY <1>0, <2>1, <2>2, <2>3, GroupShape DEF Shapes, ProcessShape, WellFormed, Announces
<1>6. ASSUME NEW i \in Items, Settle(i), Save(checkpoint'), checkpoint' \in Checkpoints,
             checkpoint'.pending = c.pending \ {i},
             \/ checkpoint'.done = c.done \cup {i} /\ checkpoint'.failed = c.failed
                /\ checkpoint'.status = c.status
             \/ checkpoint'.done = c.done /\ checkpoint'.failed = c.failed \cup {i}
                /\ (program = "answers" => checkpoint'.status = "running")
      PROVE  Shapes'
  <2>1. /\ at = "waiting" /\ at' = "writing" /\ i \in calling /\ calling' = calling \ {i}
        /\ UNCHANGED <<program, step, run>>
    BY <1>6 DEF Settle, Save, fileVars
  <2>2. i \in Remaining(c) /\ calling' \subseteq Remaining(checkpoint)'
    BY <1>0, <1>6, <2>1 DEF ProcessShape, Remaining
  <2>3. WellFormed(checkpoint)'
    BY <1>0, <1>6, <2>1, <2>2 DEF WellFormed, Announces, Remaining
  <2>4. program # "answers" => calling' = {}
    BY <1>0, <2>1 DEF ProcessShape
  <2>5. Announces => checkpoint'.pending = calling'
    BY <1>0, <1>6, <2>1 DEF ProcessShape
  <2>6. checkpoint'.status # "running" => calling' = {} /\ checkpoint'.pending = {}
    <3>1. program = "answers" => c.status = "running"
      BY <2>1 DEF StatusIsKept, Announces
    <3> QED BY <1>0, <1>6, <2>3, <2>4, <2>5, <3>1 DEF WellFormed, Announces
  <2> QED BY <1>0, <1>6, <2>1, <2>2, <2>3, <2>4, <2>5, <2>6 DEF Shapes, ProcessShape, WellFormed, Announces
<1>7. ASSUME NEW i \in Items, NEW price \in 1..MaxCost, Succeeds(i, price) PROVE Shapes'
  <2> DEFINE d == [c EXCEPT !.done = @ \cup {i}, !.pending = @ \ {i}, !.cost[i] = price]
  <2>1. Settle(i) /\ Save(d) /\ checkpoint' = d
    BY <1>7 DEF Succeeds, Save
  <2>2. c \in Checkpoints
    BY <1>0 DEF WellFormed
  <2>3. d \in Checkpoints /\ d.pending = c.pending \ {i} /\ d.done = c.done \cup {i} /\ d.failed = c.failed
        /\ d.status = c.status
    <3>1. price \in 0..MaxCost
      OBVIOUS
    <3> QED BY <2>2, <3>1 DEF Checkpoints
  <2> HIDE DEF d
  <2> QED BY <1>6, <2>1, <2>3
<1>8. ASSUME NEW i \in Items, NEW stage \in {"provider", "mismatch", "validation"},
             NEW price \in 0..MaxCost, NEW told \in 0..price, Fails(i, stage, price, told)
      PROVE Shapes'
  <2>1. PICK s \in Statuses :
          /\ Settle(i)
          /\ Save([c EXCEPT !.failed = @ \cup {i}, !.pending = @ \ {i}, !.cost[i] = told, !.status = s])
          /\ program = "answers" => s = "running"
    BY <1>8 DEF Fails, Statuses
  <2> DEFINE d == [c EXCEPT !.failed = @ \cup {i}, !.pending = @ \ {i}, !.cost[i] = told, !.status = s]
  <2>2. c \in Checkpoints /\ told \in 0..MaxCost
    BY <1>0 DEF WellFormed
  <2>3. d \in Checkpoints /\ d.pending = c.pending \ {i} /\ d.done = c.done /\ d.failed = c.failed \cup {i}
        /\ d.status = s
    BY <2>2 DEF Checkpoints
  <2>4. Save(d) /\ checkpoint' = d
    BY <2>1 DEF Save
  <2> HIDE DEF d
  <2> QED BY <1>6, <2>1, <2>3, <2>4
<1>9. ASSUME NEW bill \in 0..MaxCost * Workers, Lost(bill) PROVE Shapes'
  <2>1. /\ UNCHANGED <<program, run>> /\ at' = "lost" /\ checkpoint' = Fresh /\ calling' = {}
        /\ step' \in {"predictions", "run"}
    BY <1>9 DEF Lost, fileVars, FirstFile
  <2>2. Fresh.pending = {} /\ Fresh.status = "running" /\ WellFormed(checkpoint)'
    BY <2>1, FreshShape DEF Fresh, WellFormed, Announces
  <2> QED BY <1>0, <2>1, <2>2 DEF Shapes, ProcessShape, WellFormed, Announces, Active
<1>10. CASE Resume
  <2>1. UNCHANGED <<program, step, run, calling>> /\ calling = {} /\ c.pending = {}
    BY <1>0, <1>10 DEF Resume, ProcessShape, Save, fileVars
  <2>2. CASE at' \in {"refused", "ended"} /\ UNCHANGED checkpoint
    BY <1>0, <2>1, <2>2 DEF Shapes, ProcessShape, WellFormed, Announces, Active, Remaining
  <2>3. ASSUME WellFormed(checkpoint'), checkpoint'.pending = {}, at' \in {"writing", "deciding"}
        PROVE  Shapes'
    BY <1>0, <2>1, <2>3 DEF Shapes, ProcessShape, WellFormed, Announces, Active
  <2>4. ASSUME MayResume, program \in {"atomic", "history"}, Save([Carried(run) EXCEPT !.status = "running"])
        PROVE  Shapes'
    <3> DEFINE d == [Carried(run) EXCEPT !.status = "running"]
    <3>1. WellFormed(run)
      BY <1>0, <2>4 DEF MayResume, FilesAgree
    <3>2. run \in Checkpoints
      BY <3>1 DEF WellFormed
    <3>3. d \in Checkpoints /\ d.failed = {} /\ d.pending = {} /\ d.done = run.done
      <4>1. [i \in Items |-> IF i \in run.failed \cup run.pending THEN run.prior[i] + 1 ELSE run.prior[i]]
              \in [Items -> Nat]
        BY <3>2 DEF Checkpoints
      <4> QED BY <3>2, <4>1 DEF Carried, Checkpoints, Statuses
    <3>4. checkpoint' = d /\ at' = "writing"
      BY <2>4 DEF Save
    <3> HIDE DEF d
    <3> QED BY <2>3, <3>3, <3>4 DEF WellFormed
  <2>5. ASSUME MayResume, program \in {"frozen", "answers"}, Save([run EXCEPT !.status = "running"])
        PROVE  Shapes'
    <3>1. WellFormed(run) /\ run.pending = {}
      BY <1>0, <2>5 DEF MayResume, FilesAgree
    <3>2. checkpoint' = [run EXCEPT !.status = "running"] /\ at' = "writing"
      BY <2>5 DEF Save
    <3>3. WellFormed(checkpoint') /\ checkpoint'.pending = {}
      BY <3>1, <3>2 DEF WellFormed, Checkpoints, Statuses
    <3> QED BY <2>3, <3>2, <3>3
  <2>6. ASSUME MayResume, program \notin {"atomic", "history", "frozen", "answers"}, checkpoint' = run,
               at' = "deciding"
        PROVE  Shapes'
    <3>1. WellFormed(run) /\ run.pending = {}
      BY <1>0, <2>6 DEF MayResume, FilesAgree, WellFormed, Announces
    <3> QED BY <2>3, <2>6, <3>1
  <2> QED BY <1>10, <2>2, <2>4, <2>5, <2>6 DEF Resume
<1>11. CASE Over \/ UNCHANGED vars
  BY <1>0, <1>11 DEF Over, vars, fileVars, Shapes, ProcessShape, WellFormed, Announces, Active, Group, Remaining
<1> QED BY <1>1, <1>2, <1>3, <1>4, <1>5, <1>7, <1>8, <1>9, <1>10, <1>11 DEF Next

-----------------------------------------------------------------------------
LEMMA StatusStep == Shapes /\ StatusIsKept /\ [Next]_vars => StatusIsKept'
<1> SUFFICES ASSUME Shapes, StatusIsKept, [Next]_vars PROVE StatusIsKept'
  OBVIOUS
<1> USE PaidRunAssumption
<1> DEFINE c == checkpoint
<1>0. WellFormed(c) /\ c \in Checkpoints /\ (run # NoFile => WellFormed(run)) /\ ProcessShape
  BY DEF Shapes, WellFormed
<1>1. CASE WriteFile
  <2>1. UNCHANGED <<program, checkpoint>> /\ at = "writing"
        /\ (run' = run \/ run' = checkpoint) /\ (at' = "writing" \/ at' = Continue(c))
    BY <1>1 DEF WriteFile
  <2> QED BY <2>1, ContinueShape DEF StatusIsKept, ResumableIsUnbilled, Announces
<1>2. CASE Completes
  <2>1. /\ at' = "writing" /\ UNCHANGED <<program, run>>
        /\ \E s \in {"completed", "provider", "failed"} :
             checkpoint' = [c EXCEPT !.status = s] /\ (s = "provider" => program = "history")
    BY <1>2 DEF Completes, Save, fileVars
  <2> QED BY <1>0, <2>1 DEF StatusIsKept, ResumableIsUnbilled, Checkpoints, Announces
<1>3. CASE StopsAtLimit
  <2>1. UNCHANGED <<program, run>> /\ at' \in {"writing", "ended"}
    BY <1>3 DEF StopsAtLimit, SaveUnless, Save, fileVars
  <2>2. program = "atomic" => checkpoint' = [c EXCEPT !.status = "stopped", !.failed = @]
    BY <1>3 DEF StopsAtLimit, SaveUnless, Save, fileVars
  <2> QED BY <1>0, <2>1, <2>2 DEF StatusIsKept, ResumableIsUnbilled, Checkpoints, Announces
<1>4. CASE Announce
  <2>1. /\ UNCHANGED <<program, run>> /\ at = "deciding"
        /\ \/ at' = "sending" /\ checkpoint' = c
           \/ at' = "writing" /\ checkpoint' = [c EXCEPT !.pending = Group(c)]
    BY <1>4 DEF Announce, Decides, SaveUnless, Save, fileVars
  <2> QED BY <1>0, <2>1 DEF StatusIsKept, ResumableIsUnbilled, Checkpoints, Announces
<1>5. CASE Send
  BY <1>5 DEF Send, fileVars, StatusIsKept, ResumableIsUnbilled, Announces
<1>6. ASSUME NEW i \in Items, NEW price \in 1..MaxCost, Succeeds(i, price) PROVE StatusIsKept'
  <2>1. /\ UNCHANGED <<program, run>> /\ at' = "writing" /\ i \in calling
        /\ checkpoint' = [c EXCEPT !.done = @ \cup {i}, !.pending = @ \ {i}, !.cost[i] = price]
    BY <1>6 DEF Succeeds, Settle, Save, fileVars
  <2>2. i \notin c.failed
    BY <1>0, <2>1 DEF ProcessShape, Remaining
  <2>3. checkpoint'.status = c.status /\ checkpoint'.failed = c.failed
        /\ \A k \in c.failed : checkpoint'.cost[k] = c.cost[k]
    BY <1>0, <2>1, <2>2 DEF Checkpoints
  <2> QED BY <2>1, <2>3 DEF StatusIsKept, ResumableIsUnbilled, Announces
<1>7. ASSUME NEW i \in Items, NEW stage \in {"provider", "mismatch", "validation"},
             NEW price \in 0..MaxCost, NEW told \in 0..price, Fails(i, stage, price, told)
      PROVE StatusIsKept'
  <2>1. UNCHANGED <<program, run>> /\ at = "waiting" /\ at' = "writing"
    BY <1>7 DEF Fails, Settle, Save, fileVars
  <2>2. ASSUME program = "atomic" PROVE ResumableIsUnbilled(checkpoint)'
    <3>1. CASE stage = "provider"
      <4>1. told = 0 /\ checkpoint' = [c EXCEPT !.failed = @ \cup {i}, !.pending = @ \ {i}, !.cost[i] = 0,
                                               !.status = "provider"]
        BY <1>7, <2>2, <3>1 DEF Fails, Save
      <4>2. \A k \in c.failed : c.cost[k] = 0
        BY <2>1, <2>2 DEF StatusIsKept, ResumableIsUnbilled, Announces
      <4>3. checkpoint'.failed = c.failed \cup {i} /\ checkpoint'.cost[i] = 0
            /\ \A k \in c.failed : checkpoint'.cost[k] = 0
        BY <1>0, <4>1, <4>2 DEF Checkpoints
      <4> QED BY <4>3 DEF ResumableIsUnbilled
    <3>2. CASE stage # "provider"
      <4>1. checkpoint' = [c EXCEPT !.failed = @ \cup {i}, !.pending = @ \ {i}, !.cost[i] = told,
                                    !.status = "failed"]
        BY <1>7, <2>2, <3>2 DEF Fails, Save
      <4>2. checkpoint'.status = "failed"
        BY <1>0, <4>1 DEF Checkpoints
      <4> QED BY <4>2 DEF ResumableIsUnbilled
    <3> QED BY <3>1, <3>2
  <2> QED BY <2>1, <2>2 DEF StatusIsKept, ResumableIsUnbilled
<1>8. ASSUME NEW bill \in 0..MaxCost * Workers, Lost(bill) PROVE StatusIsKept'
  <2>1. UNCHANGED <<program, run>> /\ at' = "lost" /\ checkpoint' = Fresh
    BY <1>8 DEF Lost, fileVars
  <2> QED BY <2>1 DEF StatusIsKept, ResumableIsUnbilled, Fresh
<1>9. CASE Resume
  <2>1. UNCHANGED <<program, run>>
    BY <1>9 DEF Resume, Save, fileVars
  <2>2. CASE at' \in {"refused", "ended"} /\ UNCHANGED checkpoint
    BY <2>1, <2>2 DEF StatusIsKept, ResumableIsUnbilled
  <2>3. CASE MayResume /\ program \in {"atomic", "history"} /\ Save([Carried(run) EXCEPT !.status = "running"])
    <3>1. run \in Checkpoints
      BY <1>0, <2>3 DEF MayResume, FilesAgree, WellFormed
    <3>2. checkpoint'.failed = {} /\ at' = "writing"
      BY <2>3, <3>1 DEF Save, Carried, Checkpoints
    <3> QED BY <2>1, <3>2 DEF StatusIsKept, ResumableIsUnbilled
  <2>4. CASE program \in {"frozen", "answers"} /\ Save([run EXCEPT !.status = "running"])
    BY <2>1, <2>4 DEF Save, StatusIsKept, ResumableIsUnbilled
  <2>5. CASE program \notin {"atomic", "history", "frozen", "answers"} /\ checkpoint' = run
    BY <2>1, <2>5 DEF StatusIsKept, ResumableIsUnbilled, Announces
  <2> QED BY <1>9, <2>2, <2>3, <2>4, <2>5 DEF Resume
<1>10. CASE Over \/ UNCHANGED vars
  BY <1>10 DEF Over, vars, fileVars, StatusIsKept, ResumableIsUnbilled, Announces
<1> QED BY <1>1, <1>2, <1>3, <1>4, <1>5, <1>6, <1>7, <1>8, <1>9, <1>10 DEF Next

-----------------------------------------------------------------------------
(* c keeps what d has as done or as billed.                                    *)
Keeps(c, d) ==
  /\ \A i \in d.done : i \in c.done /\ c.cost[i] = d.cost[i]
  /\ \A i \in d.failed : d.cost[i] > 0 => i \in c.failed /\ c.cost[i] = d.cost[i]

LEMMA HeldIsKept == StoredIsHeld <=> (Active /\ run # NoFile => Keeps(checkpoint, run))
  BY DEF StoredIsHeld, Keeps

(* While a process runs its checkpoint only grows.                             *)
LEMMA CheckpointGrows ==
  ASSUME Shapes, Next, Active, Active'
  PROVE  Keeps(checkpoint', checkpoint)
<1> USE PaidRunAssumption
<1> DEFINE c == checkpoint
<1>0. c \in Checkpoints /\ ProcessShape
  BY DEF Shapes, WellFormed
<1>1. CASE UNCHANGED checkpoint
  BY <1>1 DEF Keeps
<1>2. CASE Completes
  <2>1. \E s : checkpoint' = [c EXCEPT !.status = s]
    BY <1>2 DEF Completes, Save
  <2> QED BY <1>0, <2>1 DEF Keeps, Checkpoints
<1>3. CASE StopsAtLimit
  <2>1. \/ checkpoint' = c
        \/ \E s : checkpoint' = [c EXCEPT !.status = s, !.failed = @ \cup {Min(Group(c))}]
        \/ \E s : checkpoint' = [c EXCEPT !.status = s, !.failed = @]
    BY <1>3 DEF StopsAtLimit, SaveUnless, Save
  <2> QED BY <1>0, <2>1 DEF Keeps, Checkpoints
<1>4. CASE Announce
  <2>1. checkpoint' = c \/ checkpoint' = [c EXCEPT !.pending = Group(c)]
    BY <1>4 DEF Announce, SaveUnless, Save
  <2> QED BY <1>0, <2>1 DEF Keeps, Checkpoints
<1>5. ASSUME NEW i \in Items, NEW price \in 1..MaxCost, Succeeds(i, price)
      PROVE  Keeps(checkpoint', checkpoint)
  <2>1. i \in Remaining(c)
        /\ checkpoint' = [c EXCEPT !.done = @ \cup {i}, !.pending = @ \ {i}, !.cost[i] = price]
    BY <1>0, <1>5 DEF Succeeds, Settle, Save, ProcessShape
  <2> QED BY <1>0, <2>1 DEF Keeps, Checkpoints, Remaining
<1>6. ASSUME NEW i \in Items, NEW stage \in {"provider", "mismatch", "validation"},
             NEW price \in 0..MaxCost, NEW told \in 0..price, Fails(i, stage, price, told)
      PROVE  Keeps(checkpoint', checkpoint)
  <2>1. i \in Remaining(c)
        /\ \E s : checkpoint' = [c EXCEPT !.failed = @ \cup {i}, !.pending = @ \ {i}, !.cost[i] = told,
                                          !.status = s]
    BY <1>0, <1>6 DEF Fails, Settle, Save, ProcessShape
  <2> QED BY <1>0, <2>1 DEF Keeps, Checkpoints, Remaining
<1> QED BY <1>1, <1>2, <1>3, <1>4, <1>5, <1>6 DEF Next, WriteFile, Send, Lost, Resume, Over, vars, Active

LEMMA HeldStep == Shapes /\ StatusIsKept /\ StoredIsHeld /\ [Next]_vars => StoredIsHeld'
<1> SUFFICES ASSUME Shapes, StatusIsKept, StoredIsHeld, [Next]_vars, Active', run' # NoFile
             PROVE  Keeps(checkpoint', run')
  BY HeldIsKept DEF StoredIsHeld, Keeps
<1>1. CASE Resume
  <2>1. run' = run /\ MayResume /\ run # NoFile /\ run \in Checkpoints
    BY <1>1 DEF Resume, Save, fileVars, MayResume, FilesAgree, Active, Shapes, WellFormed
  <2>2. CASE program \in {"atomic", "history"} /\ Save([Carried(run) EXCEPT !.status = "running"])
    <3>1. \A i \in run.failed : run.cost[i] = 0
      BY <2>1, <2>2 DEF MayResume, StatusIsKept, ResumableIsUnbilled
    <3>2. checkpoint'.done = run.done /\ checkpoint'.cost = run.cost
      BY <2>1, <2>2 DEF Save, Carried, Checkpoints
    <3> QED BY <2>1, <3>1, <3>2 DEF Keeps
  <2>3. CASE Save([run EXCEPT !.status = "running"])
    BY <2>1, <2>3 DEF Save, Keeps, Checkpoints
  <2>4. CASE checkpoint' = run
    BY <2>1, <2>4 DEF Keeps
  <2> QED BY <1>1, <2>2, <2>3, <2>4 DEF Resume, Active
<1>2. CASE WriteFile
  BY <1>2, HeldIsKept DEF WriteFile, Keeps, Active
<1>3. CASE Next /\ ~Resume /\ ~WriteFile
  <2>1. run' = run /\ Active
    BY <1>3 DEF Next, Completes, StopsAtLimit, Decides, Announce, SaveUnless, Send, Succeeds, Fails, Settle,
       Save, Lost, Over, fileVars, vars, Active
  <2>2. Keeps(checkpoint, run) /\ Keeps(checkpoint', checkpoint)
    BY <1>3, <2>1, CheckpointGrows, HeldIsKept
  <2> QED BY <2>1, <2>2 DEF Keeps
<1>4. CASE UNCHANGED vars
  BY <1>4, HeldIsKept DEF vars, fileVars, Active
<1> QED BY <1>1, <1>2, <1>3, <1>4

-----------------------------------------------------------------------------
PaidRunInv == Shapes /\ StatusIsKept /\ StoredIsHeld

LEMMA InvStart == PaidRunInit => PaidRunInv
<1> SUFFICES ASSUME PaidRunInit PROVE PaidRunInv
  OBVIOUS
<1>1. WellFormed(checkpoint)
  BY FreshShape DEF PaidRunInit
<1>2. ProcessShape
  BY DEF PaidRunInit, ProcessShape, FirstFile, Fresh, Active
<1>3. StatusIsKept /\ StoredIsHeld
  BY DEF PaidRunInit, StatusIsKept, StoredIsHeld, ResumableIsUnbilled, Fresh
<1> QED BY <1>1, <1>2, <1>3 DEF PaidRunInv, Shapes, PaidRunInit

LEMMA InvStep == PaidRunInv /\ [Next]_vars => PaidRunInv'
  BY ShapesStep, StatusStep, HeldStep DEF PaidRunInv

(* The invariant holds of every run of a paid program: the three files and the *)
(* process are well formed, agree on the status, and what the run file holds   *)
(* the running process holds too.                                              *)
THEOREM InvAlways == Spec => []PaidRunInv
  BY InvStart, InvStep, PTL DEF Spec

(* What is stored as done keeps its prediction, and no request is sent again   *)
(* whose answer is stored, over any number of lost and resumed processes       *)
(* (run_atomic, b1_full_history, frozen_run, frozen_answers and Phase 4).      *)
THEOREM SuccessIsAlwaysFinal == Spec => SuccessIsFinal
<1> DEFINE A == run # NoFile =>
       /\ \A i \in run.done : i \in run'.done /\ run'.cost[i] = run.cost[i]
       /\ \A i \in Items :
            i \in run.done \/ (i \in run.failed /\ run.cost[i] > 0) => requests'[i] = requests[i]
<1>1. ASSUME PaidRunInv, [Next]_vars, run # NoFile
      PROVE  \A i \in run.done : i \in run'.done /\ run'.cost[i] = run.cost[i]
  <2>1. CASE run' = run
    BY <2>1
  <2>2. CASE WriteFile /\ run' = checkpoint
    BY <1>1, <2>2 DEF PaidRunInv, StoredIsHeld, WriteFile, Active
  <2> QED BY <1>1, <2>1, <2>2 DEF Next, WriteFile, Completes, StopsAtLimit, Announce, SaveUnless, Send,
       Succeeds, Fails, Save, Lost, Resume, Over, fileVars, vars
<1>2. ASSUME PaidRunInv, [Next]_vars, run # NoFile, NEW i \in Items,
             i \in run.done \/ (i \in run.failed /\ run.cost[i] > 0)
      PROVE  requests'[i] = requests[i]
  <2>1. CASE requests' = requests
    BY <2>1
  <2>2. CASE Send
    <3>1. i \notin Group(checkpoint)
      BY <1>2, <2>2, GroupShape DEF PaidRunInv, StoredIsHeld, Send, Active, Remaining
    <3> QED BY <2>2, <3>1 DEF Send
  <2> QED BY <1>2, <2>1, <2>2 DEF Next, WriteFile, Completes, StopsAtLimit, Announce, Succeeds, Fails,
       Settle, Lost, Resume, Over, vars
<1>3. PaidRunInv /\ [Next]_vars => [A]_vars
  BY <1>1, <1>2
<1> QED BY <1>3, InvAlways, PTL DEF Spec, SuccessIsFinal

-----------------------------------------------------------------------------
(* Sums.                                                                        *)
Units(f, S) == UNION {{i} \X (1..f[i]) : i \in S}

LEMMA UnitIn ==
  ASSUME NEW f, NEW S, NEW x
  PROVE  x \in Units(f, S) <=> \E i \in S : \E n \in 1..f[i] : x = <<i, n>>
BY DEF Units

LEMMA IntervalSize == ASSUME NEW n \in Nat PROVE IsFiniteSet(1..n) /\ Cardinality(1..n) = n
<1>1. 1 \in Int /\ n \in Int
  OBVIOUS
<1>2. IsFiniteSet(1..n) /\ Cardinality(1..n) = IF 1 > n THEN 0 ELSE n - 1 + 1
  BY <1>1, FS_Interval
<1> QED BY <1>2

LEMMA UnitsAreFinite ==
  ASSUME NEW f \in [Items -> Nat], NEW S \in SUBSET Items
  PROVE  IsFiniteSet(Units(f, S))
<1> DEFINE T == {{i} \X (1..f[i]) : i \in S}
           g == [i \in S |-> {i} \X (1..f[i])]
<1>1. IsFiniteSet(S)
  BY PaidRunAssumption, FS_Subset
<1>2. g \in Surjection(S, T)
  <2>1. g \in [S -> T] /\ \A t \in T : \E i \in S : g[i] = t
    OBVIOUS
  <2> HIDE DEF g, T
  <2> QED BY <2>1 DEF Surjection
<1>3. \A t \in T : IsFiniteSet(t)
  <2> SUFFICES ASSUME NEW i \in S PROVE IsFiniteSet({i} \X (1..f[i]))
    OBVIOUS
  <2>1. IsFiniteSet({i}) /\ IsFiniteSet(1..f[i])
    BY FS_Singleton, IntervalSize
  <2> QED BY <2>1, FS_Product
<1>4. Units(f, S) = UNION T
  BY DEF Units
<1> HIDE DEF g, T
<1>5. IsFiniteSet(T)
  BY <1>1, <1>2, FS_Surjection
<1> QED BY <1>3, <1>4, <1>5, FS_UNION

LEMMA TotalType ==
  ASSUME NEW f \in [Items -> Nat], NEW S \in SUBSET Items
  PROVE  Total(f, S) \in Nat /\ Total(f, S) = Cardinality(Units(f, S))
BY UnitsAreFinite, FS_CardinalityType DEF Total, Units

LEMMA TotalOfNothing == ASSUME NEW f PROVE Total(f, {}) = 0
BY FS_EmptySet DEF Total

LEMMA TotalSame ==
  ASSUME NEW f, NEW g, NEW S, \A i \in S : f[i] = g[i]
  PROVE  Total(f, S) = Total(g, S)
<1>1. {{i} \X (1..f[i]) : i \in S} = {{i} \X (1..g[i]) : i \in S}
  OBVIOUS
<1> QED BY <1>1 DEF Total

LEMMA TotalOfZeros ==
  ASSUME NEW f, NEW S, NEW T, \A i \in T : f[i] = 0
  PROVE  Total(f, S \cup T) = Total(f, S)
<1>1. Units(f, S \cup T) = Units(f, S)
  <2>1. \A i \in T : 1..f[i] = {}
    OBVIOUS
  <2>2. \A x : x \in Units(f, S \cup T) <=> x \in Units(f, S)
    BY <2>1, UnitIn
  <2> HIDE DEF Units
  <2> QED BY <2>2
<1> QED BY <1>1 DEF Total, Units

LEMMA TotalLess ==
  ASSUME NEW f \in [Items -> Nat], NEW g \in [Items -> Nat], NEW S \in SUBSET Items,
         \A i \in S : f[i] <= g[i]
  PROVE  Total(f, S) <= Total(g, S)
<1>1. Units(f, S) \subseteq Units(g, S)
  <2> SUFFICES ASSUME NEW x \in Units(f, S) PROVE x \in Units(g, S)
    OBVIOUS
  <2>1. PICK i \in S : \E n \in 1..f[i] : x = <<i, n>>
    BY UnitIn
  <2>2. \A n \in 1..f[i] : n \in 1..g[i]
    OBVIOUS
  <2> QED BY <2>1, <2>2, UnitIn
<1> QED BY <1>1, TotalType, UnitsAreFinite, FS_Subset

LEMMA TotalAdds ==
  ASSUME NEW f \in [Items -> Nat], NEW S \in SUBSET Items, NEW i \in Items, i \notin S
  PROVE  Total(f, S \cup {i}) = Total(f, S) + f[i]
<1> DEFINE U == {i} \X (1..f[i])
<1>1. IsFiniteSet(U) /\ Cardinality(U) = f[i]
  <2>1. IsFiniteSet({i}) /\ Cardinality({i}) = 1 /\ IsFiniteSet(1..f[i]) /\ Cardinality(1..f[i]) = f[i]
    BY FS_Singleton, IntervalSize
  <2>2. IsFiniteSet(U) /\ Cardinality(U) = Cardinality({i}) * Cardinality(1..f[i])
    BY <2>1, FS_Product
  <2>3. f[i] \in Nat
    OBVIOUS
  <2> HIDE DEF U
  <2> QED BY <2>1, <2>2, <2>3
<1>2. Units(f, S \cup {i}) = Units(f, S) \cup U
  <2>1. \A x : x \in U <=> \E n \in 1..f[i] : x = <<i, n>>
    OBVIOUS
  <2>2. \A x : x \in Units(f, S \cup {i}) <=> x \in Units(f, S) \/ x \in U
    BY <2>1, UnitIn
  <2> QED BY <2>2
<1>3. Units(f, S) \cap U = {}
  <2>1. \A x \in U : x[1] = i
    OBVIOUS
  <2>2. \A x \in Units(f, S) : x[1] # i
    BY UnitIn
  <2> QED BY <2>1, <2>2
<1>4. IsFiniteSet(Units(f, S)) /\ Cardinality(Units(f, S)) \in Nat
  BY UnitsAreFinite, FS_CardinalityType
<1> HIDE DEF U
<1>5. Cardinality(Units(f, S) \cup U) = Cardinality(Units(f, S)) + Cardinality(U) - Cardinality(Units(f, S) \cap U)
  BY <1>1, <1>4, FS_Union
<1>6. Cardinality(Units(f, S) \cap U) = 0
  BY <1>3, FS_EmptySet
<1>7. Total(f, S \cup {i}) = Cardinality(Units(f, S \cup {i})) /\ Total(f, S) = Cardinality(Units(f, S))
  BY TotalType
<1>8. f[i] \in Nat
  OBVIOUS
<1>9. Cardinality(Units(f, S) \cup U) = Cardinality(Units(f, S)) + f[i]
  BY <1>1, <1>4, <1>5, <1>6, <1>8
<1> QED BY <1>2, <1>7, <1>9

(* One more for each of A.                                                      *)
LEMMA TotalGrows ==
  ASSUME NEW f \in [Items -> Nat], NEW g \in [Items -> Nat], NEW A \in SUBSET Items,
         \A i \in Items : g[i] = f[i] + IF i \in A THEN 1 ELSE 0
  PROVE  Total(g, Items) = Total(f, Items) + Cardinality(A)
<1> DEFINE U == {<<i, g[i]>> : i \in A}
           h == [i \in A |-> <<i, g[i]>>]
<1>1. IsFiniteSet(A)
  BY PaidRunAssumption, FS_Subset
<1>2. h \in Bijection(A, U)
  <2>1. h \in [A -> U] /\ \A t \in U : \E i \in A : h[i] = t
    OBVIOUS
  <2>2. \A i, k \in A : h[i] = h[k] => i = k
    OBVIOUS
  <2> HIDE DEF h, U
  <2> QED BY <2>1, <2>2 DEF Bijection, Surjection, Injection, IsInjective
<1>3. \A i \in A : g[i] = f[i] + 1 /\ g[i] \in Nat
  OBVIOUS
<1>4. Units(g, Items) = Units(f, Items) \cup U
  <2> SUFFICES ASSUME NEW x PROVE x \in Units(g, Items) <=> x \in Units(f, Items) \/ x \in U
    OBVIOUS
  <2>1. x \in U <=> \E i \in A : x = <<i, g[i]>>
    OBVIOUS
  <2> HIDE DEF U
  <2>2. ASSUME x \in Units(g, Items) PROVE x \in Units(f, Items) \/ x \in U
    <3>1. PICK i \in Items : \E n \in 1..g[i] : x = <<i, n>>
      BY <2>2, UnitIn
    <3>2. PICK n \in 1..g[i] : x = <<i, n>>
      BY <3>1
    <3>3. n \in 1..f[i] \/ (i \in A /\ n = g[i])
      OBVIOUS
    <3> QED BY <2>1, <3>2, <3>3, UnitIn
  <2>3. ASSUME x \in Units(f, Items) PROVE x \in Units(g, Items)
    <3>1. PICK i \in Items : \E n \in 1..f[i] : x = <<i, n>>
      BY <2>3, UnitIn
    <3>2. PICK n \in 1..f[i] : x = <<i, n>>
      BY <3>1
    <3>3. n \in 1..g[i]
      OBVIOUS
    <3> QED BY <3>2, <3>3, UnitIn
  <2>4. ASSUME x \in U PROVE x \in Units(g, Items)
    <3>1. PICK i \in A : x = <<i, g[i]>>
      BY <2>1, <2>4
    <3>2. g[i] \in 1..g[i]
      BY <1>3
    <3> QED BY <3>1, <3>2, UnitIn
  <2> QED BY <2>2, <2>3, <2>4
<1>5. Units(f, Items) \cap U = {}
  <2> SUFFICES ASSUME NEW i \in A, <<i, g[i]>> \in Units(f, Items) PROVE FALSE
    OBVIOUS
  <2>1. PICK k \in Items : \E n \in 1..f[k] : <<i, g[i]>> = <<k, n>>
    BY UnitIn
  <2>2. g[i] \in 1..f[i]
    BY <2>1
  <2> QED BY <1>3, <2>2
<1>6. IsFiniteSet(Units(f, Items)) /\ Cardinality(Units(f, Items)) \in Nat
  BY UnitsAreFinite, FS_CardinalityType
<1> HIDE DEF U, h
<1>7. IsFiniteSet(U) /\ Cardinality(U) = Cardinality(A) /\ Cardinality(U) \in Nat
  <2>1. ExistsBijection(A, U)
    BY <1>2 DEF ExistsBijection
  <2> QED BY <1>1, <2>1, FS_Bijection, FS_CardinalityType
<1>8. Cardinality(Units(f, Items) \cup U) = Cardinality(Units(f, Items)) + Cardinality(U) - Cardinality(Units(f, Items) \cap U)
  BY <1>6, <1>7, FS_Union
<1>9. Cardinality(Units(f, Items) \cap U) = 0
  BY <1>5, FS_EmptySet
<1>10. Total(f, Items) = Cardinality(Units(f, Items)) /\ Total(g, Items) = Cardinality(Units(g, Items))
  BY TotalType
<1> QED BY <1>4, <1>6, <1>7, <1>8, <1>9, <1>10

-----------------------------------------------------------------------------
(* What a checkpoint counts: the requests for each item, what run_atomic owes   *)
(* at most and what the frozen run has booked.                                  *)
Tried(c) == [i \in Items |-> c.prior[i] + IF i \in c.done \cup c.failed \cup c.pending THEN 1 ELSE 0]
Repeats(f) == [i \in Items |-> IF f[i] > 1 THEN f[i] - 1 ELSE 0]
Unknown(c) == {i \in c.failed : c.cost[i] = 0}
Owed(c) == Total(c.cost, c.done \cup c.failed)
           + MaxCost * (Cardinality(c.pending) + Total(c.prior, Items) + Cardinality(Unknown(c)))
Earned(c) == Total(c.cost, c.done)

LEMMA FieldsOf ==
  ASSUME NEW c \in Checkpoints
  PROVE  /\ c.status \in Statuses
         /\ c.done \in SUBSET Items /\ c.failed \in SUBSET Items /\ c.pending \in SUBSET Items
         /\ c.cost \in [Items -> 0..MaxCost] /\ c.cost \in [Items -> Nat] /\ c.prior \in [Items -> Nat]
         /\ Tried(c) \in [Items -> Nat] /\ Repeats(Tried(c)) \in [Items -> Nat]
         /\ MaxCost \in Nat
<1>1. MaxCost \in Nat
  BY PaidRunAssumption
<1>2. c.cost \in [Items -> 0..MaxCost] /\ c.prior \in [Items -> Nat]
  BY DEF Checkpoints
<1>3. \A n \in 0..MaxCost : n \in Nat
  BY <1>1
<1>4. c.cost \in [Items -> Nat]
  BY <1>2, <1>3
<1>5. Tried(c) \in [Items -> Nat]
  BY <1>2 DEF Tried
<1>6. Repeats(Tried(c)) \in [Items -> Nat]
  BY <1>5 DEF Repeats
<1> QED BY <1>1, <1>2, <1>4, <1>5, <1>6 DEF Checkpoints

LEMMA CountOf ==
  ASSUME NEW S \in SUBSET Items
  PROVE  IsFiniteSet(S) /\ Cardinality(S) \in Nat
BY PaidRunAssumption, FS_Subset, FS_CardinalityType

LEMMA OwedType ==
  ASSUME NEW c \in Checkpoints
  PROVE  /\ Total(c.cost, c.done \cup c.failed) \in Nat /\ Total(c.prior, Items) \in Nat
         /\ Cardinality(c.pending) \in Nat /\ Cardinality(Unknown(c)) \in Nat
         /\ Owed(c) \in Nat /\ Earned(c) \in Nat
<1>1. /\ Total(c.cost, c.done \cup c.failed) \in Nat /\ Total(c.prior, Items) \in Nat
      /\ Total(c.cost, c.done) \in Nat
  <2>1. c.done \cup c.failed \in SUBSET Items /\ Items \in SUBSET Items
    BY FieldsOf
  <2> QED BY <2>1, FieldsOf, TotalType
<1>2. Cardinality(c.pending) \in Nat /\ Cardinality(Unknown(c)) \in Nat
  <2>1. Unknown(c) \in SUBSET Items
    BY FieldsOf DEF Unknown
  <2> QED BY <2>1, FieldsOf, CountOf
<1>3. MaxCost \in Nat
  BY FieldsOf
<1> DEFINE n == Cardinality(c.pending) + Total(c.prior, Items) + Cardinality(Unknown(c))
<1>4. n \in Nat
  BY <1>1, <1>2
<1>5. Owed(c) = Total(c.cost, c.done \cup c.failed) + MaxCost * n
  BY DEF Owed
<1> HIDE DEF n
<1>6. MaxCost * n \in Nat
  BY <1>3, <1>4
<1> QED BY <1>1, <1>2, <1>5, <1>6 DEF Earned

LEMMA BookedOf ==
  ASSUME NEW c
  PROVE  /\ program = "atomic" => Booked(c) = Owed(c)
         /\ program = "frozen" => Booked(c) = Earned(c) + MaxCost * 0
BY DEF Booked, Unanswered, Owed, Earned, Unknown

(* The requests of a stored record, and those that repeat an earlier one.       *)
LEMMA TriedCounts ==
  ASSUME NEW c \in Checkpoints
  PROVE  /\ Total(Tried(c), Items) =
              Total(c.prior, Items) + Cardinality(c.done \cup c.failed \cup c.pending)
         /\ Total(Tried(c), Items) =
              Total(Repeats(Tried(c)), Items) + Cardinality({i \in Items : Tried(c)[i] > 0})
<1> DEFINE f == Tried(c)
           A == c.done \cup c.failed \cup c.pending
           B == {i \in Items : f[i] > 0}
<1>1. f \in [Items -> Nat] /\ Repeats(f) \in [Items -> Nat] /\ c.prior \in [Items -> Nat]
      /\ A \in SUBSET Items /\ B \in SUBSET Items
  BY FieldsOf
<1>2. \A i \in Items : f[i] = c.prior[i] + IF i \in A THEN 1 ELSE 0
  BY DEF Tried
<1>3. \A i \in Items : f[i] = Repeats(f)[i] + IF i \in B THEN 1 ELSE 0
  BY <1>1 DEF Repeats
<1> HIDE DEF f, A, B
<1>4. Total(f, Items) = Total(c.prior, Items) + Cardinality(A)
  BY <1>1, <1>2, TotalGrows
<1>5. Total(f, Items) = Total(Repeats(f), Items) + Cardinality(B)
  BY <1>1, <1>3, TotalGrows
<1> QED BY <1>4, <1>5 DEF f, A, B

(* A request that is answered.                                                  *)
LEMMA CostOfAnswer ==
  ASSUME NEW c \in Checkpoints, NEW i \in Items, NEW x \in 0..MaxCost, NEW S \in SUBSET Items,
         i \notin S
  PROVE  Total([c.cost EXCEPT ![i] = x], S \cup {i}) = Total(c.cost, S) + x
<1> DEFINE g == [c.cost EXCEPT ![i] = x]
<1>1. g \in [Items -> Nat] /\ g[i] = x /\ \A k \in S : g[k] = c.cost[k]
  <2>1. x \in Nat
    BY FieldsOf
  <2> QED BY <2>1, FieldsOf
<1> HIDE DEF g
<1>2. Total(g, S \cup {i}) = Total(g, S) + g[i]
  BY <1>1, TotalAdds
<1>3. Total(g, S) = Total(c.cost, S)
  BY <1>1, TotalSame
<1> QED BY <1>1, <1>2, <1>3 DEF g

LEMMA Distributes ==
  ASSUME NEW a \in Nat, NEW b \in Nat
  PROVE  MaxCost * (a + b) = MaxCost * a + MaxCost * b /\ MaxCost * a \in Nat /\ MaxCost * 0 = 0 /\ MaxCost * 1 = MaxCost
BY PaidRunAssumption

LEMMA AnswerSettles ==
  ASSUME NEW c \in Checkpoints, NEW d \in Checkpoints, NEW i \in c.pending, NEW x \in 0..MaxCost,
         c.done \cap c.failed = {}, (c.done \cup c.failed) \cap c.pending = {},
         d.pending = c.pending \ {i}, d.prior = c.prior, d.cost = [c.cost EXCEPT ![i] = x],
         \/ d.done = c.done \cup {i} /\ d.failed = c.failed
         \/ d.done = c.done /\ d.failed = c.failed \cup {i}
  PROVE  /\ Tried(d) = Tried(c)
         /\ Cardinality(d.pending) = Cardinality(c.pending) - 1
         /\ d.done # c.done => Earned(d) = Earned(c) + x
         /\ d.done = c.done => Earned(d) = Earned(c)
         /\ Owed(d) = Owed(c) + x - (IF d.done = c.done /\ x = 0 THEN 0 ELSE MaxCost)
<1>0. /\ c.done \in SUBSET Items /\ c.failed \in SUBSET Items /\ i \in Items
      /\ i \notin c.done /\ i \notin c.failed /\ c.pending \in SUBSET Items
      /\ c.cost \in [Items -> Nat] /\ MaxCost \in Nat /\ x \in Nat
  BY FieldsOf
<1>1. d.done \cup d.failed = (c.done \cup c.failed) \cup {i}
  OBVIOUS
<1>2. Tried(d) = Tried(c)
  <2>1. d.done \cup d.failed \cup d.pending = c.done \cup c.failed \cup c.pending
    BY <1>1
  <2> QED BY <2>1 DEF Tried
<1>3. Cardinality(d.pending) = Cardinality(c.pending) - 1
  BY <1>0, CountOf, FS_RemoveElement
<1>4. Total(d.cost, d.done \cup d.failed) = Total(c.cost, c.done \cup c.failed) + x
  BY <1>0, <1>1, CostOfAnswer
<1>5. d.done # c.done => Earned(d) = Earned(c) + x
  BY <1>0, CostOfAnswer DEF Earned
<1>6. d.done = c.done => Earned(d) = Earned(c)
  <2>1. \A k \in c.done : d.cost[k] = c.cost[k]
    BY <1>0
  <2> DEFINE f == d.cost
             g == c.cost
             S == c.done
  <2>2. Total(f, S) = Total(g, S)
    <3>1. \A k \in S : f[k] = g[k]
      BY <2>1
    <3> HIDE DEF f, g, S
    <3> QED BY <3>1, TotalSame
  <2> QED BY <2>2 DEF Earned
<1>7. d.cost[i] = x /\ \A k \in Items \ {i} : d.cost[k] = c.cost[k]
  BY <1>0
<1>8. Cardinality(Unknown(d)) = Cardinality(Unknown(c)) + IF d.done = c.done /\ x = 0 THEN 1 ELSE 0
  <2>1. Unknown(c) \in SUBSET Items /\ i \notin Unknown(c)
    BY <1>0 DEF Unknown
  <2>2. Unknown(d) = IF d.done = c.done /\ x = 0 THEN Unknown(c) \cup {i} ELSE Unknown(c)
    BY <1>0, <1>7 DEF Unknown
  <2>3. Cardinality(Unknown(c) \cup {i}) = Cardinality(Unknown(c)) + 1 /\ Cardinality(Unknown(c)) \in Nat
    BY <2>1, CountOf, FS_AddElement
  <2> QED BY <2>2, <2>3
<1> DEFINE e == IF d.done = c.done /\ x = 0 THEN 1 ELSE 0
           n == Cardinality(d.pending) + Total(d.prior, Items) + Cardinality(Unknown(c))
<1>9. n \in Nat /\ e \in {0, 1}
  <2>1. Total(d.prior, Items) \in Nat /\ Cardinality(d.pending) \in Nat
    BY OwedType
  <2>2. Cardinality(Unknown(c)) \in Nat
    BY OwedType
  <2> QED BY <2>1, <2>2
<1>18. /\ Total(d.prior, Items) \in Nat /\ Cardinality(d.pending) \in Nat
       /\ Cardinality(c.pending) \in Nat /\ Cardinality(Unknown(c)) \in Nat
  BY OwedType
<1>10. Cardinality(d.pending) + Total(d.prior, Items) + Cardinality(Unknown(d)) = n + e
  BY <1>8, <1>18
<1>11. Cardinality(c.pending) + Total(c.prior, Items) + Cardinality(Unknown(c)) = n + 1
  BY <1>3, <1>18
<1>12. Owed(d) = Total(c.cost, c.done \cup c.failed) + x + MaxCost * (n + e)
  BY <1>4, <1>10 DEF Owed
<1>13. Owed(c) = Total(c.cost, c.done \cup c.failed) + MaxCost * (n + 1)
  BY <1>11 DEF Owed
<1>14. e = IF d.done = c.done /\ x = 0 THEN 1 ELSE 0
  OBVIOUS
<1> HIDE DEF n, e
<1>15. MaxCost * (n + e) = MaxCost * n + MaxCost * e /\ MaxCost * (n + 1) = MaxCost * n + MaxCost
       /\ MaxCost * n \in Nat /\ MaxCost * 0 = 0 /\ MaxCost * 1 = MaxCost
  <2>1. e \in Nat /\ n \in Nat /\ 1 \in Nat
    BY <1>9
  <2>2. MaxCost * (n + e) = MaxCost * n + MaxCost * e
    BY <2>1, Distributes
  <2>3. MaxCost * (n + 1) = MaxCost * n + MaxCost * 1
    BY <2>1, Distributes
  <2>4. MaxCost * n \in Nat /\ MaxCost * 0 = 0 /\ MaxCost * 1 = MaxCost
    BY <2>1, Distributes
  <2> QED BY <2>2, <2>3, <2>4
<1>16. Total(c.cost, c.done \cup c.failed) \in Nat
  BY OwedType
<1>17. Owed(d) = Owed(c) + x - (IF d.done = c.done /\ x = 0 THEN 0 ELSE MaxCost)
  <2>1. CASE d.done = c.done /\ x = 0
    BY <1>0, <1>12, <1>13, <1>14, <1>15, <1>16, <2>1
  <2>2. CASE ~(d.done = c.done /\ x = 0)
    BY <1>0, <1>12, <1>13, <1>14, <1>15, <1>16, <2>2
  <2> QED BY <2>1, <2>2
<1> QED BY <1>2, <1>3, <1>5, <1>6, <1>17

(* A request that is announced.                                                 *)
LEMMA AnnouncedOwes ==
  ASSUME NEW c \in Checkpoints, NEW d \in Checkpoints, c.pending = {},
         d.done = c.done, d.failed = c.failed, d.prior = c.prior, d.cost = c.cost
  PROVE  Owed(d) = Owed(c) + MaxCost * Cardinality(d.pending) /\ Earned(d) = Earned(c)
<1>1. Cardinality(c.pending) = 0 /\ Unknown(d) = Unknown(c)
  BY FS_EmptySet DEF Unknown
<1> DEFINE n == Total(c.prior, Items) + Cardinality(Unknown(c))
           m == Cardinality(d.pending)
<1>6. /\ Total(c.prior, Items) \in Nat /\ Cardinality(Unknown(c)) \in Nat
      /\ Total(c.cost, c.done \cup c.failed) \in Nat /\ m \in Nat
  BY OwedType
<1>2. n \in Nat /\ m \in Nat /\ Total(c.cost, c.done \cup c.failed) \in Nat
  BY <1>6
<1>3. Cardinality(c.pending) + Total(c.prior, Items) + Cardinality(Unknown(c)) = n
      /\ Cardinality(d.pending) + Total(d.prior, Items) + Cardinality(Unknown(d)) = n + m
  BY <1>1, <1>6
<1>4. Owed(d) = Total(c.cost, c.done \cup c.failed) + MaxCost * (n + m)
      /\ Owed(c) = Total(c.cost, c.done \cup c.failed) + MaxCost * n
  BY <1>3 DEF Owed
<1> HIDE DEF n
<1>5. MaxCost * (n + m) = MaxCost * n + MaxCost * m /\ MaxCost * n \in Nat /\ MaxCost * m \in Nat
  BY <1>2, Distributes
<1> QED BY <1>2, <1>4, <1>5 DEF Earned

(* What is carried into the next process.                                       *)
CarriedOn(c) == [Carried(c) EXCEPT !.status = "running"]

LEMMA CarriedOwes ==
  ASSUME NEW c \in Checkpoints, NEW d \in Checkpoints, d = CarriedOn(c),
         c.done \cap c.failed = {}, (c.done \cup c.failed) \cap c.pending = {},
         \A i \in c.failed : c.cost[i] = 0
  PROVE  /\ Owed(d) = Owed(c) /\ Tried(d) = Tried(c)
         /\ d.done = c.done /\ d.failed = {} /\ d.pending = {}
         /\ \A i \in Items : d.prior[i] = c.prior[i] + IF i \in c.failed \cup c.pending THEN 1 ELSE 0
<1>1. /\ c.done \in SUBSET Items /\ c.failed \in SUBSET Items /\ c.pending \in SUBSET Items
      /\ c.prior \in [Items -> Nat]
  BY FieldsOf
<1>2. /\ d.done = c.done /\ d.failed = {} /\ d.pending = {} /\ d.cost = c.cost
      /\ d.prior = [i \in Items |-> IF i \in c.failed \cup c.pending THEN c.prior[i] + 1 ELSE c.prior[i]]
  BY DEF CarriedOn, Carried, Checkpoints
<1>3. \A i \in Items : d.prior[i] = c.prior[i] + IF i \in c.failed \cup c.pending THEN 1 ELSE 0
  BY <1>1, <1>2
<1>4. Tried(d) = Tried(c)
  <2>1. \A i \in Items : (d.prior[i] + IF i \in d.done \cup d.failed \cup d.pending THEN 1 ELSE 0) =
                         (c.prior[i] + IF i \in c.done \cup c.failed \cup c.pending THEN 1 ELSE 0)
    <3> SUFFICES ASSUME NEW i \in Items
                 PROVE  (d.prior[i] + IF i \in d.done \cup d.failed \cup d.pending THEN 1 ELSE 0) =
                        (c.prior[i] + IF i \in c.done \cup c.failed \cup c.pending THEN 1 ELSE 0)
      OBVIOUS
    <3>1. c.prior[i] \in Nat
      BY <1>1
    <3>2. i \in c.done => i \notin c.failed \cup c.pending
      OBVIOUS
    <3> QED BY <1>2, <1>3, <3>1, <3>2
  <2> QED BY <2>1 DEF Tried
<1>5. Total(d.prior, Items) = Total(c.prior, Items) + Cardinality(c.failed) + Cardinality(c.pending)
  <2>1. Total(d.prior, Items) = Total(c.prior, Items) + Cardinality(c.failed \cup c.pending)
    <3> DEFINE A == c.failed \cup c.pending
    <3>1. d.prior \in [Items -> Nat] /\ A \in SUBSET Items
      BY <1>1, FieldsOf
    <3>2. \A i \in Items : d.prior[i] = c.prior[i] + IF i \in A THEN 1 ELSE 0
      BY <1>3
    <3> HIDE DEF A
    <3>3. Total(d.prior, Items) = Total(c.prior, Items) + Cardinality(A)
      BY <1>1, <3>1, <3>2, TotalGrows
    <3> QED BY <3>3 DEF A
  <2>2. Cardinality(c.failed \cup c.pending) = Cardinality(c.failed) + Cardinality(c.pending)
    <3>1. c.failed \cap c.pending = {} /\ Cardinality({}) = 0
      BY FS_EmptySet
    <3>2. /\ IsFiniteSet(c.failed) /\ IsFiniteSet(c.pending)
          /\ Cardinality(c.failed) \in Nat /\ Cardinality(c.pending) \in Nat
      BY <1>1, CountOf
    <3>3. Cardinality(c.failed \cup c.pending) =
            Cardinality(c.failed) + Cardinality(c.pending) - Cardinality(c.failed \cap c.pending)
      BY <3>2, FS_Union
    <3>4. Cardinality(c.failed \cap c.pending) = 0
      BY <3>1
    <3> QED BY <3>2, <3>3, <3>4
  <2>3. Total(c.prior, Items) \in Nat /\ Cardinality(c.failed) \in Nat /\ Cardinality(c.pending) \in Nat
    BY <1>1, CountOf, OwedType
  <2> QED BY <2>1, <2>2, <2>3
<1>6. Unknown(c) = c.failed /\ Unknown(d) = {} /\ Cardinality({}) = 0
  BY <1>2, FS_EmptySet DEF Unknown
<1>7. Total(c.cost, c.done \cup c.failed) = Total(c.cost, c.done)
  BY TotalOfZeros
<1>8. Cardinality(d.pending) + Total(d.prior, Items) + Cardinality(Unknown(d)) =
      Cardinality(c.pending) + Total(c.prior, Items) + Cardinality(Unknown(c))
  <2>1. Total(c.prior, Items) \in Nat /\ Cardinality(c.failed) \in Nat /\ Cardinality(c.pending) \in Nat
    BY <1>1, CountOf, OwedType
  <2>2. Cardinality(d.pending) = 0 /\ Cardinality(Unknown(d)) = 0 /\ Cardinality(Unknown(c)) = Cardinality(c.failed)
    BY <1>2, <1>6
  <2> QED BY <1>5, <2>1, <2>2
<1>9. d.done \cup d.failed = c.done
  BY <1>2
<1>10. Owed(d) = Owed(c)
  BY <1>2, <1>7, <1>8, <1>9 DEF Owed
<1> QED BY <1>2, <1>3, <1>4, <1>10

-----------------------------------------------------------------------------
(* Every request that was sent is counted by the process and by the stored      *)
(* record, which is the process's own while it decides, sends and waits.        *)
RequestsCounted ==
  Announces =>
    /\ run = NoFile => calling = {} /\ \A i \in Items : requests[i] = 0
    /\ run # NoFile => \A i \in Items : requests[i] <= Tried(run)[i]
    /\ Active => \A i \in Items :
         requests[i] <= checkpoint.prior[i]
                        + IF i \in checkpoint.done \cup checkpoint.failed \cup calling THEN 1 ELSE 0
    /\ at \in {"deciding", "sending", "waiting"} => run = checkpoint
    /\ program # "atomic" => /\ \A i \in Items : checkpoint.prior[i] = 0
                             /\ run # NoFile => \A i \in Items : run.prior[i] = 0

(* What run_atomic counts is within the approval.                               *)
Approved(c) ==
  /\ Total(Tried(c), Items) <= MaxAttempts
  /\ Total(Repeats(Tried(c)), Items) <= MaxRetries
  /\ Owed(c) <= Cap

(* Both records of run_atomic owe what was taken and what requests in flight    *)
(* may cost.                                                                    *)
AtomicPays ==
  program = "atomic" =>
    /\ Approved(checkpoint) /\ (run # NoFile => Approved(run))
    /\ run = NoFile => paid = 0
    /\ run # NoFile => paid + MaxCost * Cardinality(calling) <= Owed(run)
    /\ Active => paid + MaxCost * Cardinality(checkpoint.pending) <= Owed(checkpoint)

(* The frozen run has booked what was taken until a request fails, and then it  *)
(* neither goes on nor resumes.                                                 *)
FrozenPays ==
  program = "frozen" =>
    /\ paid + MaxCost * Cardinality(calling) <= Cap
    /\ at # "waiting" => calling = {}
    /\ Active /\ checkpoint.status = "running" => checkpoint.failed = {}
    /\ Active /\ checkpoint.failed = {} =>
         paid <= Earned(checkpoint) /\ Earned(checkpoint) + MaxCost * Cardinality(checkpoint.pending) <= Cap
    /\ run # NoFile /\ run.failed = {} /\ run.pending = {} => paid <= Earned(run) /\ Earned(run) <= Cap

Typed ==
  /\ halting \in BOOLEAN /\ unfinished \in BOOLEAN
  /\ predictions \subseteq Items \X (0..MaxCost) /\ failures \subseteq Items
  /\ paid \in Nat /\ resumes \in Nat /\ requests \in [Items -> Nat]

-----------------------------------------------------------------------------
(* The steps of the programs that announce, by what they change.                *)
Writes ==
  /\ at = "writing" /\ UNCHANGED <<program, checkpoint, calling, paid, requests>>
  /\ \/ at' = "writing" /\ run' = run
     \/ at' = Continue(checkpoint) /\ run' = checkpoint
Stops ==
  /\ at = "deciding" /\ at' = "writing" /\ UNCHANGED <<program, run, calling, paid, requests>>
  /\ checkpoint' \in Checkpoints /\ checkpoint'.status # "running"
  /\ checkpoint'.done = checkpoint.done /\ checkpoint'.pending = checkpoint.pending
  /\ checkpoint'.cost = checkpoint.cost /\ checkpoint'.prior = checkpoint.prior
  /\ checkpoint.failed \subseteq checkpoint'.failed
  /\ program = "atomic" => checkpoint'.failed = checkpoint.failed
Announced ==
  /\ at = "deciding" /\ at' = "writing" /\ UNCHANGED <<program, run, calling, paid, requests>>
  /\ MayRequest(checkpoint)
  /\ checkpoint' \in Checkpoints /\ checkpoint'.status = checkpoint.status
  /\ checkpoint'.done = checkpoint.done /\ checkpoint'.failed = checkpoint.failed
  /\ checkpoint'.cost = checkpoint.cost /\ checkpoint'.prior = checkpoint.prior
  /\ checkpoint'.pending = Group(checkpoint)
Sends ==
  /\ at = "sending" /\ at' = "waiting" /\ UNCHANGED <<program, run, checkpoint, paid>>
  /\ calling' = Group(checkpoint)
  /\ requests' = [i \in Items |-> IF i \in Group(checkpoint) THEN requests[i] + 1 ELSE requests[i]]
Answered(i, price, told) ==
  /\ at = "waiting" /\ at' = "writing" /\ UNCHANGED <<program, run, requests>>
  /\ i \in calling /\ calling' = calling \ {i} /\ paid' = paid + price /\ told \in {0, price}
  /\ checkpoint' \in Checkpoints
  /\ checkpoint'.pending = checkpoint.pending \ {i} /\ checkpoint'.prior = checkpoint.prior
  /\ checkpoint'.cost = [checkpoint.cost EXCEPT ![i] = told]
  /\ \/ /\ checkpoint'.done = checkpoint.done \cup {i} /\ checkpoint'.failed = checkpoint.failed
        /\ told = price /\ price > 0 /\ checkpoint'.status = checkpoint.status
     \/ /\ checkpoint'.done = checkpoint.done /\ checkpoint'.failed = checkpoint.failed \cup {i}
        /\ program = "frozen" => checkpoint'.status # "running"
Loses ==
  /\ Active /\ at' = "lost" /\ UNCHANGED <<program, run, requests>>
  /\ calling' = {} /\ checkpoint' = Fresh
  /\ \E bill \in Nat : bill <= MaxCost * Cardinality(calling) /\ paid' = paid + bill
Resumes ==
  /\ ~Active /\ UNCHANGED <<program, run, calling, paid, requests>>
  /\ \/ at' \in {"refused", "ended"} /\ UNCHANGED checkpoint
     \/ /\ at' = "writing" /\ run # NoFile /\ program = "atomic" /\ run.status \in {"running", "provider"}
        /\ checkpoint' = CarriedOn(run)
     \/ /\ at' = "writing" /\ run # NoFile /\ program # "atomic" /\ run.pending = {}
        /\ program = "frozen" => run.failed = {}
        /\ checkpoint' = [run EXCEPT !.status = "running"]

LEMMA StepKinds ==
  ASSUME Shapes, StatusIsKept, Announces, [Next]_vars
  PROVE  \/ Writes \/ Stops \/ Announced \/ Sends \/ Loses \/ Resumes
         \/ \E i \in Items, price \in 0..MaxCost, told \in 0..MaxCost : Answered(i, price, told)
         \/ UNCHANGED <<program, at, checkpoint, calling, run, paid, requests>>
<1> DEFINE c == checkpoint
<1>0. /\ c \in Checkpoints /\ (run # NoFile => run \in Checkpoints) /\ ProcessShape
      /\ program \in {"atomic", "frozen", "answers"} /\ Shapes'
  BY ShapesStep DEF Shapes, WellFormed, Announces
<1>00. checkpoint' \in Checkpoints
  BY <1>0 DEF Shapes, WellFormed
<1>1. CASE WriteFile
  <2>1. step \in {"predictions", "failures", "run"} /\ FirstFile = "predictions"
    BY <1>0 DEF ProcessShape, FirstFile
  <2>2. Following(step) = FirstFile <=> step = "run"
    BY <2>1 DEF Following
  <2> QED BY <1>1, <2>2 DEF WriteFile, Writes
<1>2. CASE Completes
  <2>1. /\ at = "deciding" /\ at' = "writing" /\ UNCHANGED <<program, run, calling, paid, requests>>
        /\ \E s \in {"completed", "provider", "failed"} : checkpoint' = [c EXCEPT !.status = s]
    BY <1>2 DEF Completes, Save, fileVars
  <2> QED BY <1>0, <1>00, <2>1 DEF Stops, Checkpoints
<1>3. CASE StopsAtLimit
  <2>1. at = "deciding" /\ at' = "writing" /\ UNCHANGED <<program, run, calling, paid, requests>>
    BY <1>0, <1>3 DEF StopsAtLimit, Decides, SaveUnless, Save, fileVars
  <2>2. PICK s \in {"failed", "stopped"} :
          checkpoint' = [c EXCEPT !.status = s,
            !.failed = IF program \in {"frozen", "answers"} THEN @ \cup {Min(Group(c))} ELSE @]
    BY <1>0, <1>3 DEF StopsAtLimit, SaveUnless, Save
  <2> DEFINE F == IF program \in {"frozen", "answers"} THEN c.failed \cup {Min(Group(c))} ELSE c.failed
  <2>3. /\ checkpoint'.status = s /\ checkpoint'.failed = F /\ checkpoint'.done = c.done
        /\ checkpoint'.pending = c.pending /\ checkpoint'.cost = c.cost /\ checkpoint'.prior = c.prior
    BY <1>0, <2>2 DEF Checkpoints
  <2>4. c.failed \subseteq F /\ (program = "atomic" => F = c.failed)
    OBVIOUS
  <2> HIDE DEF F
  <2> QED BY <1>00, <2>1, <2>3, <2>4 DEF Stops
<1>4. CASE Announce
  <2>1. /\ at = "deciding" /\ at' = "writing" /\ UNCHANGED <<program, run, calling, paid, requests>>
        /\ MayRequest(c) /\ checkpoint' = [c EXCEPT !.pending = Group(c)]
    BY <1>0, <1>4 DEF Announce, Decides, SaveUnless, Save, fileVars
  <2>2. /\ checkpoint'.status = c.status /\ checkpoint'.done = c.done /\ checkpoint'.failed = c.failed
        /\ checkpoint'.cost = c.cost /\ checkpoint'.prior = c.prior /\ checkpoint'.pending = Group(c)
    BY <1>0, <2>1 DEF Checkpoints
  <2> QED BY <1>00, <2>1, <2>2 DEF Announced
<1>5. CASE Send
  BY <1>5 DEF Send, Sends, fileVars
<1>6. ASSUME NEW i \in Items, NEW price \in 1..MaxCost, Succeeds(i, price)
      PROVE  \E j \in Items, p \in 0..MaxCost, t \in 0..MaxCost : Answered(j, p, t)
  <2>1. /\ at = "waiting" /\ at' = "writing" /\ UNCHANGED <<program, run, requests>>
        /\ i \in calling /\ calling' = calling \ {i} /\ paid' = paid + price
        /\ checkpoint' = [c EXCEPT !.done = @ \cup {i}, !.pending = @ \ {i}, !.cost[i] = price]
    BY <1>6 DEF Succeeds, Settle, Save, fileVars
  <2>2. /\ checkpoint'.pending = c.pending \ {i} /\ checkpoint'.prior = c.prior
        /\ checkpoint'.cost = [c.cost EXCEPT ![i] = price]
        /\ checkpoint'.done = c.done \cup {i} /\ checkpoint'.failed = c.failed /\ checkpoint'.status = c.status
    BY <1>0, <2>1 DEF Checkpoints
  <2>3. price \in 0..MaxCost /\ price > 0
    BY FieldsOf, PaidRunAssumption
  <2>4. Answered(i, price, price)
    BY <1>00, <2>1, <2>2, <2>3 DEF Answered
  <2> QED BY <2>3, <2>4
<1>7. ASSUME NEW i \in Items, NEW stage \in {"provider", "mismatch", "validation"},
             NEW price \in 0..MaxCost, NEW told \in 0..price, Fails(i, stage, price, told)
      PROVE  \E j \in Items, p \in 0..MaxCost, t \in 0..MaxCost : Answered(j, p, t)
  <2>1. PICK s \in Statuses :
        /\ at = "waiting" /\ at' = "writing" /\ UNCHANGED <<program, run, requests>>
        /\ i \in calling /\ calling' = calling \ {i} /\ paid' = paid + price /\ told \in {0, price}
        /\ program = "frozen" => s # "running"
        /\ checkpoint' = [c EXCEPT !.failed = @ \cup {i}, !.pending = @ \ {i}, !.cost[i] = told, !.status = s]
    <3>1. /\ at = "waiting" /\ at' = "writing" /\ UNCHANGED <<program, run, requests>>
          /\ i \in calling /\ calling' = calling \ {i} /\ paid' = paid + price
      BY <1>7 DEF Fails, Settle, Save, fileVars
    <3>2. told \in {0, price}
      BY <1>7 DEF Fails
    <3>3. PICK s \in Statuses :
        /\ program = "frozen" => s # "running"
        /\ checkpoint' = [c EXCEPT !.failed = @ \cup {i}, !.pending = @ \ {i}, !.cost[i] = told, !.status = s]
      BY <1>7 DEF Fails, Save, Statuses
    <3> QED BY <3>1, <3>2, <3>3
  <2>2. /\ checkpoint'.pending = c.pending \ {i} /\ checkpoint'.prior = c.prior
        /\ checkpoint'.cost = [c.cost EXCEPT ![i] = told]
        /\ checkpoint'.failed = c.failed \cup {i} /\ checkpoint'.done = c.done /\ checkpoint'.status = s
    BY <1>0, <2>1 DEF Checkpoints
  <2>3. told \in 0..MaxCost
    BY PaidRunAssumption
  <2>4. Answered(i, price, told)
    BY <1>00, <2>1, <2>2 DEF Answered
  <2> QED BY <2>3, <2>4
<1>8. ASSUME NEW bill \in 0..MaxCost * Workers, Lost(bill) PROVE Loses
  <2>1. bill \in Nat
    BY PaidRunAssumption
  <2>2. bill <= MaxCost * Cardinality(calling) /\ paid' = paid + bill
    BY <1>8 DEF Lost
  <2>3. /\ Active /\ at' = "lost" /\ UNCHANGED <<program, run, requests>>
        /\ calling' = {} /\ checkpoint' = Fresh
    BY <1>8 DEF Lost, Active
  <2> QED BY <2>1, <2>2, <2>3 DEF Loses
<1>9. CASE Resume
  <2>1. ~Active /\ UNCHANGED <<program, run, calling, paid, requests>>
    BY <1>9 DEF Resume, Save, fileVars, Active
  <2>2. CASE at' \in {"refused", "ended"} /\ UNCHANGED checkpoint
    BY <2>1, <2>2 DEF Resumes
  <2>3. CASE MayResume /\ program \in {"atomic", "history"} /\ Save([Carried(run) EXCEPT !.status = "running"])
    <3>1. run # NoFile /\ program = "atomic" /\ run.status \in {"running", "provider"}
      BY <1>0, <2>3 DEF MayResume, FilesAgree
    <3> QED BY <2>1, <2>3, <3>1 DEF Resumes, Save, CarriedOn
  <2>4. CASE MayResume /\ program \in {"frozen", "answers"} /\ Save([run EXCEPT !.status = "running"])
    <3>1. run # NoFile /\ program # "atomic" /\ run.pending = {} /\ (program = "frozen" => run.failed = {})
      BY <1>0, <2>4 DEF MayResume, FilesAgree
    <3> QED BY <2>1, <2>4, <3>1 DEF Resumes, Save
  <2> QED BY <1>0, <1>9, <2>2, <2>3, <2>4 DEF Resume
<1>10. CASE Over \/ UNCHANGED vars
  BY <1>10 DEF Over, vars, fileVars
<1> QED BY <1>1, <1>2, <1>3, <1>4, <1>5, <1>6, <1>7, <1>8, <1>9, <1>10 DEF Next

LEMMA ProgramStays == [Next]_vars => program' = program
BY DEF Next, WriteFile, Completes, StopsAtLimit, Announce, SaveUnless, Send, Succeeds, Fails, Settle, Save,
       Lost, Resume, Over, vars, fileVars

LEMMA ShapesNow ==
  ASSUME Shapes, Announces
  PROVE  /\ checkpoint \in Checkpoints /\ (run # NoFile => run \in Checkpoints)
         /\ checkpoint # NoFile
         /\ checkpoint.done \cap checkpoint.failed = {}
         /\ (checkpoint.done \cup checkpoint.failed) \cap checkpoint.pending = {}
         /\ run # NoFile => /\ run.done \cap run.failed = {}
                            /\ (run.done \cup run.failed) \cap run.pending = {}
         /\ calling \subseteq checkpoint.pending
         /\ calling \subseteq Remaining(checkpoint)
         /\ calling # {} => checkpoint.pending = calling
         /\ at \notin {"waiting", "writing"} => calling = {}
         /\ at = "deciding" => checkpoint.pending = {}
         /\ at = "sending" => checkpoint.pending = Group(checkpoint)
         /\ Group(checkpoint) \subseteq Remaining(checkpoint) /\ Group(checkpoint) \in SUBSET Items
         /\ program # "answers" => \A i, k \in calling : i = k
<1>1. checkpoint \in Checkpoints /\ (run # NoFile => run \in Checkpoints) /\ ProcessShape
  BY DEF Shapes, WellFormed
<1>2. checkpoint # NoFile
  <2>1. checkpoint.status \in Statuses /\ NoFile.status \notin Statuses
    BY <1>1, FieldsOf DEF NoFile, Statuses
  <2> QED BY <2>1
<1>3. Group(checkpoint) \subseteq Remaining(checkpoint) /\ Group(checkpoint) \in SUBSET Items
  BY GroupShape DEF Remaining
<1> QED BY <1>1, <1>2, <1>3 DEF Shapes, WellFormed, ProcessShape

LEMMA CountedStep ==
  ASSUME Shapes, StatusIsKept, Typed, RequestsCounted, [Next]_vars PROVE RequestsCounted'
<1> DEFINE c == checkpoint
           Count(d, C) == \A i \in Items :
              requests'[i] <= d.prior[i] + IF i \in d.done \cup d.failed \cup C THEN 1 ELSE 0
<1>1. program' = program /\ (Announces' <=> Announces)
  BY ProgramStays DEF Announces
<1> SUFFICES ASSUME Announces PROVE RequestsCounted'
  BY <1>1 DEF RequestsCounted
<1>2. /\ c \in Checkpoints /\ (run # NoFile => run \in Checkpoints) /\ c # NoFile
      /\ calling \subseteq c.pending /\ calling \subseteq Items
      /\ at \notin {"waiting", "writing"} => calling = {}
      /\ at = "deciding" => c.pending = {}
      /\ at = "sending" => c.pending = Group(c)
      /\ Group(c) \subseteq Remaining(c) /\ Group(c) \in SUBSET Items
  BY ShapesNow DEF Remaining
<1>3. \A i \in Items : requests[i] \in Nat /\ c.prior[i] \in Nat /\ (run # NoFile => run.prior[i] \in Nat)
  BY <1>2, FieldsOf DEF Typed
<1>4. /\ run = NoFile => calling = {} /\ \A i \in Items : requests[i] = 0
      /\ run # NoFile => \A i \in Items :
           requests[i] <= run.prior[i] + IF i \in run.done \cup run.failed \cup run.pending THEN 1 ELSE 0
      /\ Active => \A i \in Items :
           requests[i] <= c.prior[i] + IF i \in c.done \cup c.failed \cup calling THEN 1 ELSE 0
      /\ at \in {"deciding", "sending", "waiting"} => run = c
      /\ program # "atomic" => /\ \A i \in Items : c.prior[i] = 0
                               /\ run # NoFile => \A i \in Items : run.prior[i] = 0
  BY DEF RequestsCounted, Tried
<1> DEFINE Goal ==
               /\ run' = NoFile => calling' = {} /\ \A i \in Items : requests'[i] = 0
               /\ run' # NoFile => Count(run', run'.pending)
               /\ Active' => Count(checkpoint', calling')
               /\ at' \in {"deciding", "sending", "waiting"} => run' = checkpoint'
               /\ program # "atomic" => /\ \A i \in Items : checkpoint'.prior[i] = 0
                                        /\ run' # NoFile => \A i \in Items : run'.prior[i] = 0
<1>5. SUFFICES Goal
  BY <1>1 DEF RequestsCounted, Tried
<1>6. CASE Writes
  <2>1. UNCHANGED <<checkpoint, calling, requests>> /\ Active
    BY <1>6 DEF Writes, Active
  <2>2. Count(checkpoint', calling')
    BY <1>4, <2>1
  <2>3. Count(c, c.pending)
    BY <1>2, <1>3, <1>4, <2>1
  <2>4. CASE at' = "writing" /\ run' = run
    BY <1>4, <2>1, <2>2, <2>4
  <2>5. CASE run' = c
    BY <1>2, <1>4, <2>1, <2>2, <2>3, <2>5
  <2> QED BY <1>6, <2>4, <2>5 DEF Writes
<1>7. CASE Stops
  <2>1. /\ at = "deciding" /\ at' = "writing" /\ UNCHANGED <<run, calling, requests>> /\ Active
        /\ checkpoint'.done = c.done /\ checkpoint'.prior = c.prior /\ c.failed \subseteq checkpoint'.failed
    BY <1>7 DEF Stops, Active
  <2>2. Count(checkpoint', calling')
    BY <1>3, <1>4, <2>1
  <2> QED BY <1>4, <2>1, <2>2
<1>8. CASE Announced
  <2>1. /\ at = "deciding" /\ at' = "writing" /\ UNCHANGED <<run, calling, requests>> /\ Active
        /\ checkpoint'.done = c.done /\ checkpoint'.prior = c.prior /\ c.failed = checkpoint'.failed
    BY <1>8 DEF Announced, Active
  <2> QED BY <1>4, <2>1
<1>9. CASE Sends
  <2>1. /\ at = "sending" /\ at' = "waiting" /\ UNCHANGED <<run, checkpoint>> /\ Active
        /\ calling' = Group(c) /\ run = c /\ calling = {} /\ c.pending = Group(c)
        /\ \A i \in Items : requests'[i] = IF i \in Group(c) THEN requests[i] + 1 ELSE requests[i]
    BY <1>2, <1>4, <1>9 DEF Sends, Active
  <2>2. Count(c, Group(c))
    <3> SUFFICES ASSUME NEW i \in Items
                 PROVE  requests'[i] <= c.prior[i] + IF i \in c.done \cup c.failed \cup Group(c) THEN 1 ELSE 0
      OBVIOUS
    <3>1. CASE i \in Group(c)
      <4>1. i \notin c.done \cup c.failed
        BY <1>2, <3>1 DEF Remaining
      <4>2. requests[i] <= c.prior[i]
        BY <1>3, <1>4, <2>1, <4>1
      <4> QED BY <1>3, <2>1, <3>1, <4>2
    <3>2. CASE i \notin Group(c)
      BY <1>3, <1>4, <2>1, <3>2
    <3> QED BY <3>1, <3>2
  <2> QED BY <1>2, <1>4, <2>1, <2>2
<1>10. ASSUME NEW i \in Items, NEW price \in 0..MaxCost, NEW told \in 0..MaxCost, Answered(i, price, told)
       PROVE  Goal
  <2>1. /\ at = "waiting" /\ at' = "writing" /\ UNCHANGED <<run, requests>> /\ Active
        /\ calling' = calling \ {i} /\ checkpoint'.prior = c.prior
        /\ checkpoint'.done \cup checkpoint'.failed = c.done \cup c.failed \cup {i}
    BY <1>10 DEF Answered, Active
  <2>2. Count(checkpoint', calling')
    BY <1>3, <1>4, <2>1
  <2> QED BY <1>4, <2>1, <2>2
<1>11. CASE Loses
  <2>1. at' = "lost" /\ UNCHANGED <<run, requests>> /\ calling' = {} /\ ~Active' /\ checkpoint' = Fresh
    BY <1>11 DEF Loses, Active
  <2>2. \A i \in Items : Fresh.prior[i] = 0
    BY DEF Fresh
  <2> QED BY <1>4, <2>1, <2>2
<1>12. CASE Resumes
  <2>1. UNCHANGED <<run, calling, requests>> /\ calling = {} /\ at \notin {"deciding", "sending", "waiting"}
    BY <1>2, <1>12 DEF Resumes, Active
  <2>2. CASE at' \in {"refused", "ended"} /\ UNCHANGED checkpoint
    BY <1>4, <2>1, <2>2 DEF Active
  <2>3. CASE /\ at' = "writing" /\ run # NoFile /\ program = "atomic" /\ run.status \in {"running", "provider"}
             /\ checkpoint' = CarriedOn(run)
    <3>1. \A i \in run.failed : run.cost[i] = 0
      BY <2>3 DEF StatusIsKept, ResumableIsUnbilled
    <3>2. /\ checkpoint' \in Checkpoints
          /\ run.done \cap run.failed = {} /\ (run.done \cup run.failed) \cap run.pending = {}
      BY <1>1, <2>3, ShapesNow, ShapesStep DEF Shapes, WellFormed
    <3>3. /\ checkpoint'.done = run.done /\ checkpoint'.failed = {}
          /\ \A i \in Items : checkpoint'.prior[i] =
                run.prior[i] + IF i \in run.failed \cup run.pending THEN 1 ELSE 0
      BY <1>2, <2>3, <3>1, <3>2, CarriedOwes
    <3>4. Count(checkpoint', calling')
      BY <1>3, <1>4, <2>1, <2>3, <3>3
    <3> QED BY <1>4, <2>1, <2>3, <3>4
  <2>4. CASE /\ at' = "writing" /\ run # NoFile /\ program # "atomic" /\ run.pending = {}
             /\ checkpoint' = [run EXCEPT !.status = "running"]
    <3>1. checkpoint'.done = run.done /\ checkpoint'.failed = run.failed /\ checkpoint'.prior = run.prior
      BY <1>2, <2>4 DEF Checkpoints
    <3>2. Count(checkpoint', calling')
      BY <1>3, <1>4, <2>1, <2>4, <3>1
    <3> QED BY <1>4, <2>1, <2>4, <3>1, <3>2
  <2> QED BY <1>12, <2>2, <2>3, <2>4 DEF Resumes
<1>13. CASE UNCHANGED <<program, at, checkpoint, calling, run, paid, requests>>
  BY <1>4, <1>13 DEF Active
<1> QED BY <1>6, <1>7, <1>8, <1>9, <1>10, <1>11, <1>12, <1>13, StepKinds

LEMMA ZerosAddUp == ASSUME NEW f, NEW S, \A i \in S : f[i] = 0 PROVE Total(f, S) = 0
<1>1. Total(f, {} \cup S) = Total(f, {}) /\ {} \cup S = S
  BY TotalOfZeros
<1> QED BY <1>1, TotalOfNothing

LEMMA FreshIsApproved == Approved(Fresh) /\ Owed(Fresh) = 0 /\ Fresh \in Checkpoints
<1>1. Fresh \in Checkpoints
  BY FreshShape DEF WellFormed
<1>2. /\ Fresh.done = {} /\ Fresh.failed = {} /\ Fresh.pending = {}
      /\ \A i \in Items : Fresh.cost[i] = 0 /\ Fresh.prior[i] = 0
  BY DEF Fresh
<1>3. \A i \in Items : Tried(Fresh)[i] = 0 /\ Repeats(Tried(Fresh))[i] = 0
  BY <1>2 DEF Tried, Repeats
<1>4. Total(Tried(Fresh), Items) = 0 /\ Total(Repeats(Tried(Fresh)), Items) = 0 /\ Total(Fresh.prior, Items) = 0
  BY <1>2, <1>3, ZerosAddUp
<1>5. Total(Fresh.cost, Fresh.done \cup Fresh.failed) = 0
  BY <1>2, ZerosAddUp
<1>6. Cardinality(Fresh.pending) = 0 /\ Cardinality(Unknown(Fresh)) = 0
  BY <1>2, FS_EmptySet DEF Unknown
<1>7. MaxCost * 0 = 0 /\ MaxAttempts >= 0 /\ MaxRetries >= 0 /\ Cap >= 0
  BY PaidRunAssumption
<1>8. Owed(Fresh) = 0 + MaxCost * (0 + 0 + 0)
  BY <1>4, <1>5, <1>6 DEF Owed
<1> QED BY <1>1, <1>4, <1>7, <1>8 DEF Approved

(* The announcement of a request stays within the approval.                     *)
LEMMA AnnouncedIsApproved ==
  ASSUME NEW c \in Checkpoints, NEW d \in Checkpoints, program = "atomic", Approved(c), MayRequest(c),
         c.pending = {}, d.pending = Group(c),
         d.done = c.done, d.failed = c.failed, d.prior = c.prior, d.cost = c.cost
  PROVE  Approved(d)
<1> DEFINE G == Group(c)
           A == c.done \cup c.failed
           E == Attempted(c)
<1>1. /\ G \in SUBSET Items /\ A \in SUBSET Items /\ E \in SUBSET Items
      /\ \A i, k \in G : i = k
  BY GroupShape, FieldsOf DEF Remaining, Attempted
<1>2. \A i \in Items : c.prior[i] \in Nat
  BY FieldsOf
<1>3. Booked(c) + MaxCost * Cardinality(G) <= Cap
  BY DEF MayRequest, Reserved
<1>4. /\ Attempts(c) + 1 <= MaxAttempts
      /\ G \subseteq E => Attempts(c) - Cardinality(E) + 1 <= MaxRetries
  <2>1. Attempts(c) \in Nat /\ MaxAttempts \in Nat /\ MaxRetries \in Nat /\ Cardinality(E) \in Nat
    <3>1. Cardinality(A) \in Nat /\ Total(c.prior, Items) \in Nat /\ Cardinality(E) \in Nat
      BY <1>1, CountOf, OwedType
    <3> QED BY <3>1, PaidRunAssumption DEF Attempts
  <2>2. /\ ~(Attempts(c) + 1 > MaxAttempts)
        /\ ~(G \subseteq E /\ Attempts(c) - Cardinality(E) + 1 > MaxRetries)
    BY DEF MayRequest, RequestLimitReached
  <2> QED BY <2>1, <2>2
<1>5. Owed(d) <= Cap
  <2>1. Owed(d) = Owed(c) + MaxCost * Cardinality(G)
    BY AnnouncedOwes
  <2> QED BY <1>3, <2>1, BookedOf
<1>6. /\ Total(Tried(c), Items) = Attempts(c)
      /\ Total(Tried(d), Items) = Total(c.prior, Items) + Cardinality(A \cup G)
  <2>1. c.done \cup c.failed \cup c.pending = A /\ d.done \cup d.failed \cup d.pending = A \cup G
    OBVIOUS
  <2>2. Total(c.prior, Items) \in Nat /\ Cardinality(A) \in Nat
    BY <1>1, CountOf, OwedType
  <2>3. Attempts(c) = Cardinality(A) + Total(c.prior, Items)
    BY DEF Attempts
  <2>4. Total(Tried(c), Items) = Total(c.prior, Items) + Cardinality(A)
    BY <2>1, TriedCounts
  <2>5. Total(Tried(d), Items) = Total(d.prior, Items) + Cardinality(A \cup G)
    BY <2>1, TriedCounts
  <2> QED BY <2>2, <2>3, <2>4, <2>5
<1>7. {i \in Items : Tried(c)[i] > 0} = E /\ {i \in Items : Tried(d)[i] > 0} = E \cup G
  <2>1. \A i \in Items : /\ Tried(c)[i] > 0 <=> i \in E
                         /\ Tried(d)[i] > 0 <=> i \in E \/ i \in G
    BY <1>2 DEF Tried, Attempted
  <2> QED BY <1>1, <2>1
<1>8. /\ Total(Tried(c), Items) = Total(Repeats(Tried(c)), Items) + Cardinality(E)
      /\ Total(Tried(d), Items) = Total(Repeats(Tried(d)), Items) + Cardinality(E \cup G)
  BY <1>7, TriedCounts
<1>9. /\ Total(Tried(c), Items) \in Nat /\ Total(Repeats(Tried(c)), Items) \in Nat
      /\ Total(Tried(d), Items) \in Nat /\ Total(Repeats(Tried(d)), Items) \in Nat
      /\ Total(c.prior, Items) \in Nat /\ Cardinality(A) \in Nat /\ Cardinality(E) \in Nat
      /\ Cardinality(A \cup G) \in Nat /\ Cardinality(E \cup G) \in Nat
      /\ MaxAttempts \in Nat /\ MaxRetries \in Nat
  <2>1. /\ Total(Tried(c), Items) \in Nat /\ Total(Repeats(Tried(c)), Items) \in Nat
        /\ Total(Tried(d), Items) \in Nat /\ Total(Repeats(Tried(d)), Items) \in Nat
    BY FieldsOf, TotalType
  <2>2. /\ Cardinality(A) \in Nat /\ Cardinality(E) \in Nat
        /\ Cardinality(A \cup G) \in Nat /\ Cardinality(E \cup G) \in Nat
    BY <1>1, CountOf
  <2> QED BY <2>1, <2>2, OwedType, PaidRunAssumption
<1>10. Attempts(c) = Total(c.prior, Items) + Cardinality(A)
  BY <1>9 DEF Attempts
<1> HIDE DEF G, A, E
<1>11. Cardinality(A \cup G) <= Cardinality(A) + 1 /\ (~(G \subseteq E) => Cardinality(E \cup G) = Cardinality(E) + 1)
  <2>1. G = {} \/ \E i : G = {i}
    BY <1>1
  <2>2. CASE G = {}
    BY <1>9, <2>2
  <2>3. ASSUME NEW i, G = {i}
        PROVE  Cardinality(A \cup G) <= Cardinality(A) + 1 /\ (~(G \subseteq E) => Cardinality(E \cup G) = Cardinality(E) + 1)
    <3>1. IsFiniteSet(A) /\ IsFiniteSet(E)
      BY <1>1, CountOf
    <3>2. /\ Cardinality(A \cup {i}) = IF i \in A THEN Cardinality(A) ELSE Cardinality(A) + 1
          /\ Cardinality(E \cup {i}) = IF i \in E THEN Cardinality(E) ELSE Cardinality(E) + 1
      BY <3>1, FS_AddElement
    <3>3. A \cup G = A \cup {i} /\ E \cup G = E \cup {i} /\ (i \in E => G \subseteq E)
      BY <2>3
    <3> QED BY <1>9, <3>2, <3>3
  <2> QED BY <2>1, <2>2, <2>3
<1> DEFINE t == Total(Tried(d), Items)
           r == Total(Repeats(Tried(d)), Items)
           q == Total(Repeats(Tried(c)), Items)
           m == Cardinality(E)
           n == Cardinality(E \cup G)
           k == Attempts(c)
<1>14. /\ t \in Nat /\ r \in Nat /\ q \in Nat /\ m \in Nat /\ n \in Nat /\ k \in Nat /\ MaxRetries \in Nat
       /\ t = r + n /\ k = q + m /\ t <= k + 1
       /\ G \subseteq E => k - m + 1 <= MaxRetries
       /\ G \subseteq E => n = m
       /\ ~(G \subseteq E) => n = m + 1
       /\ q <= MaxRetries
  <2>1. t \in Nat /\ r \in Nat /\ q \in Nat /\ m \in Nat /\ n \in Nat /\ k \in Nat /\ MaxRetries \in Nat
    BY <1>9, <1>10
  <2>2. t = r + n /\ k = q + m
    BY <1>6, <1>8
  <2>3. t <= k + 1
    BY <1>6, <1>9, <1>10, <1>11
  <2>4. G \subseteq E => n = m
    <3>1. G \subseteq E => E \cup G = E
      OBVIOUS
    <3> QED BY <3>1
  <2> QED BY <1>4, <1>11, <2>1, <2>2, <2>3, <2>4 DEF Approved
<1>12. r <= MaxRetries
  <2> HIDE DEF t, r, q, m, n, k
  <2>1. CASE G \subseteq E
    BY <1>14, <2>1
  <2>2. CASE ~(G \subseteq E)
    BY <1>14, <2>2
  <2> QED BY <2>1, <2>2
<1>13. Total(Tried(d), Items) <= MaxAttempts
  BY <1>4, <1>6, <1>9, <1>10, <1>11
<1> QED BY <1>5, <1>12, <1>13 DEF Approved

(* What requests in flight may cost.                                            *)
LEMMA Flight ==
  ASSUME NEW S \in SUBSET Items
  PROVE  /\ MaxCost * Cardinality(S) \in Nat
         /\ S = {} => MaxCost * Cardinality(S) = 0
         /\ \A i \in S : MaxCost * Cardinality(S) = MaxCost * Cardinality(S \ {i}) + MaxCost
<1>1. IsFiniteSet(S) /\ Cardinality(S) \in Nat
  BY CountOf
<1>2. MaxCost * Cardinality(S) \in Nat
  BY <1>1, Distributes
<1>3. S = {} => MaxCost * Cardinality(S) = 0
  <2>1. S = {} => Cardinality(S) = 0
    BY FS_EmptySet
  <2>2. MaxCost * 0 = 0
    BY PaidRunAssumption
  <2> QED BY <2>1, <2>2
<1>4. ASSUME NEW i \in S PROVE MaxCost * Cardinality(S) = MaxCost * Cardinality(S \ {i}) + MaxCost
  <2>1. Cardinality(S \ {i}) = Cardinality(S) - 1
    BY <1>1, FS_RemoveElement
  <2> DEFINE n == Cardinality(S \ {i})
  <2>2. n \in Nat
    <3>1. S \ {i} \in SUBSET Items
      OBVIOUS
    <3> QED BY <3>1, CountOf
  <2>3. Cardinality(S) = n + 1
    BY <1>1, <2>1
  <2> HIDE DEF n
  <2>4. MaxCost * (n + 1) = MaxCost * n + MaxCost * 1 /\ MaxCost * 1 = MaxCost
    BY <2>2, Distributes
  <2> QED BY <2>3, <2>4 DEF n
<1> QED BY <1>2, <1>3, <1>4

LEMMA AtomicStep ==
  ASSUME Shapes, StatusIsKept, Typed, RequestsCounted, AtomicPays, [Next]_vars PROVE AtomicPays'
<1> SUFFICES ASSUME program = "atomic" PROVE AtomicPays'
  BY ProgramStays DEF AtomicPays
<1> DEFINE c == checkpoint
           Cost(S) == MaxCost * Cardinality(S)
           Goal == /\ Approved(checkpoint') /\ (run' # NoFile => Approved(run'))
                   /\ run' = NoFile => paid' = 0
                   /\ run' # NoFile => paid' + Cost(calling') <= Owed(run')
                   /\ Active' => paid' + Cost(checkpoint'.pending) <= Owed(checkpoint')
<1>0. Announces
  BY DEF Announces
<1>1. SUFFICES Goal
  BY DEF AtomicPays
<1>2. /\ c \in Checkpoints /\ (run # NoFile => run \in Checkpoints) /\ c # NoFile
      /\ c.done \cap c.failed = {} /\ (c.done \cup c.failed) \cap c.pending = {}
      /\ run # NoFile => /\ run.done \cap run.failed = {}
                         /\ (run.done \cup run.failed) \cap run.pending = {}
      /\ calling \subseteq c.pending
      /\ calling # {} => c.pending = calling
      /\ at \notin {"waiting", "writing"} => calling = {}
      /\ at = "deciding" => c.pending = {}
      /\ at = "sending" => c.pending = Group(c)
  BY <1>0, ShapesNow
<1>3. /\ Approved(c) /\ (run # NoFile => Approved(run))
      /\ run = NoFile => paid = 0
      /\ run # NoFile => paid + Cost(calling) <= Owed(run)
      /\ Active => paid + Cost(c.pending) <= Owed(c)
  BY DEF AtomicPays
<1>4. /\ run = NoFile => calling = {}
      /\ at \in {"deciding", "sending", "waiting"} => run = c
  BY <1>0 DEF RequestsCounted
<1>5. /\ c.pending \in SUBSET Items /\ calling \in SUBSET Items
      /\ paid \in Nat /\ Owed(c) \in Nat /\ (run # NoFile => Owed(run) \in Nat) /\ Cap \in Nat /\ MaxCost \in Nat
  BY <1>2, FieldsOf, OwedType, PaidRunAssumption DEF Typed
<1>6. /\ Cost(calling) \in Nat /\ Cost(c.pending) \in Nat /\ Cost({}) = 0 /\ (calling = {} => Cost(calling) = 0)
      /\ \A i \in c.pending : Cost(c.pending) = Cost(c.pending \ {i}) + MaxCost /\ Cost(c.pending \ {i}) \in Nat
  <2>1. ASSUME NEW i \in c.pending
        PROVE  Cost(c.pending) = Cost(c.pending \ {i}) + MaxCost /\ Cost(c.pending \ {i}) \in Nat
    <3>1. c.pending \ {i} \in SUBSET Items
      BY <1>5
    <3> QED BY <1>5, <3>1, Flight
  <2> QED BY <1>5, <2>1, Flight
<1> HIDE DEF Cost
<1>7. CASE Writes
  <2>1. UNCHANGED <<checkpoint, calling, paid>> /\ Active
    BY <1>7 DEF Writes, Active
  <2>2. paid + Cost(calling) <= Owed(c)
    <3>1. calling = {} \/ c.pending = calling
      BY <1>2
    <3> QED BY <1>3, <1>5, <1>6, <2>1, <3>1
  <2>3. CASE run' = run
    BY <1>3, <2>1, <2>3
  <2>4. CASE run' = c
    BY <1>2, <1>3, <2>1, <2>2, <2>4
  <2> QED BY <1>7, <2>3, <2>4 DEF Writes
<1>8. CASE Stops
  <2>1. /\ at = "deciding" /\ UNCHANGED <<run, calling, paid>> /\ Active
        /\ checkpoint'.done = c.done /\ checkpoint'.failed = c.failed /\ checkpoint'.prior = c.prior
        /\ checkpoint'.pending = c.pending /\ checkpoint'.cost = c.cost
    BY <1>8 DEF Stops, Active
  <2>2. Owed(checkpoint') = Owed(c) /\ Tried(checkpoint') = Tried(c)
    BY <2>1 DEF Owed, Unknown, Tried
  <2>3. Approved(checkpoint')
    BY <1>3, <2>2 DEF Approved
  <2> QED BY <1>3, <2>1, <2>2, <2>3
<1>9. CASE Announced
  <2>1. /\ at = "deciding" /\ UNCHANGED <<run, calling, paid>> /\ Active /\ MayRequest(c)
        /\ checkpoint' \in Checkpoints
        /\ checkpoint'.done = c.done /\ checkpoint'.failed = c.failed /\ checkpoint'.prior = c.prior
        /\ checkpoint'.pending = Group(c) /\ checkpoint'.cost = c.cost /\ c.pending = {}
    BY <1>2, <1>9 DEF Announced, Active
  <2>2. Approved(checkpoint')
    BY <1>2, <1>3, <2>1, AnnouncedIsApproved
  <2>3. Owed(checkpoint') = Owed(c) + Cost(checkpoint'.pending)
    BY <1>2, <2>1, AnnouncedOwes DEF Cost
  <2>4. paid <= Owed(c)
    BY <1>3, <1>5, <1>6, <2>1
  <2>5. Cost(checkpoint'.pending) \in Nat
    BY <2>1, FieldsOf, Flight DEF Cost
  <2> QED BY <1>3, <1>5, <2>1, <2>2, <2>3, <2>4, <2>5
<1>10. CASE Sends
  <2>1. /\ at = "sending" /\ UNCHANGED <<run, checkpoint, paid>> /\ Active /\ run = c
        /\ calling' = c.pending
    BY <1>2, <1>4, <1>10 DEF Sends, Active
  <2> QED BY <1>2, <1>3, <2>1
<1>11. ASSUME NEW i \in Items, NEW price \in 0..MaxCost, NEW told \in 0..MaxCost, Answered(i, price, told)
       PROVE  Goal
  <2> DEFINE d == checkpoint'
  <2>1. /\ at = "waiting" /\ UNCHANGED <<run>> /\ Active /\ i \in calling /\ calling' = calling \ {i}
        /\ paid' = paid + price /\ told \in {0, price} /\ run = c
        /\ d \in Checkpoints
        /\ d.pending = c.pending \ {i} /\ d.prior = c.prior
        /\ d.cost = [c.cost EXCEPT ![i] = told]
        /\ \/ d.done = c.done \cup {i} /\ d.failed = c.failed
           \/ d.done = c.done /\ d.failed = c.failed \cup {i}
        /\ d.done # c.done => told = price
    BY <1>4, <1>11 DEF Answered, Active
  <2>2. i \in c.pending /\ c.pending = calling
    BY <1>2, <2>1
  <2> HIDE DEF d
  <2>3. Tried(d) = Tried(c) /\ Owed(d) = Owed(c) + told - (IF d.done = c.done /\ told = 0 THEN 0 ELSE MaxCost)
    BY <1>2, <2>1, <2>2, AnswerSettles
  <2>4. /\ paid + Cost(d.pending) + MaxCost <= Owed(c) /\ Cost(d.pending) \in Nat
        /\ price \in Nat /\ told \in Nat /\ price <= MaxCost /\ told <= MaxCost
    <3>1. paid + Cost(c.pending) <= Owed(c)
      BY <1>3, <2>1
    <3> QED BY <1>5, <1>6, <2>1, <2>2, <3>1
  <2>5. paid + price + Cost(d.pending) <= Owed(d) /\ paid + price + Cost(d.pending) <= Owed(c) /\ Owed(d) <= Owed(c)
    <3>1. CASE d.done = c.done /\ told = 0
      BY <1>5, <2>3, <2>4, <3>1
    <3>2. CASE ~(d.done = c.done /\ told = 0)
      <4>1. told = price
        BY <2>1, <3>2
      <4> QED BY <1>5, <2>3, <2>4, <3>2, <4>1
    <3> QED BY <3>1, <3>2
  <2>6. Approved(d)
    <3>1. Owed(d) <= Cap
      <4>1. Owed(d) \in Nat /\ Owed(c) <= Cap
        BY <1>3, <2>1, OwedType DEF Approved
      <4> QED BY <1>5, <2>5, <4>1
    <3> QED BY <1>3, <2>3, <3>1 DEF Approved
  <2>7. calling' = d.pending
    BY <2>1, <2>2
  <2> QED BY <1>2, <1>3, <2>1, <2>5, <2>6, <2>7 DEF d
<1>12. CASE Loses
  <2>1. UNCHANGED run /\ calling' = {} /\ ~Active' /\ checkpoint' = Fresh
    BY <1>12 DEF Loses, Active
  <2>2. PICK bill \in Nat : bill <= Cost(calling) /\ paid' = paid + bill
    BY <1>12 DEF Loses, Cost
  <2>3. run = NoFile => paid' = 0
    BY <1>3, <1>4, <1>6, <2>2
  <2>4. run # NoFile => paid' + Cost({}) <= Owed(run)
    BY <1>3, <1>5, <1>6, <2>2
  <2> QED BY <1>3, <2>1, <2>3, <2>4, FreshIsApproved
<1>13. CASE Resumes
  <2>1. UNCHANGED <<run, calling, paid>> /\ calling = {} /\ ~Active
    BY <1>2, <1>13 DEF Resumes, Active
  <2>2. CASE at' \in {"refused", "ended"} /\ UNCHANGED checkpoint
    BY <1>3, <2>1, <2>2 DEF Active
  <2>3. CASE /\ run # NoFile /\ run.status \in {"running", "provider"}
             /\ checkpoint' = CarriedOn(run)
    <3>1. \A i \in run.failed : run.cost[i] = 0
      BY <2>3 DEF StatusIsKept, ResumableIsUnbilled
    <3>2. checkpoint' \in Checkpoints
      BY ShapesStep DEF Shapes, WellFormed
    <3>3. Owed(checkpoint') = Owed(run) /\ Tried(checkpoint') = Tried(run) /\ checkpoint'.pending = {}
      BY <1>2, <2>3, <3>1, <3>2, CarriedOwes
    <3>4. Approved(checkpoint')
      BY <1>3, <2>3, <3>3 DEF Approved
    <3> QED BY <1>3, <2>1, <2>3, <3>3, <3>4
  <2> QED BY <1>13, <2>2, <2>3 DEF Resumes
<1>14. CASE UNCHANGED <<program, at, checkpoint, calling, run, paid, requests>>
  BY <1>3, <1>14 DEF Active
<1> QED BY <1>0, <1>7, <1>8, <1>9, <1>10, <1>11, <1>12, <1>13, <1>14, StepKinds

LEMMA FrozenStep ==
  ASSUME Shapes, StatusIsKept, Typed, RequestsCounted, FrozenPays, [Next]_vars PROVE FrozenPays'
<1> SUFFICES ASSUME program = "frozen" PROVE FrozenPays'
  BY ProgramStays DEF FrozenPays
<1> DEFINE c == checkpoint
           Cost(S) == MaxCost * Cardinality(S)
           Goal == /\ paid' + Cost(calling') <= Cap
                   /\ at' # "waiting" => calling' = {}
                   /\ Active' /\ checkpoint'.status = "running" => checkpoint'.failed = {}
                   /\ Active' /\ checkpoint'.failed = {} =>
                        paid' <= Earned(checkpoint') /\ Earned(checkpoint') + Cost(checkpoint'.pending) <= Cap
                   /\ run' # NoFile /\ run'.failed = {} /\ run'.pending = {} =>
                        paid' <= Earned(run') /\ Earned(run') <= Cap
<1>0. Announces
  BY DEF Announces
<1>1. SUFFICES Goal
  BY DEF FrozenPays
<1>2. /\ c \in Checkpoints /\ (run # NoFile => run \in Checkpoints) /\ c # NoFile
      /\ c.done \cap c.failed = {} /\ (c.done \cup c.failed) \cap c.pending = {}
      /\ calling \subseteq c.pending
      /\ calling # {} => c.pending = calling
      /\ at = "deciding" => c.pending = {}
      /\ at = "sending" => c.pending = Group(c)
      /\ \A i, k \in calling : i = k
  BY <1>0, ShapesNow
<1>3. /\ paid + Cost(calling) <= Cap
      /\ at # "waiting" => calling = {}
      /\ Active /\ c.status = "running" => c.failed = {}
      /\ Active /\ c.failed = {} => paid <= Earned(c) /\ Earned(c) + Cost(c.pending) <= Cap
      /\ run # NoFile /\ run.failed = {} /\ run.pending = {} => paid <= Earned(run) /\ Earned(run) <= Cap
  BY DEF FrozenPays
<1>4. /\ at \in {"deciding", "sending", "waiting"} => run = c /\ c.status = "running"
  BY <1>0 DEF RequestsCounted, StatusIsKept
<1>5. /\ c.pending \in SUBSET Items /\ calling \in SUBSET Items
      /\ paid \in Nat /\ Earned(c) \in Nat /\ (run # NoFile => Earned(run) \in Nat) /\ Cap \in Nat /\ MaxCost \in Nat
  BY <1>2, FieldsOf, OwedType, PaidRunAssumption DEF Typed
<1>6. /\ Cost(calling) \in Nat /\ Cost(c.pending) \in Nat /\ Cost({}) = 0 /\ (calling = {} => Cost(calling) = 0)
      /\ \A i \in c.pending : Cost(c.pending) = Cost(c.pending \ {i}) + MaxCost /\ Cost(c.pending \ {i}) \in Nat
  <2>1. ASSUME NEW i \in c.pending
        PROVE  Cost(c.pending) = Cost(c.pending \ {i}) + MaxCost /\ Cost(c.pending \ {i}) \in Nat
    <3>1. c.pending \ {i} \in SUBSET Items
      BY <1>5
    <3> QED BY <1>5, <3>1, Flight
  <2> QED BY <1>5, <2>1, Flight
<1> HIDE DEF Cost
<1>7. CASE Writes
  <2>1. UNCHANGED <<checkpoint, calling, paid>> /\ Active /\ calling = {}
    BY <1>3, <1>7 DEF Writes, Active
  <2>2. c.failed = {} /\ c.pending = {} => paid <= Earned(c) /\ Earned(c) <= Cap
    BY <1>3, <1>5, <1>6, <2>1
  <2>3. run' = run \/ run' = c
    BY <1>7 DEF Writes
  <2> QED BY <1>3, <2>1, <2>2, <2>3
<1>8. CASE Stops
  <2>1. /\ at = "deciding" /\ UNCHANGED <<run, calling, paid>> /\ Active
        /\ checkpoint'.done = c.done /\ c.failed \subseteq checkpoint'.failed
        /\ checkpoint'.pending = c.pending /\ checkpoint'.cost = c.cost /\ checkpoint'.status # "running"
    BY <1>8 DEF Stops, Active
  <2>2. Earned(checkpoint') = Earned(c)
    BY <2>1 DEF Earned
  <2>3. calling = {} /\ (checkpoint'.failed = {} => c.failed = {})
    BY <1>3, <2>1
  <2> QED BY <1>3, <2>1, <2>2, <2>3
<1>9. CASE Announced
  <2>1. /\ at = "deciding" /\ UNCHANGED <<run, calling, paid>> /\ Active /\ MayRequest(c)
        /\ checkpoint' \in Checkpoints
        /\ checkpoint'.done = c.done /\ checkpoint'.failed = c.failed /\ checkpoint'.prior = c.prior
        /\ checkpoint'.pending = Group(c) /\ checkpoint'.cost = c.cost /\ c.pending = {}
        /\ c.failed = {} /\ calling = {}
    BY <1>2, <1>3, <1>4, <1>9 DEF Announced, Active
  <2>2. Earned(checkpoint') = Earned(c)
    BY <1>2, <2>1, AnnouncedOwes
  <2>3. Earned(c) + Cost(checkpoint'.pending) <= Cap
    <3>1. Booked(c) + Cost(Group(c)) <= Cap
      BY <2>1 DEF MayRequest, Reserved, Cost
    <3>2. Booked(c) = Earned(c) + MaxCost * 0 /\ MaxCost * 0 = 0
      BY BookedOf, PaidRunAssumption
    <3> QED BY <1>5, <2>1, <3>1, <3>2
  <2> QED BY <1>3, <2>1, <2>2, <2>3
<1>10. CASE Sends
  <2>1. /\ at = "sending" /\ at' = "waiting" /\ UNCHANGED <<run, checkpoint, paid>> /\ Active
        /\ calling' = c.pending /\ c.failed = {}
    BY <1>2, <1>3, <1>4, <1>10 DEF Sends, Active
  <2>2. paid + Cost(c.pending) <= Cap
    BY <1>3, <1>5, <1>6, <2>1
  <2> QED BY <1>3, <2>1, <2>2
<1>11. ASSUME NEW i \in Items, NEW price \in 0..MaxCost, NEW told \in 0..MaxCost, Answered(i, price, told)
       PROVE  Goal
  <2> DEFINE d == checkpoint'
  <2>1. /\ at = "waiting" /\ UNCHANGED run /\ Active /\ i \in calling /\ calling' = calling \ {i}
        /\ paid' = paid + price /\ run = c /\ c.failed = {}
        /\ d \in Checkpoints
        /\ d.pending = c.pending \ {i} /\ d.prior = c.prior
        /\ d.cost = [c.cost EXCEPT ![i] = told]
        /\ \/ d.done = c.done \cup {i} /\ d.failed = c.failed /\ told = price
           \/ d.done = c.done /\ d.failed = c.failed \cup {i} /\ d.status # "running"
    BY <1>3, <1>4, <1>11 DEF Answered, Active
  <2>2. i \in c.pending /\ c.pending = calling /\ calling' = {} /\ i \notin c.done
    BY <1>2, <2>1
  <2> HIDE DEF d
  <2>3. d.done # c.done => Earned(d) = Earned(c) + told
    <3>1. \/ d.done = c.done \cup {i} /\ d.failed = c.failed
          \/ d.done = c.done /\ d.failed = c.failed \cup {i}
      BY <2>1
    <3>2. told \in 0..MaxCost
      BY <1>11
    <3>3. /\ c \in Checkpoints /\ d \in Checkpoints /\ i \in c.pending
          /\ c.done \cap c.failed = {} /\ (c.done \cup c.failed) \cap c.pending = {}
          /\ d.pending = c.pending \ {i} /\ d.prior = c.prior /\ d.cost = [c.cost EXCEPT ![i] = told]
      BY <1>2, <2>1, <2>2
    <3> QED BY <3>1, <3>2, <3>3, AnswerSettles
  <2>4. /\ Cost(d.pending) \in Nat /\ price \in Nat /\ price <= MaxCost
        /\ Cost(c.pending) = Cost(d.pending) + MaxCost
        /\ paid <= Earned(c) /\ Earned(c) + Cost(c.pending) <= Cap
    BY <1>3, <1>5, <1>6, <2>1, <2>2
  <2>5. paid' + Cost(calling') <= Cap
    <3>1. paid + Cost(c.pending) <= Cap
      BY <1>3, <2>2
    <3> QED BY <1>5, <1>6, <2>1, <2>2, <2>4, <3>1
  <2>6. CASE d.done = c.done \cup {i} /\ d.failed = c.failed /\ told = price
    <3>1. Earned(d) = Earned(c) + price
      BY <2>2, <2>3, <2>6
    <3>2. paid' <= Earned(d) /\ Earned(d) + Cost(d.pending) <= Cap
      BY <1>5, <2>1, <2>4, <3>1
    <3> QED BY <2>1, <2>2, <2>5, <2>6, <3>2 DEF d
  <2>7. CASE d.failed = c.failed \cup {i} /\ d.status # "running"
    BY <2>1, <2>2, <2>5, <2>7 DEF d
  <2> QED BY <2>1, <2>6, <2>7
<1>12. CASE Loses
  <2>1. UNCHANGED run /\ calling' = {} /\ ~Active' /\ checkpoint' = Fresh /\ at' = "lost"
    BY <1>12 DEF Loses, Active
  <2>2. PICK bill \in Nat : bill <= Cost(calling) /\ paid' = paid + bill
    BY <1>12 DEF Loses, Cost
  <2>3. paid' + Cost(calling') <= Cap
    BY <1>3, <1>5, <1>6, <2>1, <2>2
  <2>4. CASE calling = {}
    <3>1. paid' = paid
      BY <1>5, <1>6, <2>2, <2>4
    <3> QED BY <1>3, <2>1, <2>3, <3>1
  <2>5. CASE calling # {}
    <3>1. run.pending # {}
      BY <1>2, <1>3, <1>4, <2>5
    <3> QED BY <2>1, <2>3, <3>1
  <2> QED BY <2>4, <2>5
<1>13. CASE Resumes
  <2>1. UNCHANGED <<run, calling, paid>> /\ calling = {} /\ ~Active
    BY <1>3, <1>13 DEF Resumes, Active
  <2>2. CASE at' \in {"refused", "ended"} /\ UNCHANGED checkpoint
    BY <1>3, <2>1, <2>2 DEF Active
  <2>3. CASE /\ at' = "writing" /\ run # NoFile /\ run.pending = {} /\ run.failed = {}
             /\ checkpoint' = [run EXCEPT !.status = "running"]
    <3>1. /\ checkpoint'.pending = {} /\ checkpoint'.failed = {} /\ checkpoint'.done = run.done
          /\ checkpoint'.cost = run.cost
      BY <1>2, <2>3 DEF Checkpoints
    <3>2. Earned(checkpoint') = Earned(run)
      BY <3>1 DEF Earned
    <3>3. Earned(run) + Cost({}) <= Cap /\ paid <= Earned(run)
      BY <1>3, <1>5, <1>6, <2>3
    <3> QED BY <1>3, <2>1, <2>3, <3>1, <3>2, <3>3
  <2> QED BY <1>13, <2>2, <2>3 DEF Resumes
<1>14. CASE UNCHANGED <<program, at, checkpoint, calling, run, paid, requests>>
  BY <1>3, <1>14 DEF Active
<1> QED BY <1>0, <1>7, <1>8, <1>9, <1>10, <1>11, <1>12, <1>13, <1>14, StepKinds

LEMMA TypedStep == ASSUME Shapes, Typed, [Next]_vars PROVE Typed'
<1>1. /\ checkpoint \in Checkpoints
      /\ MaxCost \in Nat /\ Workers \in Nat
  BY PaidRunAssumption DEF Shapes, WellFormed
<1>2. CASE WriteFile
  <2>1. PredictionsOf(checkpoint) \subseteq Items \X (0..MaxCost)
    BY <1>1 DEF PredictionsOf, Checkpoints
  <2>2. FailuresOf(checkpoint) \subseteq Items
    BY <1>1 DEF FailuresOf, Checkpoints
  <2>3. predictions' \in {predictions, PredictionsOf(checkpoint)} /\ failures' \in {failures, FailuresOf(checkpoint)}
        /\ UNCHANGED <<halting, unfinished, paid, requests, resumes>>
    BY <1>2 DEF WriteFile
  <2> QED BY <2>1, <2>2, <2>3 DEF Typed
<1>3. CASE Completes \/ StopsAtLimit \/ Announce
  BY <1>3 DEF Completes, StopsAtLimit, Announce, SaveUnless, Save, fileVars, Typed
<1>4. CASE Send
  <2>1. UNCHANGED <<halting, fileVars, paid, resumes>> /\ requests' \in [Items -> Nat]
    BY <1>4 DEF Send, Typed
  <2> QED BY <2>1 DEF fileVars, Typed
<1>5. ASSUME NEW i \in Items, NEW price \in 1..MaxCost, Succeeds(i, price) PROVE Typed'
  BY <1>1, <1>5 DEF Succeeds, Settle, Save, fileVars, Typed
<1>6. ASSUME NEW i \in Items, NEW stage \in {"provider", "mismatch", "validation"},
             NEW price \in 0..MaxCost, NEW told \in 0..price, Fails(i, stage, price, told)
      PROVE Typed'
  <2>1. UNCHANGED <<requests, resumes, fileVars>> /\ paid' = paid + price /\ halting' \in BOOLEAN
    BY <1>6 DEF Fails, Settle, Save
  <2> QED BY <1>1, <2>1 DEF fileVars, Typed
<1>7. ASSUME NEW bill \in 0..MaxCost * Workers, Lost(bill) PROVE Typed'
  <2>1. bill \in Nat
    BY <1>1
  <2>2. /\ paid' = paid + bill /\ halting' = FALSE /\ unfinished' \in {unfinished, at = "writing"}
        /\ UNCHANGED <<predictions, failures, requests, resumes>>
    BY <1>7 DEF Lost
  <2>3. (at = "writing") \in BOOLEAN
    OBVIOUS
  <2>4. unfinished' \in BOOLEAN
    BY <2>2, <2>3 DEF Typed
  <2>5. paid' \in Nat
    BY <2>1, <2>2 DEF Typed
  <2> QED BY <2>2, <2>4, <2>5 DEF Typed
<1>8. CASE Resume
  <2>1. UNCHANGED <<paid, requests>> /\ halting' = FALSE /\ resumes' = resumes + 1
    BY <1>8 DEF Resume
  <2>2. UNCHANGED <<predictions, failures, unfinished>>
    BY <1>8 DEF Resume, Save, fileVars
  <2>3. resumes' \in Nat
    BY <2>1 DEF Typed
  <2> QED BY <2>1, <2>2, <2>3 DEF Typed
<1>9. CASE Over \/ UNCHANGED vars
  BY <1>9 DEF Over, vars, fileVars, Typed
<1> QED BY <1>2, <1>3, <1>4, <1>5, <1>6, <1>7, <1>8, <1>9 DEF Next

-----------------------------------------------------------------------------
MoneyInv == PaidRunInv /\ Typed /\ RequestsCounted /\ AtomicPays /\ FrozenPays

LEMMA MoneyStart == PaidRunInit => MoneyInv
<1> SUFFICES ASSUME PaidRunInit PROVE MoneyInv
  OBVIOUS
<1>1. PaidRunInv
  BY InvStart
<1>2. /\ at = "writing" /\ checkpoint = Fresh /\ calling = {} /\ run = NoFile /\ paid = 0
      /\ \A i \in Items : requests[i] = 0
  BY DEF PaidRunInit
<1>3. Typed
  BY DEF PaidRunInit, Typed
<1>4. \A i \in Items : Fresh.prior[i] = 0
  BY DEF Fresh
<1>5. RequestsCounted
  BY <1>2, <1>4 DEF RequestsCounted
<1>6. /\ Fresh.failed = {} /\ Fresh.pending = {} /\ Fresh.done = {}
      /\ MaxCost * Cardinality({}) = 0 /\ Cap \in Nat
  BY PaidRunAssumption, FS_EmptySet DEF Fresh
<1>7. AtomicPays
  BY <1>2, <1>6, FreshIsApproved DEF AtomicPays
<1>8. FrozenPays
  <2>1. Earned(Fresh) = 0
    BY <1>6, TotalOfNothing DEF Earned
  <2> QED BY <1>2, <1>6, <2>1 DEF FrozenPays
<1> QED BY <1>1, <1>3, <1>5, <1>7, <1>8 DEF MoneyInv

LEMMA MoneyStep == MoneyInv /\ [Next]_vars => MoneyInv'
BY InvStep, TypedStep, CountedStep, AtomicStep, FrozenStep DEF MoneyInv, PaidRunInv

(* The invariant holds of every run of a paid program: the stored record counts *)
(* every request that was sent, and owes all that may have been billed.         *)
THEOREM MoneyAlways == Spec => []MoneyInv
  BY MoneyStart, MoneyStep, PTL DEF Spec

LEMMA MoneySound == MoneyInv => ApprovalIsKept
<1> SUFFICES ASSUME MoneyInv PROVE ApprovalIsKept
  OBVIOUS
<1>1. Shapes /\ Typed /\ RequestsCounted /\ AtomicPays /\ FrozenPays
  BY DEF MoneyInv, PaidRunInv
<1>2. checkpoint \in Checkpoints /\ (run # NoFile => run \in Checkpoints)
  BY <1>1 DEF Shapes, WellFormed
<1>3. PaidRunTypeOK
  <2>1. \A c \in {checkpoint, run} \ {NoFile} :
          c.done \cap c.failed = {} /\ (c.done \cup c.failed) \cap c.pending = {}
    BY <1>1 DEF Shapes, WellFormed
  <2>2. calling \subseteq Items
    BY <1>1 DEF Shapes, ProcessShape, Remaining
  <2> QED BY <1>1, <1>2, <2>1, <2>2 DEF PaidRunTypeOK, Typed, Shapes, ProcessShape
<1>4. \A i \in Items : requests[i] \in Nat
  BY <1>1 DEF Typed
<1>5. paid \in Nat /\ Cap \in Nat /\ MaxAttempts \in Nat /\ MaxRetries \in Nat /\ calling \in SUBSET Items
  BY <1>1, <1>3, PaidRunAssumption DEF Typed, PaidRunTypeOK
<1>6. MaxCost * Cardinality(calling) \in Nat
  BY <1>5, Flight
<1>7. CASE program = "frozen"
  <2>1. paid <= Cap
    BY <1>1, <1>5, <1>6, <1>7 DEF FrozenPays
  <2>2. \A i \in Items : requests[i] <= 1
    <3>1. run # NoFile => \A i \in Items : run.prior[i] = 0
      BY <1>1, <1>7 DEF RequestsCounted, Announces
    <3> QED BY <1>1, <1>4, <1>7, <3>1 DEF RequestsCounted, Announces, Tried
  <2> QED BY <1>3, <1>7, <2>1, <2>2 DEF ApprovalIsKept
<1>8. CASE program = "answers"
  <2>1. run # NoFile => \A i \in Items : run.prior[i] = 0
    BY <1>1, <1>8 DEF RequestsCounted, Announces
  <2>2. \A i \in Items : requests[i] <= 1
    BY <1>1, <1>4, <1>8, <2>1 DEF RequestsCounted, Announces, Tried
  <2> QED BY <1>3, <1>8, <2>2 DEF ApprovalIsKept
<1>9. CASE program = "atomic"
  <2>1. run # NoFile => paid <= Owed(run) /\ Owed(run) \in Nat /\ Owed(run) <= Cap /\ Booked(run) = Owed(run)
    <3>1. run # NoFile => Owed(run) \in Nat
      BY <1>2, OwedType
    <3> QED BY <1>1, <1>5, <1>6, <1>9, <3>1, BookedOf DEF AtomicPays, Approved
  <2>2. paid <= Cap
    BY <1>1, <1>5, <1>9, <2>1 DEF AtomicPays
  <2> DEFINE g == [i \in Items |-> IF requests[i] > 1 THEN requests[i] - 1 ELSE 0]
  <2>3. requests \in [Items -> Nat] /\ g \in [Items -> Nat]
    BY <1>1 DEF Typed
  <2>4. CASE run = NoFile
    <3>1. \A i \in Items : requests[i] = 0
      BY <1>1, <1>9, <2>4 DEF RequestsCounted, Announces
    <3>2. \A i \in Items : g[i] = 0
      BY <3>1
    <3> HIDE DEF g
    <3>3. Total(requests, Items) = 0 /\ Total(g, Items) = 0
      BY <3>1, <3>2, ZerosAddUp
    <3> QED BY <1>3, <1>5, <1>9, <2>1, <2>2, <2>4, <3>3 DEF ApprovalIsKept, g
  <2>5. CASE run # NoFile
    <3> DEFINE f == Tried(run)
               h == Repeats(Tried(run))
    <3>1. f \in [Items -> Nat] /\ h \in [Items -> Nat]
      BY <1>2, <2>5, FieldsOf
    <3>2. \A i \in Items : requests[i] <= f[i]
      BY <1>1, <1>9, <2>5 DEF RequestsCounted, Announces
    <3>3. \A i \in Items : g[i] <= h[i]
      <4> SUFFICES ASSUME NEW i \in Items PROVE g[i] <= h[i]
        OBVIOUS
      <4>1. h[i] = IF f[i] > 1 THEN f[i] - 1 ELSE 0
        BY DEF Repeats
      <4>2. requests[i] <= f[i] /\ requests[i] \in Nat /\ f[i] \in Nat
        BY <1>4, <3>1, <3>2
      <4>3. g[i] = IF requests[i] > 1 THEN requests[i] - 1 ELSE 0
        OBVIOUS
      <4> HIDE DEF f, g, h
      <4> QED BY <4>1, <4>2, <4>3
    <3>4. Total(f, Items) <= MaxAttempts /\ Total(h, Items) <= MaxRetries
      BY <1>1, <1>9, <2>5 DEF AtomicPays, Approved
    <3> HIDE DEF f, g, h
    <3>5. Total(requests, Items) <= Total(f, Items) /\ Total(g, Items) <= Total(h, Items)
      BY <2>3, <3>1, <3>2, <3>3, TotalLess
    <3>6. /\ Total(requests, Items) \in Nat /\ Total(f, Items) \in Nat
          /\ Total(g, Items) \in Nat /\ Total(h, Items) \in Nat
      BY <2>3, <3>1, TotalType
    <3>7. Total(requests, Items) <= MaxAttempts /\ Total(g, Items) <= MaxRetries
      BY <1>5, <3>4, <3>5, <3>6
    <3> QED BY <1>3, <1>9, <2>1, <2>2, <2>5, <3>7 DEF ApprovalIsKept, g
  <2> QED BY <2>4, <2>5
<1>10. CASE program \notin {"atomic", "frozen", "answers"}
  BY <1>3, <1>10 DEF ApprovalIsKept
<1> QED BY <1>7, <1>8, <1>9, <1>10

(* However often a paid program is lost and resumed, the provider takes no more *)
(* than was approved, the record of run_atomic counts no less than was taken,   *)
(* retries stay within their limit over all processes, and the frozen programs  *)
(* repeat nothing (execute_atomic_pipeline, run_extraction_batch,               *)
(* run_answer_batch).                                                           *)
THEOREM ApprovalIsAlwaysKept == Spec => []ApprovalIsKept
  BY MoneyAlways, MoneySound, PTL
=============================================================================
