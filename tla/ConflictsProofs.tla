-------------------------- MODULE ConflictsProofs --------------------------
(***************************************************************************)
(* Theorems of module Conflicts, for any pairs of claims, any instants and *)
(* any number of decisions and moves.                                      *)
(* What the resolver and the service do rests on OutsidersStayOut, which   *)
(* is inductive, and on DecisionsRemember: a decision has the status of    *)
(* every version that is still the open one.                               *)
(***************************************************************************)
EXTENDS Conflicts, FiniteSetTheorems, TLAPS

\* Of two sides, one decides alone when it is the only match.
LEMMA Alone == ASSUME NEW S \in SUBSET Sides
               PROVE  /\ Cardinality(S) = 1 <=> S = {1} \/ S = {2}
                      /\ IsFiniteSet(S)
<1>1. S \in {{}, {1}, {2}, {1, 2}}
  BY DEF Sides
<1>2. IsFiniteSet({1}) /\ Cardinality({1, 2}) = 2 /\ IsFiniteSet({1, 2})
  <2>1. IsFiniteSet({1}) /\ Cardinality({1}) = 1
    BY FS_Singleton
  <2>2. {1, 2} = {1} \cup {2} /\ 2 \notin {1}
    OBVIOUS
  <2> QED BY <2>1, <2>2, FS_AddElement
<1> QED BY <1>1, <1>2, FS_EmptySet, FS_Singleton

Labels == {"unrelated", "temporal_change", "explicit_correction", "refinement", "retraction",
           "hard_contradiction", "source_disagreement", "unresolved_ambiguity"}
Directed == {"explicit_correction", "refinement", "retraction"}
\* What classify_conflict returns.
AVerdict(v) ==
  /\ v = [label |-> v.label, source |-> v.source]
  /\ v.label \in Labels /\ v.source \in {0} \cup Sides
  /\ v.label \in Directed <=> v.source # 0

LEMMA OtherSide == /\ Other(1) = 2 /\ Other(2) = 1
                   /\ \A i \in Sides : Other(i) \in Sides /\ Other(i) # i /\ Other(Other(i)) = i
                   /\ \A i, j \in Sides : i = j \/ i = Other(j)
  BY DEF Other, Sides

\* The verdict on two claims of one predicate is well-formed, and a temporal change
\* is only found between periods that can be ordered.
LEMMA SamePredicateJudged ==
  ASSUME NEW p
  PROVE  /\ AVerdict(SamePredicate(p))
         /\ SamePredicate(p).label = "temporal_change" => Orderable(p)
<1> DEFINE finer == CHOOSE i \in Finer(p) : TRUE
<1>1. Finer(p) # {} => finer \in Sides
  BY DEF Finer
<1>2. 0 \notin Sides
  BY DEF Sides
<1> DEFINE rivals == p[1].predicate \in SingleValued /\ Changed(p) /\ Dated(p[1], p[2])
<1>3. SamePredicate(p) = Undirected("temporal_change") => rivals /\ ~Overlap(p[1], p[2])
  BY DEF SamePredicate, Undirected, Ambiguous
<1>4. \/ SamePredicate(p) = [label |-> "refinement", source |-> finer] /\ Finer(p) # {}
      \/ SamePredicate(p) = Ambiguous
      \/ \E l \in {"temporal_change", "hard_contradiction", "source_disagreement", "unrelated"} :
            SamePredicate(p) = Undirected(l)
  BY DEF SamePredicate
<1>5. AVerdict(SamePredicate(p))
  <2> HIDE DEF finer
  <2> QED BY <1>1, <1>2, <1>4 DEF AVerdict, Undirected, Ambiguous, Labels, Directed
<1>6. ASSUME SamePredicate(p).label = "temporal_change"
      PROVE  SamePredicate(p) = Undirected("temporal_change")
  BY <1>4, <1>6 DEF Undirected, Ambiguous
<1> QED BY <1>3, <1>5, <1>6 DEF Dated, Orderable

LEMMA Judged ==
  ASSUME NEW p, NEW aim \in {0} \cup Sides
  PROVE  /\ AVerdict(Verdict(p, aim))
         /\ Verdict(p, aim).label = "temporal_change" => Orderable(p)
<1>1. 0 \notin Sides
  BY DEF Sides
<1>2. CASE aim # 0
  <2>1. Other(aim) \in Sides
    BY <1>2, OtherSide
  <2>2. Verdict(p, aim) = Targeted(p, aim)
    BY <1>2 DEF Verdict
  <2>3. \/ Targeted(p, aim) = Ambiguous
        \/ \E l \in {"retraction", "explicit_correction"} :
              Targeted(p, aim) = [label |-> l, source |-> Other(aim)]
    BY DEF Targeted
  <2> HIDE DEF Other
  <2> QED BY <1>1, <2>1, <2>2, <2>3 DEF AVerdict, Ambiguous, Labels, Directed
<1>3. CASE aim = 0
  <2>1. \/ Verdict(p, aim) = SamePredicate(p)
        \/ Verdict(p, aim) = Ambiguous
        \/ Verdict(p, aim) = Undirected("unrelated")
    BY <1>3 DEF Verdict
  <2> QED BY <2>1, SamePredicateJudged DEF AVerdict, Ambiguous, Undirected, Labels, Directed
<1> QED BY <1>2, <1>3

\* Every verdict that classify_conflict can return has a plan in resolve_belief.
THEOREM VerdictsAlwaysPlanned == Spec => []VerdictsHavePlans
<1>1. VerdictsHavePlans
  BY Judged DEF VerdictsHavePlans, AVerdict, Directed
<1> QED BY <1>1, PTL DEF Spec

-----------------------------------------------------------------------------
\* What the resolver plans.

\* A claim that is not terminal gets one of three statuses; a terminal one stays.
LEMMA Fitting ==
  ASSUME NEW c, NEW s, NEW t
  PROVE  /\ s \in Terminal => Appropriate(c, s, t) = s
         /\ s \notin Terminal => Appropriate(c, s, t) \in {"current", "historical", "confirmed"}
  BY DEF Appropriate

LEMMA PolicyTyped ==
  ASSUME NEW p, NEW st \in [Sides -> Statuses], NEW v, AVerdict(v), NEW t
  PROVE  /\ v.label = "unrelated" => DOMAIN Policy(p, st, v, t) = {}
         /\ v.label # "unrelated" => DOMAIN Policy(p, st, v, t) = Sides
         /\ \A j \in DOMAIN Policy(p, st, v, t) : Policy(p, st, v, t)[j] \in Statuses
<1> DEFINE Fit(i) == Appropriate(p[i], st[i], t)
           Aims(i, x, y) == [j \in Sides |-> IF j = i THEN x ELSE y]
<1>1. \A i \in Sides : Fit(i) \in Statuses
  BY Fitting DEF Statuses, Terminal
<1>2. Later(p) \in Sides
  BY DEF Later, Sides
<1>3. v.label \in Labels /\ (v.label \in Directed => v.source \in Sides)
  BY DEF AVerdict
<1> HIDE DEF Fit
<1>4. CASE v.label = "unrelated"
  <2>1. Policy(p, st, v, t) = [j \in {} |-> "excluded"]
    BY <1>4 DEF Policy
  <2> QED BY <1>4, <2>1
<1>5. CASE v.label = "temporal_change"
  <2>1. Policy(p, st, v, t) = Aims(Later(p), Fit(Later(p)), "historical")
    BY <1>5 DEF Policy, Fit
  <2> QED BY <1>1, <1>2, <1>5, <2>1 DEF Statuses
<1>6. CASE v.label \in {"explicit_correction", "refinement"}
  <2>1. Policy(p, st, v, t) = Aims(v.source, Fit(v.source), "superseded")
    BY <1>6 DEF Policy, Fit
  <2> QED BY <1>1, <1>3, <1>6, <2>1 DEF Statuses, Terminal, Directed
<1>7. CASE v.label = "retraction"
  <2>1. Policy(p, st, v, t) = Aims(v.source, "confirmed", "superseded")
    BY <1>7 DEF Policy
  <2> QED BY <1>7, <2>1 DEF Statuses, Terminal
<1>8. CASE v.label \in {"hard_contradiction", "source_disagreement"}
  <2>1. Policy(p, st, v, t) =
          [j \in Sides |-> IF j \in Decisive(p, t) THEN Fit(j) ELSE "disputed"]
    BY <1>8 DEF Policy, Fit
  <2> QED BY <1>1, <1>8, <2>1 DEF Statuses
<1>9. CASE v.label = "unresolved_ambiguity"
  <2>1. Policy(p, st, v, t) = [j \in Sides |-> "disputed"]
    BY <1>9 DEF Policy
  <2> QED BY <1>9, <2>1 DEF Statuses
<1> QED BY <1>3, <1>4, <1>5, <1>6, <1>7, <1>8, <1>9 DEF Labels

LEMMA PlanTyped ==
  ASSUME NEW p, NEW st \in [Sides -> Statuses], NEW v, AVerdict(v), NEW t
  PROVE  /\ DOMAIN Plan(p, st, v, t) \subseteq Sides
         /\ \A j \in DOMAIN Plan(p, st, v, t) : Plan(p, st, v, t)[j] \in Statuses
         /\ \A i \in Sides : Barred(p[i]) =>
              \A j \in DOMAIN Plan(p, st, v, t) : Barred(p[j]) /\ Plan(p, st, v, t)[j] = "excluded"
<1> DEFINE out == {i \in Sides : Barred(p[i])}
<1>1. CASE out = {}
  <2>1. Plan(p, st, v, t) = Policy(p, st, v, t)
    BY <1>1 DEF Plan
  <2> QED BY <1>1, <2>1, PolicyTyped
<1>2. CASE out # {}
  <2>1. Plan(p, st, v, t) = [j \in out |-> "excluded"]
    BY <1>2 DEF Plan
  <2> QED BY <2>1 DEF Statuses, Terminal
<1> QED BY <1>1, <1>2

\* A step of the resolver: what each claim becomes.
LEMMA Moved ==
  ASSUME NEW p, NEW st \in [Sides -> Statuses], NEW v, AVerdict(v), NEW t
  PROVE  LET plan == Plan(p, st, v, t)
             moves == Moves(p, st, v, t)
         IN /\ DOMAIN moves = {j \in DOMAIN plan : st[j] \notin Terminal /\ st[j] # plan[j]}
            /\ \A j \in DOMAIN moves : moves[j] = plan[j]
            /\ DOMAIN moves \subseteq Sides
            /\ \A j \in DOMAIN moves : moves[j] \in Statuses
<1> DEFINE plan == Plan(p, st, v, t)
           moves == Moves(p, st, v, t)
<1>1. moves = [i \in {j \in DOMAIN plan : st[j] \notin Terminal /\ st[j] # plan[j]} |-> plan[i]]
  BY DEF Moves
<1>2. DOMAIN plan \subseteq Sides /\ \A j \in DOMAIN plan : plan[j] \in Statuses
  BY PlanTyped
<1> HIDE DEF plan, moves
<1>3. /\ DOMAIN moves = {j \in DOMAIN plan : st[j] \notin Terminal /\ st[j] # plan[j]}
      /\ \A j \in DOMAIN moves : moves[j] = plan[j]
  BY <1>1
<1> QED BY <1>2, <1>3 DEF plan, moves

-----------------------------------------------------------------------------
\* Invariants of the service.

\* A version has one status: a decision that read the open version of a claim
\* has its status.
DecisionsRemember ==
  \A d \in decisions, i \in Sides :
    /\ d.version[i] <= version[i]
    /\ d.version[i] = version[i] => d.status[i] = status[i]

\* A step of Resolve, claim by claim.
LEMMA ResolveMoves ==
  ASSUME TypeOK, NEW d \in decisions, NEW t, Resolve(d, t)
  PROVE  LET plan == Plan(claims, d.status, Verdict(claims, d.aim), t)
         IN /\ claims' = claims /\ decisions' = decisions
            /\ status' \in [Sides -> Statuses] /\ version' \in [Sides -> 0 .. MaxMoves]
            /\ \A i \in Sides :
                 \/ /\ i \in DOMAIN plan /\ d.status[i] \notin Terminal /\ d.status[i] # plan[i]
                    /\ version[i] = d.version[i]
                    /\ status'[i] = plan[i] /\ version'[i] = version[i] + 1
                 \/ /\ i \in DOMAIN plan => d.status[i] \in Terminal \cup {plan[i]}
                    /\ status'[i] = status[i] /\ version'[i] = version[i]
<1> DEFINE v == Verdict(claims, d.aim)
           plan == Plan(claims, d.status, v, t)
           moves == Moves(claims, d.status, v, t)
<1>1. d.aim \in {0} \cup Sides /\ d.status \in [Sides -> Statuses]
  BY DEF TypeOK
<1>2. AVerdict(v)
  BY <1>1, Judged
<1>3. /\ DOMAIN moves = {j \in DOMAIN plan : d.status[j] \notin Terminal /\ d.status[j] # plan[j]}
      /\ \A j \in DOMAIN moves : moves[j] = plan[j]
      /\ DOMAIN moves \subseteq Sides
      /\ \A j \in DOMAIN moves : moves[j] \in Statuses
  BY <1>1, <1>2, Moved
<1>4. /\ \A i \in DOMAIN moves : version[i] = d.version[i] /\ version[i] < MaxMoves
      /\ status' = [i \in Sides |-> IF i \in DOMAIN moves THEN moves[i] ELSE status[i]]
      /\ version' = [i \in Sides |-> IF i \in DOMAIN moves THEN version[i] + 1 ELSE version[i]]
      /\ claims' = claims /\ decisions' = decisions
  BY DEF Resolve, MovesOf
<1> HIDE DEF v, plan, moves
<1>5. status' \in [Sides -> Statuses]
  BY <1>3, <1>4 DEF TypeOK
<1>6. version' \in [Sides -> 0 .. MaxMoves]
  BY <1>3, <1>4, ConflictsAssumption DEF TypeOK
<1>7. ASSUME NEW i \in Sides
      PROVE  \/ /\ i \in DOMAIN plan /\ d.status[i] \notin Terminal /\ d.status[i] # plan[i]
                /\ version[i] = d.version[i]
                /\ status'[i] = plan[i] /\ version'[i] = version[i] + 1
             \/ /\ i \in DOMAIN plan => d.status[i] \in Terminal \cup {plan[i]}
                /\ status'[i] = status[i] /\ version'[i] = version[i]
  BY <1>3, <1>4
<1> QED BY <1>4, <1>5, <1>6, <1>7 DEF plan, v

LEMMA Initially == Init => OutsidersStayOut /\ DecisionsRemember
<1> SUFFICES ASSUME Init PROVE OutsidersStayOut /\ DecisionsRemember
  OBVIOUS
<1>1. TypeOK
  BY ConflictsAssumption DEF Init, TypeOK, Statuses
<1> QED BY <1>1, OtherSide DEF Init, OutsidersStayOut, DecisionsRemember

\* Every call keeps claims of outsiders out, and what decisions remember.
LEMMA ConflictsStep ==
  OutsidersStayOut /\ DecisionsRemember /\ [Next]_vars => OutsidersStayOut' /\ DecisionsRemember'
<1> SUFFICES ASSUME OutsidersStayOut, DecisionsRemember, [Next]_vars
             PROVE  OutsidersStayOut' /\ DecisionsRemember'
  OBVIOUS
<1>t. TypeOK
  BY DEF OutsidersStayOut
<1>1. ASSUME NEW aim \in {0} \cup Sides, Classify(aim)
      PROVE  OutsidersStayOut' /\ DecisionsRemember'
  <2> DEFINE new == [aim |-> aim, version |-> version, status |-> status]
  <2>1. decisions' = decisions \cup {new} /\ UNCHANGED <<claims, status, version>>
    BY <1>1 DEF Classify
  <2>2. new.aim = aim /\ new.version = version /\ new.status = status
    OBVIOUS
  <2> HIDE DEF new
  <2>3. TypeOK'
    BY <1>t, <2>1, <2>2 DEF TypeOK
  <2>4. DecisionsRemember'
    BY <1>t, <2>1, <2>2, ConflictsAssumption DEF DecisionsRemember, TypeOK
  <2> QED BY <2>1, <2>3, <2>4 DEF OutsidersStayOut
<1>2. ASSUME NEW d \in decisions, NEW t \in ValidAt \cup {NoInstant}, Resolve(d, t)
      PROVE  OutsidersStayOut' /\ DecisionsRemember'
  <2> DEFINE v == Verdict(claims, d.aim)
             plan == Plan(claims, d.status, v, t)
  <2>1. /\ claims' = claims /\ decisions' = decisions
        /\ status' \in [Sides -> Statuses] /\ version' \in [Sides -> 0 .. MaxMoves]
        /\ \A i \in Sides :
             \/ /\ i \in DOMAIN plan /\ d.status[i] \notin Terminal /\ d.status[i] # plan[i]
                /\ version[i] = d.version[i]
                /\ status'[i] = plan[i] /\ version'[i] = version[i] + 1
             \/ /\ i \in DOMAIN plan => d.status[i] \in Terminal \cup {plan[i]}
                /\ status'[i] = status[i] /\ version'[i] = version[i]
    BY <1>t, <1>2, ResolveMoves
  <2>2. d.aim \in {0} \cup Sides /\ d.status \in [Sides -> Statuses]
    BY <1>t DEF TypeOK
  <2>3. \A i \in Sides : Barred(claims[i]) =>
          \A j \in DOMAIN plan : Barred(claims[j]) /\ plan[j] = "excluded"
    BY <2>2, Judged, PlanTyped
  <2> HIDE DEF plan, v
  <2>4. TypeOK'
    BY <1>t, <2>1 DEF TypeOK
  <2>5. DecisionsRemember'
    BY <1>t, <2>1, ConflictsAssumption DEF DecisionsRemember, TypeOK
  <2>6. ASSUME NEW i \in Sides, Barred(claims[i])
        PROVE  /\ status'[i] \in {"candidate", "excluded"}
               /\ Barred(claims[Other(i)]) \/ status'[Other(i)] = "candidate"
    <3>1. /\ status[i] \in {"candidate", "excluded"}
          /\ Barred(claims[Other(i)]) \/ status[Other(i)] = "candidate"
      BY <2>6 DEF OutsidersStayOut
    <3>2. Other(i) \in Sides
      BY OtherSide
    <3> QED BY <2>1, <2>3, <2>6, <3>1, <3>2
  <2> QED BY <2>1, <2>4, <2>5, <2>6 DEF OutsidersStayOut
<1>3. CASE UNCHANGED vars
  BY <1>3 DEF vars, OutsidersStayOut, TypeOK, DecisionsRemember
<1> QED BY <1>1, <1>2, <1>3 DEF Next

\* A restricted, hypothetical or foreign claim never becomes more than a candidate
\* and never moves the other claim, whatever is classified and resolved.
THEOREM OutsidersAlwaysOut == Spec => []OutsidersStayOut
<1> QED BY Initially, ConflictsStep, PTL DEF Spec

-----------------------------------------------------------------------------
\* What a resolution leaves to do.

\* A plan depends on the statuses only through the claims that are terminal.
LEMMA PlanIsStable ==
  ASSUME NEW p, NEW st \in [Sides -> Statuses], NEW su \in [Sides -> Statuses],
         NEW v, AVerdict(v), NEW t
  PROVE  /\ DOMAIN Plan(p, su, v, t) = DOMAIN Plan(p, st, v, t)
         /\ \A j \in DOMAIN Plan(p, st, v, t) :
              st[j] \notin Terminal /\ su[j] \notin Terminal =>
                Plan(p, su, v, t)[j] = Plan(p, st, v, t)[j]
<1> DEFINE out == {i \in Sides : Barred(p[i])}
           Fit(x, i) == Appropriate(p[i], x[i], t)
           Aims(i, x, y) == [j \in Sides |-> IF j = i THEN x ELSE y]
           Claim == /\ DOMAIN Policy(p, su, v, t) = DOMAIN Policy(p, st, v, t)
                    /\ \A j \in DOMAIN Policy(p, st, v, t) :
                         st[j] \notin Terminal /\ su[j] \notin Terminal =>
                           Policy(p, su, v, t)[j] = Policy(p, st, v, t)[j]
<1>1. CASE out # {}
  <2>1. \A x : Plan(p, x, v, t) = [j \in out |-> "excluded"]
    BY <1>1 DEF Plan
  <2> QED BY <2>1
<1>2. \A j \in Sides : st[j] \notin Terminal /\ su[j] \notin Terminal => Fit(su, j) = Fit(st, j)
  BY DEF Appropriate
<1>3. Later(p) \in Sides
  BY DEF Later, Sides
<1>4. v.label \in Labels /\ (v.label \in Directed => v.source \in Sides)
  BY DEF AVerdict
<1> HIDE DEF Fit
<1>5. CASE v.label = "unrelated"
  <2>1. \A x : Policy(p, x, v, t) = [j \in {} |-> "excluded"]
    BY <1>5 DEF Policy
  <2> QED BY <2>1 DEF Plan
<1>6. CASE v.label = "temporal_change"
  <2>1. \A x : Policy(p, x, v, t) = Aims(Later(p), Fit(x, Later(p)), "historical")
    BY <1>6 DEF Policy, Fit
  <2>2. Claim
    BY <1>2, <1>3, <2>1
  <2> QED BY <1>1, <2>2 DEF Plan
<1>7. CASE v.label \in {"explicit_correction", "refinement"}
  <2>1. \A x : Policy(p, x, v, t) = Aims(v.source, Fit(x, v.source), "superseded")
    BY <1>7 DEF Policy, Fit
  <2>2. Claim
    BY <1>2, <2>1
  <2> QED BY <1>1, <2>2 DEF Plan
<1>8. CASE v.label = "retraction"
  <2>1. \A x : Policy(p, x, v, t) = Aims(v.source, "confirmed", "superseded")
    BY <1>8 DEF Policy
  <2>2. Claim
    BY <2>1
  <2> QED BY <1>1, <2>2 DEF Plan
<1>9. CASE v.label \in {"hard_contradiction", "source_disagreement"}
  <2>1. \A x : Policy(p, x, v, t) =
          [j \in Sides |-> IF j \in Decisive(p, t) THEN Fit(x, j) ELSE "disputed"]
    BY <1>9 DEF Policy, Fit
  <2>2. Claim
    BY <1>2, <2>1
  <2> QED BY <1>1, <2>2 DEF Plan
<1>10. CASE v.label = "unresolved_ambiguity"
  <2>1. \A x : Policy(p, x, v, t) = [j \in Sides |-> "disputed"]
    BY <1>10 DEF Policy
  <2>2. Claim
    BY <2>1
  <2> QED BY <1>1, <2>2 DEF Plan
<1> QED BY <1>4, <1>5, <1>6, <1>7, <1>8, <1>9, <1>10 DEF Labels

\* No policy but "unrelated" wants both claims current.
LEMMA PolicyChooses ==
  ASSUME NEW p, NEW st \in [Sides -> Statuses], NEW v, AVerdict(v), v.label # "unrelated", NEW t
  PROVE  \E i \in Sides : Policy(p, st, v, t)[i] # "current"
<1> DEFINE Fit(i) == Appropriate(p[i], st[i], t)
           Aims(i, x, y) == [j \in Sides |-> IF j = i THEN x ELSE y]
<1>1. Later(p) \in Sides
  BY DEF Later, Sides
<1>2. v.label \in Labels /\ (v.label \in Directed => v.source \in Sides)
  BY DEF AVerdict
<1>3. \A i \in Sides : \A x, y : y # "current" => \E j \in Sides : Aims(i, x, y)[j] # "current"
  <2> TAKE i \in Sides
  <2> TAKE x, y
  <2>1. Other(i) \in Sides /\ Other(i) # i
    BY OtherSide
  <2>2. Aims(i, x, y)[Other(i)] = y
    BY <2>1
  <2> QED BY <2>1, <2>2
<1>4. CASE v.label = "temporal_change"
  <2>1. Policy(p, st, v, t) = Aims(Later(p), Fit(Later(p)), "historical")
    BY <1>4 DEF Policy
  <2> HIDE DEF Aims, Fit
  <2> QED BY <1>1, <1>3, <2>1
<1>5. CASE v.label \in {"explicit_correction", "refinement"}
  <2>1. Policy(p, st, v, t) = Aims(v.source, Fit(v.source), "superseded")
    BY <1>5 DEF Policy
  <2>2. v.source \in Sides
    BY <1>2, <1>5 DEF Directed
  <2> HIDE DEF Aims, Fit
  <2> QED BY <1>3, <2>1, <2>2
<1>6. CASE v.label = "retraction"
  <2>1. Policy(p, st, v, t) = Aims(v.source, "confirmed", "superseded")
    BY <1>6 DEF Policy
  <2>2. v.source \in Sides
    BY <1>2, <1>6 DEF Directed
  <2> HIDE DEF Aims
  <2> QED BY <1>3, <2>1, <2>2
<1>7. CASE v.label \in {"hard_contradiction", "source_disagreement"}
  <2>1. Policy(p, st, v, t) =
          [j \in Sides |-> IF j \in Decisive(p, t) THEN Fit(j) ELSE "disputed"]
    BY <1>7 DEF Policy
  <2>2. \E i \in Sides : i \notin Decisive(p, t)
    <3> DEFINE matches == {i \in Sides : p[i].official /\ Contains(p[i], t)}
    <3>1. matches \in SUBSET Sides
      OBVIOUS
    <3>2. 1 \in Sides /\ 2 \in Sides /\ 1 # 2
      BY DEF Sides
    <3>3. Decisive(p, t) = IF Cardinality(matches) = 1 THEN matches ELSE {}
      BY DEF Decisive
    <3> HIDE DEF matches
    <3>4. Cardinality(matches) = 1 => matches = {1} \/ matches = {2}
      BY <3>1, Alone
    <3> QED BY <3>2, <3>3, <3>4
  <2> HIDE DEF Fit
  <2> QED BY <2>1, <2>2
<1>8. CASE v.label = "unresolved_ambiguity"
  <2>1. Policy(p, st, v, t) = [j \in Sides |-> "disputed"]
    BY <1>8 DEF Policy
  <2> QED BY <2>1 DEF Sides
<1> QED BY <1>2, <1>4, <1>5, <1>6, <1>7, <1>8 DEF Labels

\* A resolution whose decision nobody has overtaken settles its question.
LEMMA SettlesStep ==
  ASSUME OutsidersStayOut, DecisionsRemember,
         NEW d \in decisions, NEW t, Resolve(d, t), d.version = version
  PROVE  /\ DOMAIN Moves(claims, status', Verdict(claims, d.aim), t) = {}
         /\ \/ \E i \in Sides : status'[i] # "current"
            \/ Verdict(claims, d.aim).label = "unrelated" /\ status' = status
<1> DEFINE v == Verdict(claims, d.aim)
           plan == Plan(claims, status, v, t)
           next == Plan(claims, status', v, t)
<1>1. TypeOK
  BY DEF OutsidersStayOut
<1>2. d.aim \in {0} \cup Sides /\ d.status \in [Sides -> Statuses] /\ status \in [Sides -> Statuses]
  BY <1>1 DEF TypeOK
<1>3. d.status = status
  BY <1>2 DEF DecisionsRemember
<1>4. AVerdict(v)
  BY <1>2, Judged
<1>5. /\ status' \in [Sides -> Statuses]
      /\ \A i \in Sides :
           \/ i \in DOMAIN plan /\ status[i] \notin Terminal /\ status'[i] = plan[i]
           \/ (i \in DOMAIN plan => status[i] \in Terminal \cup {plan[i]}) /\ status'[i] = status[i]
  BY <1>1, <1>3, ResolveMoves
<1>6. /\ DOMAIN next = DOMAIN plan
      /\ \A j \in DOMAIN plan :
           status[j] \notin Terminal /\ status'[j] \notin Terminal => next[j] = plan[j]
  BY <1>2, <1>4, <1>5, PlanIsStable
<1>7. DOMAIN plan \subseteq Sides
  BY <1>2, <1>4, PlanTyped
<1>8. DOMAIN Moves(claims, status', v, t) =
        {j \in DOMAIN next : status'[j] \notin Terminal /\ status'[j] # next[j]}
  BY <1>4, <1>5, Moved
<1>9. DOMAIN Moves(claims, status', v, t) = {}
  <2> HIDE DEF plan, next, v
  <2> QED BY <1>5, <1>6, <1>7, <1>8
<1>10. \/ \E i \in Sides : status'[i] # "current"
       \/ v.label = "unrelated" /\ status' = status
  <2> DEFINE out == {i \in Sides : Barred(claims[i])}
  <2>1. CASE out # {}
    <3>1. PICK i \in Sides : Barred(claims[i])
      BY <2>1
    <3>2. status[i] \in {"candidate", "excluded"}
      BY <3>1 DEF OutsidersStayOut
    <3>3. i \in DOMAIN plan => plan[i] = "excluded"
      BY <1>2, <1>4, <3>1, PlanTyped
    <3> HIDE DEF plan
    <3> QED BY <1>5, <3>2, <3>3
  <2>2. CASE out = {}
    <3>1. plan = Policy(claims, status, v, t)
      BY <2>2 DEF Plan
    <3>2. CASE v.label = "unrelated"
      <4>1. DOMAIN plan = {}
        BY <1>2, <1>4, <3>1, <3>2, PolicyTyped
      <4> HIDE DEF plan
      <4>2. \A i \in Sides : status'[i] = status[i]
        BY <1>5, <4>1
      <4> QED BY <1>2, <1>5, <3>2, <4>2
    <3>3. CASE v.label # "unrelated"
      <4>1. PICK i \in Sides : plan[i] # "current"
        BY <1>2, <1>4, <3>1, <3>3, PolicyChooses
      <4>2. i \in DOMAIN plan
        BY <1>2, <1>4, <3>1, <3>3, PolicyTyped
      <4> HIDE DEF plan
      <4>3. status'[i] \in Terminal \cup {plan[i]}
        BY <1>5, <4>2
      <4> QED BY <4>1, <4>3 DEF Terminal
    <3> QED BY <3>2, <3>3
  <2> QED BY <2>1, <2>2
<1> QED BY <1>9, <1>10

THEOREM PlansAlwaysSettle == Spec => PlansSettle
<1>1. ASSUME OutsidersStayOut, DecisionsRemember
      PROVE  \A d \in decisions, t \in ValidAt \cup {NoInstant} :
               Resolve(d, t) /\ d.version = version =>
                 /\ DOMAIN Moves(claims, status', Verdict(claims, d.aim), t) = {}
                 /\ \/ \E i \in Sides : status'[i] # "current"
                    \/ Verdict(claims, d.aim).label = "unrelated" /\ status' = status
  BY <1>1, SettlesStep
<1> QED BY <1>1, Initially, ConflictsStep, PTL DEF Spec, PlansSettle

-----------------------------------------------------------------------------
\* The order of the claims makes no difference.

\* The side that a verdict on the swapped pair names.
Opposite(a) == IF a = 0 THEN 0 ELSE Other(a)

LEMMA Swapped == ASSUME NEW p, DOMAIN p = Sides
                 PROVE  /\ DOMAIN Swap(p) = Sides
                        /\ \A i \in Sides : Swap(p)[i] = p[Other(i)]
                        /\ Swap(p)[1] = p[2] /\ Swap(p)[2] = p[1]
  BY OtherSide DEF Swap, Sides

\* How two claims compare does not depend on which is the first.
LEMMA ComparesAlike ==
  ASSUME NEW c, NEW d
  PROVE  /\ Dated(c, d) <=> Dated(d, c)
         /\ Comparable(c, d) <=> Comparable(d, c)
         /\ Overlap(c, d) <=> Overlap(d, c)
  BY DEF Dated, Comparable, Overlap

LEMMA ChangedAlike == ASSUME NEW p, DOMAIN p = Sides
                      PROVE  Changed(Swap(p)) <=> Changed(p)
  BY Swapped DEF Changed

\* Only one claim can say all that the other says and more.
LEMMA FinerAlike ==
  ASSUME NEW p, DOMAIN p = Sides
  PROVE  /\ Finer(p) \in {{}, {1}, {2}}
         /\ \A i \in Sides : i \in Finer(Swap(p)) <=> Other(i) \in Finer(p)
         /\ Finer(Swap(p)) \subseteq Sides
<1>1. ~(1 \in Finer(p) /\ 2 \in Finer(p))
  BY OtherSide DEF Finer
<1>2. Finer(p) \subseteq {1, 2} /\ Finer(Swap(p)) \subseteq Sides
  BY DEF Finer, Sides
<1>3. Finer(p) \in {{}, {1}, {2}}
  BY <1>1, <1>2
<1>4. ASSUME NEW i \in Sides
      PROVE  i \in Finer(Swap(p)) <=> Other(i) \in Finer(p)
  <2>1. Other(i) \in Sides /\ Other(Other(i)) = i
    BY OtherSide
  <2>2. Swap(p)[i] = p[Other(i)] /\ Swap(p)[Other(i)] = p[i]
    BY <2>1, Swapped
  <2> QED BY <2>1, <2>2 DEF Finer
<1> QED BY <1>2, <1>3, <1>4

LEMMA SamePredicateAlike ==
  ASSUME NEW p, DOMAIN p = Sides, p[1].predicate = p[2].predicate
  PROVE  /\ SamePredicate(Swap(p)).label = SamePredicate(p).label
         /\ SamePredicate(Swap(p)).source = Opposite(SamePredicate(p).source)
<1> DEFINE q == Swap(p)
           rivals(x) == x[1].predicate \in SingleValued /\ Changed(x) /\ Dated(x[1], x[2])
           source(x) == CHOOSE i \in Finer(x) : TRUE
           unsure(x) == /\ Changed(x)
                        /\ \/ ~Dated(x[1], x[2])
                           \/ \E i \in Sides : x[i].epistemic \in {"uncertain", "hypothetical", "inferred"}
           kind(x) == IF x[1].speaker = x[2].speaker THEN "hard_contradiction"
                      ELSE "source_disagreement"
<1>1. q[1] = p[2] /\ q[2] = p[1] /\ \A i \in Sides : q[i] = p[Other(i)] /\ Other(i) \in Sides
  BY Swapped, OtherSide
<1>2. Changed(q) <=> Changed(p)
  BY ChangedAlike
<1>3. rivals(q) <=> rivals(p)
  BY <1>1, <1>2, ComparesAlike
<1>4. unsure(q) <=> unsure(p)
  <2>1. \A i \in Sides : p[i] = q[Other(i)]
    BY <1>1, OtherSide
  <2> QED BY <1>1, <1>2, <2>1, ComparesAlike
<1>5. Overlap(q[1], q[2]) <=> Overlap(p[1], p[2])
  BY <1>1, ComparesAlike
<1>6. kind(q) = kind(p)
  BY <1>1
<1>7. /\ Finer(q) # {} <=> Finer(p) # {}
      /\ Finer(p) # {} => source(q) = Opposite(source(p))
  <2>1. /\ \A i \in Sides : i \in Finer(q) <=> Other(i) \in Finer(p)
        /\ Finer(q) \subseteq Sides /\ Finer(p) \in {{}, {1}, {2}}
    BY FinerAlike
  <2>2. CASE Finer(p) = {}
    BY <2>1, <2>2
  <2>3. ASSUME NEW k \in Sides, Finer(p) = {k}
        PROVE  Finer(q) = {Other(k)} /\ source(q) = Opposite(source(p))
    <3>1. Finer(q) = {Other(k)}
      BY <2>1, <2>3, OtherSide
    <3>2. source(q) = Other(k) /\ source(p) = k
      BY <2>3, <3>1
    <3>3. Opposite(k) = Other(k)
      BY DEF Opposite, Sides
    <3> HIDE DEF source
    <3> QED BY <3>1, <3>2, <3>3
  <2> QED BY <2>1, <2>2, <2>3 DEF Sides
<1>8. \A x : SamePredicate(x) =
        IF rivals(x) /\ ~Overlap(x[1], x[2]) THEN Undirected("temporal_change")
        ELSE IF rivals(x) THEN Undirected(kind(x))
        ELSE IF Finer(x) # {} THEN [label |-> "refinement", source |-> source(x)]
        ELSE IF unsure(x) THEN Ambiguous ELSE Undirected("unrelated")
  BY DEF SamePredicate
<1> HIDE DEF q, rivals, source, unsure, kind
<1>9. Opposite(0) = 0
  BY DEF Opposite
<1>10. SamePredicate(q).label = SamePredicate(p).label /\
       SamePredicate(q).source = Opposite(SamePredicate(p).source)
  BY <1>3, <1>4, <1>5, <1>6, <1>7, <1>8, <1>9 DEF Undirected, Ambiguous
<1> QED BY <1>10 DEF q

LEMMA VerdictAlike ==
  ASSUME NEW p, DOMAIN p = Sides, NEW aim \in {0} \cup Sides
  PROVE  /\ Verdict(Swap(p), Opposite(aim)).label = Verdict(p, aim).label
         /\ Verdict(Swap(p), Opposite(aim)).source = Opposite(Verdict(p, aim).source)
<1> DEFINE q == Swap(p)
<1>1. \A i \in Sides : q[i] = p[Other(i)]
  BY Swapped
<1>2. Opposite(0) = 0 /\ 0 \notin Sides
  BY DEF Opposite, Sides
<1>3. CASE aim # 0
  <2> DEFINE i == Other(aim)
  <2>1. /\ i \in Sides /\ aim \in Sides /\ Other(i) = aim
        /\ Opposite(aim) = i /\ Opposite(i) = Other(i) /\ i # 0
    BY <1>2, <1>3, OtherSide DEF Opposite
  <2>2. q[aim] = p[i]
    BY <1>1, <2>1
  <2>3. Verdict(p, aim) = Targeted(p, aim) /\ Verdict(q, i) = Targeted(q, i)
    BY <1>3, <2>1 DEF Verdict
  <2>4. Changed(q) <=> Changed(p)
    BY ChangedAlike
  <2>5. Targeted(p, aim) =
          IF p[i].epistemic = "denied" THEN [label |-> "retraction", source |-> i]
          ELSE IF p[i].epistemic = "corrected" /\ Changed(p)
               THEN [label |-> "explicit_correction", source |-> i] ELSE Ambiguous
    BY DEF Targeted
  <2>6. Targeted(q, i) =
          IF p[i].epistemic = "denied" THEN [label |-> "retraction", source |-> aim]
          ELSE IF p[i].epistemic = "corrected" /\ Changed(p)
               THEN [label |-> "explicit_correction", source |-> aim] ELSE Ambiguous
    BY <2>1, <2>2, <2>4 DEF Targeted
  <2> HIDE DEF i, q
  <2>7. /\ Targeted(q, i).label = Targeted(p, aim).label
        /\ Targeted(q, i).source = Opposite(Targeted(p, aim).source)
    BY <1>2, <2>1, <2>5, <2>6 DEF Ambiguous
  <2> QED BY <2>1, <2>3, <2>7 DEF q
<1>4. CASE aim = 0
  <2> DEFINE unclear(x) == \E i \in Sides : x[i].epistemic \in {"denied", "corrected"} \/ x[i].marked
  <2>1. unclear(q) <=> unclear(p)
    <3>1. \A i \in Sides : p[i] = q[Other(i)] /\ Other(i) \in Sides
      BY <1>1, OtherSide
    <3> QED BY <1>1, <3>1
  <2>2. q[1].predicate = q[2].predicate <=> p[1].predicate = p[2].predicate
    BY Swapped
  <2>3. \A x : Verdict(x, 0) = IF unclear(x) THEN Ambiguous
                               ELSE IF x[1].predicate = x[2].predicate THEN SamePredicate(x)
                               ELSE Undirected("unrelated")
    BY DEF Verdict
  <2>4. p[1].predicate = p[2].predicate =>
          /\ SamePredicate(q).label = SamePredicate(p).label
          /\ SamePredicate(q).source = Opposite(SamePredicate(p).source)
    BY SamePredicateAlike
  <2> HIDE DEF q, unclear
  <2>5. Verdict(q, 0).label = Verdict(p, 0).label /\ Verdict(q, 0).source = Opposite(Verdict(p, 0).source)
    BY <1>2, <2>1, <2>2, <2>3, <2>4 DEF Ambiguous, Undirected
  <2> QED BY <1>2, <1>4, <2>5 DEF q
<1> QED BY <1>3, <1>4

LEMMA MirrorOfBoth == ASSUME NEW f, DOMAIN f = Sides
                      PROVE  Mirror(f) = [i \in Sides |-> f[Other(i)]]
<1>1. {Other(j) : j \in Sides} = Sides
  BY OtherSide
<1> QED BY <1>1 DEF Mirror

\* An order of two periods: the later one is the same claim on either side.
LEMMA LaterAlike == ASSUME NEW p \in Pairs, Orderable(p)
                    PROVE  Later(Swap(p)) = Other(Later(p)) /\ Later(p) \in Sides
<1>1. DOMAIN p = Sides
  BY ConflictsAssumption
<1>2. Swap(p)[1] = p[2] /\ Swap(p)[2] = p[1]
  BY <1>1, Swapped
<1>3. \A i \in Sides : Finite(p[i]) /\ p[i].from \in Int /\ p[i].to \in Int /\ p[i].from <= p[i].to
  <2> TAKE i \in Sides
  <2>1. Finite(p[i])
    BY DEF Orderable, Comparable, Sides
  <2>2. {p[i].from, p[i].to} \subseteq Int \cup {Unbounded}
    BY ConflictsAssumption
  <2>3. Unbounded \notin {p[i].from, p[i].to} => p[i].from <= p[i].to
    BY ConflictsAssumption
  <2> QED BY <2>1, <2>2, <2>3 DEF Finite
<1>4. 1 \in Sides /\ 2 \in Sides
  BY DEF Sides
<1>5. ~(p[1].from <= p[2].to /\ p[2].from <= p[1].to)
  BY DEF Orderable, Overlap
<1>6. p[1].from # p[2].from
  BY <1>3, <1>4, <1>5
<1>7. p[1].from < p[2].from <=> ~(p[2].from < p[1].from)
  BY <1>3, <1>4, <1>6
<1> QED BY <1>2, <1>4, <1>7, OtherSide DEF Later

LEMMA DecisiveAlike ==
  ASSUME NEW p, DOMAIN p = Sides, NEW t
  PROVE  \A i \in Sides : i \in Decisive(Swap(p), t) <=> Other(i) \in Decisive(p, t)
<1> DEFINE matches(x) == {i \in Sides : x[i].official /\ Contains(x[i], t)}
<1>1. \A x : Decisive(x, t) = IF Cardinality(matches(x)) = 1 THEN matches(x) ELSE {}
  BY DEF Decisive
<1>2. matches(p) \in SUBSET Sides /\ matches(Swap(p)) \in SUBSET Sides
  OBVIOUS
<1>3. \A i \in Sides : i \in matches(Swap(p)) <=> Other(i) \in matches(p)
  BY Swapped, OtherSide
<1> HIDE DEF matches
<1>4. Cardinality(matches(Swap(p))) = 1 <=> Cardinality(matches(p)) = 1
  <2>1. /\ Cardinality(matches(p)) = 1 <=> matches(p) \in {{1}, {2}}
        /\ Cardinality(matches(Swap(p))) = 1 <=> matches(Swap(p)) \in {{1}, {2}}
    BY <1>2, Alone
  <2>2. /\ 1 \in matches(Swap(p)) <=> 2 \in matches(p)
        /\ 2 \in matches(Swap(p)) <=> 1 \in matches(p)
    BY <1>3, OtherSide DEF Sides
  <2>3. matches(p) \subseteq {1, 2} /\ matches(Swap(p)) \subseteq {1, 2}
    BY <1>2 DEF Sides
  <2> QED BY <2>1, <2>2, <2>3
<1> QED BY <1>1, <1>3, <1>4

\* The plan for the swapped pair is the plan for the pair, swapped.
LEMMA PlanAlike ==
  ASSUME NEW p \in Pairs, NEW st \in [Sides -> Statuses], NEW t,
         NEW v, AVerdict(v), v.label = "temporal_change" => Orderable(p),
         NEW w, w.label = v.label, w.source = Opposite(v.source)
  PROVE  Mirror(Plan(p, st, v, t)) = Plan(Swap(p), Swap(st), w, t)
<1> DEFINE q == Swap(p)
           su == Swap(st)
           Fit(i) == Appropriate(p[i], st[i], t)
           Aims(i, x, y) == [j \in Sides |-> IF j = i THEN x ELSE y]
           out(x) == {i \in Sides : Barred(x[i])}
           Same == Mirror(Policy(p, st, v, t)) = Policy(q, su, w, t)
<1>1. DOMAIN p = Sides /\ DOMAIN st = Sides
  BY ConflictsAssumption
<1>2. \A i \in Sides : q[i] = p[Other(i)] /\ su[i] = st[Other(i)]
  BY <1>1, Swapped
<1>3. out(q) = {Other(i) : i \in out(p)}
  BY <1>2, OtherSide
<1>4. CASE out(p) # {}
  <2>1. Plan(p, st, v, t) = [j \in out(p) |-> "excluded"]
    BY <1>4 DEF Plan
  <2>2. out(q) # {}
    BY <1>3, <1>4
  <2>3. Plan(q, su, w, t) = [j \in out(q) |-> "excluded"]
    BY <2>2 DEF Plan
  <2>4. \A i \in out(q) : Other(i) \in out(p)
    BY <1>2, OtherSide
  <2> HIDE DEF out
  <2>5. Mirror([j \in out(p) |-> "excluded"]) = [j \in out(q) |-> "excluded"]
    BY <1>3, <2>4 DEF Mirror
  <2> QED BY <2>1, <2>3, <2>5
<1>5. SUFFICES ASSUME out(p) = {} PROVE Same
  <2>1. out(p) = {} => out(q) = {}
    BY <1>3
  <2> QED BY <1>4, <2>1 DEF Plan
<1>6. \A i \in Sides : \A x, y : Mirror(Aims(i, x, y)) = Aims(Other(i), x, y)
  <2> TAKE i \in Sides
  <2> TAKE x, y
  <2>1. Mirror(Aims(i, x, y)) = [j \in Sides |-> Aims(i, x, y)[Other(j)]]
    BY MirrorOfBoth
  <2>2. \A j \in Sides : Aims(i, x, y)[Other(j)] = IF j = Other(i) THEN x ELSE y
    BY OtherSide
  <2> QED BY <2>1, <2>2
<1>7. \A i \in Sides : Appropriate(q[Other(i)], su[Other(i)], t) = Fit(i)
  BY <1>2, OtherSide
<1>8. v.label \in Labels /\ (v.label \in Directed => v.source \in Sides /\ w.source = Other(v.source))
  BY DEF AVerdict, Opposite, Sides
<1> HIDE DEF Fit, Aims, q, su
<1>9. CASE v.label = "unrelated"
  <2>1. Policy(p, st, v, t) = [j \in {} |-> "excluded"] /\ Policy(q, su, w, t) = [j \in {} |-> "excluded"]
    BY <1>9 DEF Policy
  <2> QED BY <2>1 DEF Mirror
<1>10. CASE v.label = "temporal_change"
  <2> DEFINE i == Later(p)
  <2>1. i \in Sides /\ Later(q) = Other(i)
    BY <1>10, LaterAlike DEF q
  <2>2. /\ Policy(p, st, v, t) = Aims(i, Fit(i), "historical")
        /\ Policy(q, su, w, t) =
             Aims(Later(q), Appropriate(q[Later(q)], su[Later(q)], t), "historical")
    BY <1>10 DEF Policy, Fit, Aims
  <2> HIDE DEF i
  <2> QED BY <1>6, <1>7, <2>1, <2>2
<1>11. CASE v.label \in {"explicit_correction", "refinement"}
  <2>1. /\ Policy(p, st, v, t) = Aims(v.source, Fit(v.source), "superseded")
        /\ Policy(q, su, w, t) =
             Aims(w.source, Appropriate(q[w.source], su[w.source], t), "superseded")
    BY <1>11 DEF Policy, Fit, Aims
  <2>2. v.source \in Sides /\ w.source = Other(v.source)
    BY <1>8, <1>11 DEF Directed
  <2> QED BY <1>6, <1>7, <2>1, <2>2
<1>12. CASE v.label = "retraction"
  <2>1. /\ Policy(p, st, v, t) = Aims(v.source, "confirmed", "superseded")
        /\ Policy(q, su, w, t) = Aims(w.source, "confirmed", "superseded")
    BY <1>12 DEF Policy, Aims
  <2>2. v.source \in Sides /\ w.source = Other(v.source)
    BY <1>8, <1>12 DEF Directed
  <2> QED BY <1>6, <2>1, <2>2
<1>13. CASE v.label \in {"hard_contradiction", "source_disagreement"}
  <2> DEFINE f == [j \in Sides |-> IF j \in Decisive(p, t) THEN Fit(j) ELSE "disputed"]
             g == [j \in Sides |-> IF j \in Decisive(q, t) THEN Appropriate(q[j], su[j], t)
                                   ELSE "disputed"]
  <2>1. Policy(p, st, v, t) = f
    BY <1>13 DEF Policy, Fit
  <2>2. Policy(q, su, w, t) = g
    BY <1>13 DEF Policy
  <2>3. \A j \in Sides : j \in Decisive(q, t) <=> Other(j) \in Decisive(p, t)
    BY <1>1, DecisiveAlike DEF q
  <2>4. \A j \in Sides : Appropriate(q[j], su[j], t) = Fit(Other(j)) /\ Other(j) \in Sides
    BY <1>2, OtherSide DEF Fit
  <2>5. \A j \in Sides : f[Other(j)] = g[j]
    BY <2>3, <2>4
  <2>6. Mirror(f) = [j \in Sides |-> f[Other(j)]]
    BY MirrorOfBoth
  <2>7. [j \in Sides |-> f[Other(j)]] = g
    BY <2>5
  <2> QED BY <2>1, <2>2, <2>6, <2>7
<1>14. CASE v.label = "unresolved_ambiguity"
  <2>1. Policy(p, st, v, t) = [j \in Sides |-> "disputed"] /\ Policy(q, su, w, t) = [j \in Sides |-> "disputed"]
    BY <1>14 DEF Policy
  <2>2. Mirror([j \in Sides |-> "disputed"]) = [j \in Sides |-> "disputed"]
    BY MirrorOfBoth, OtherSide
  <2> QED BY <2>1, <2>2
<1> QED BY <1>8, <1>9, <1>10, <1>11, <1>12, <1>13, <1>14 DEF Labels

\* Which claim has the smaller id makes no difference to what is decided and
\* planned about the two.
THEOREM SidesAlwaysAlike == Spec => []SidesAreAlike
<1>1. ASSUME OutsidersStayOut
      PROVE  SidesAreAlike
  <2> SUFFICES ASSUME NEW aim \in {0} \cup Sides
               PROVE  LET other == IF aim = 0 THEN 0 ELSE Other(aim)
                          v == Verdict(claims, aim)
                          w == Verdict(Swap(claims), other)
                      IN /\ w.label = v.label
                         /\ \A t \in ValidAt \cup {NoInstant} :
                              Mirror(Plan(claims, status, v, t)) =
                                Plan(Swap(claims), Swap(status), w, t)
    BY DEF SidesAreAlike
  <2> DEFINE v == Verdict(claims, aim)
             w == Verdict(Swap(claims), Opposite(aim))
  <2>1. claims \in Pairs /\ DOMAIN claims = Sides /\ status \in [Sides -> Statuses]
    BY <1>1, ConflictsAssumption DEF OutsidersStayOut, TypeOK
  <2>2. AVerdict(v) /\ (v.label = "temporal_change" => Orderable(claims))
    BY Judged
  <2>3. w.label = v.label /\ w.source = Opposite(v.source)
    BY <2>1, VerdictAlike
  <2> HIDE DEF v, w
  <2>4. \A t : Mirror(Plan(claims, status, v, t)) = Plan(Swap(claims), Swap(status), w, t)
    BY <2>1, <2>2, <2>3, PlanAlike
  <2> QED BY <2>3, <2>4 DEF v, w, Opposite
<1> QED BY <1>1, Initially, ConflictsStep, PTL DEF Spec
=============================================================================
