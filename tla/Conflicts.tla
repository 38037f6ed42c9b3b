----------------------------- MODULE Conflicts -----------------------------
(***************************************************************************)
(* How two claims of a user are compared: generate_candidate_pairs links   *)
(* them (src/conflicts/candidates.py), classify_conflict labels the pair   *)
(* (src/conflicts/classifier.py), resolve_belief plans what becomes of     *)
(* them (src/conflicts/resolver.py) and the resolution service carries the *)
(* plan out.  Beliefs has the tables of these steps and takes the labels   *)
(* as given; here the labels and plans follow from what the claims say.    *)
(*                                                                         *)
(* A claim is a record:                                                    *)
(*   subject, predicate, speaker                                           *)
(*   object      what it says: a set of words, or of the parts of a list   *)
(*   negated     its polarity                                              *)
(*   epistemic   "asserted", "uncertain", "hypothetical", "denied" or      *)
(*               "corrected"                                               *)
(*   marked      a quote has a word like "actually" or "withdraw"          *)
(*   restricted  its sensitivity                                           *)
(*   official    a calendar entry or an email supports it                  *)
(*   precision   "unknown", "approximate", "day" or "timestamp"            *)
(*   from, to    its valid time, Unbounded where it has no boundary        *)
(* Claim 1 has the smaller id.  An operator whose comment begins with      *)
(* "Mistake" is a wrong version of the next operator; nothing uses it.     *)
(***************************************************************************)
EXTENDS Integers, FiniteSets

CONSTANTS
  User,         \* the subject whose memory this is
  Family,       \* [Predicates -> families]: the predicate registry
  SingleValued, \* predicates with conflict_compatibility single_value
  Structured,   \* predicates whose objects are lists or objects, not texts
  Pairs,        \* the pairs of claims that are compared
  Unbounded,
  MaxGap,       \* maximum_temporal_gap_days
  ValidAt,      \* the instants that requests ask for: [form, at]
  NoInstant,    \* NULL in valid_at
  MaxDecisions, \* bound: decisions stored at a time
  MaxMoves      \* bound: transitions of one claim

Sides == {1, 2}
Other(i) == 3 - i
Terminal == {"superseded", "excluded"}
Statuses == {"candidate", "confirmed", "current", "historical", "disputed"} \cup Terminal

ASSUME ConflictsAssumption ==
  /\ SingleValued \subseteq DOMAIN Family /\ Structured \subseteq DOMAIN Family
  /\ \A p \in Pairs : p = [i \in Sides |-> p[i]]
  /\ \A p \in Pairs, i \in Sides :
       /\ p[i].predicate \in DOMAIN Family
       /\ p[i].precision \in {"unknown", "approximate", "day", "timestamp"}
       /\ p[i].precision = "unknown" <=> p[i].from = Unbounded /\ p[i].to = Unbounded
       /\ {p[i].from, p[i].to} \subseteq Int \cup {Unbounded}
       /\ Unbounded \notin {p[i].from, p[i].to} => p[i].from <= p[i].to
  /\ \A t \in ValidAt : t.form \in {"day", "timestamp"}
  /\ MaxMoves \in Nat

VARIABLES
  claims,     \* the pair
  status,     \* the lifecycle_status of their open versions
  version,    \* how often each claim has moved: names its open version
  decisions   \* conflict_decisions: [aim, version, status], of the versions classified

vars == <<claims, status, version, decisions>>

-----------------------------------------------------------------------------
\* Valid time.

Form(c) == IF c.precision = "timestamp" THEN "timestamp" ELSE "day"
\* _finite_interval of the linker and the classifier.
Finite(c) == Unbounded \notin {c.from, c.to}
Comparable(c, d) == Finite(c) /\ Finite(d) /\ Form(c) = Form(d)
\* Intervals include both their ends.
Overlap(c, d) == c.from <= d.to /\ d.from <= c.to

Approximate(c) == c.precision = "approximate"
\* Mistake: approximate dates count as exact.
ComparableAtAll(c, d) == Comparable(c, d)
\* _time_relation is "overlap" or "nonoverlap".
Dated(c, d) == Comparable(c, d) /\ ~Approximate(c) /\ ~Approximate(d)

\* valid_contains; a query in the other representation counts as outside.
Contains(c, t) ==
  /\ t # NoInstant
  /\ c.precision \notin {"unknown", "approximate"} /\ t.form = Form(c)
  /\ c.from = Unbounded \/ c.from <= t.at
  /\ c.to = Unbounded \/ t.at <= c.to
\* The claim's period has an end, which is past.
Past(c, t) ==
  t # NoInstant /\ Finite(c) /\ ~Approximate(c) /\ t.form = Form(c) /\ c.to < t.at

-----------------------------------------------------------------------------
\* Linking.

Entities(c) == {c.subject} \cup c.object
Tokens(c) == {c.predicate, Family[c.predicate]} \cup c.object
\* lexical_jaccard >= 0.5
Alike(c, d) == 2 * Cardinality(Tokens(c) \cap Tokens(d)) >= Cardinality(Tokens(c) \cup Tokens(d))
Close(c, d) == Comparable(c, d) /\ c.from - d.to <= MaxGap /\ d.from - c.to <= MaxGap

\* _qualifies
Linked(c, d) ==
  LET sameSubject == c.subject = d.subject
      sameFamily == Family[c.predicate] = Family[d.predicate]
      sharedEntity == Entities(c) \cap Entities(d) # {}
  IN \/ sameSubject /\ sameFamily
     \/ sharedEntity /\ Close(c, d)
     \/ Alike(c, d) /\ (sameSubject \/ sameFamily \/ sharedEntity)

-----------------------------------------------------------------------------
\* Classification.  A verdict is a label and, for a directed relation, the claim
\* that corrects or refines the other one (0 for none).

Ambiguous == [label |-> "unresolved_ambiguity", source |-> 0]
Undirected(label) == [label |-> label, source |-> 0]
Changed(p) == <<p[1].negated, p[1].object>> # <<p[2].negated, p[2].object>>

\* _targeted_actor: the request names the claim that the other one is about.
Targeted(p, aim) ==
  LET actor == Other(aim)
  IN IF p[actor].epistemic = "denied" THEN [label |-> "retraction", source |-> actor]
     ELSE IF p[actor].epistemic = "corrected" /\ Changed(p)
          THEN [label |-> "explicit_correction", source |-> actor]
          ELSE Ambiguous

\* Mistake: only the first claim is asked whether it says more.
FinerOfFirst(p) ==
  {i \in {1} : p[i].predicate \in Structured /\ p[Other(i)].object \subseteq p[i].object /\
               p[Other(i)].object # p[i].object}
\* _refinement: the claim that says all that the other one says, and more.
Finer(p) ==
  {i \in Sides : p[i].predicate \in Structured /\ p[Other(i)].object \subseteq p[i].object /\
                 p[Other(i)].object # p[i].object}

\* The label of two claims of one predicate that nobody has targeted.
SamePredicate(p) ==
  LET rivals == p[1].predicate \in SingleValued /\ Changed(p) /\ Dated(p[1], p[2])
  IN IF rivals /\ ~Overlap(p[1], p[2]) THEN Undirected("temporal_change")
     ELSE IF rivals THEN Undirected(IF p[1].speaker = p[2].speaker THEN "hard_contradiction"
                                    ELSE "source_disagreement")
     ELSE IF Finer(p) # {} THEN [label |-> "refinement", source |-> CHOOSE i \in Finer(p) : TRUE]
     ELSE IF /\ Changed(p)
             /\ \/ ~Dated(p[1], p[2])
                \/ \E i \in Sides : p[i].epistemic \in {"uncertain", "hypothetical", "inferred"}
          THEN Ambiguous
     ELSE Undirected("unrelated")

\* classify_conflict; aim is explicit_target_claim_id, 0 for none.
Verdict(p, aim) ==
  IF aim # 0 THEN Targeted(p, aim)
  ELSE IF \E i \in Sides : p[i].epistemic \in {"denied", "corrected"} \/ p[i].marked THEN Ambiguous
  ELSE IF p[1].predicate = p[2].predicate THEN SamePredicate(p)
  ELSE Undirected("unrelated")

-----------------------------------------------------------------------------
\* Resolution.  st has the statuses of the versions that were classified.

\* _exclusion_reason
Barred(c) == c.restricted \/ c.epistemic = "hypothetical" \/ c.subject # User

\* _time_appropriate_status
Appropriate(c, s, t) ==
  IF s \in Terminal THEN s
  ELSE IF Contains(c, t) THEN "current"
  ELSE IF Past(c, t) THEN "historical"
  ELSE "confirmed"

\* What _temporal_order demands; it raises otherwise.
Orderable(p) ==
  Comparable(p[1], p[2]) /\ ~Approximate(p[1]) /\ ~Approximate(p[2]) /\ ~Overlap(p[1], p[2])
Later(p) == IF p[1].from < p[2].from THEN 2 ELSE 1

\* Mistake: two official records decide for both.
DecisiveEach(p, t) == {i \in Sides : p[i].official /\ Contains(p[i], t)}
\* _decisive_claim: the only claim with an official record of this instant.
Decisive(p, t) ==
  LET matches == {i \in Sides : p[i].official /\ Contains(p[i], t)}
  IN IF Cardinality(matches) = 1 THEN matches ELSE {}

\* What the policy wants each claim to become, by the label.
Policy(p, st, verdict, t) ==
  LET Fit(i) == Appropriate(p[i], st[i], t)
      Directed(i, x, y) == [j \in Sides |-> IF j = i THEN x ELSE y]
  IN CASE verdict.label = "unrelated" -> [j \in {} |-> "excluded"]
       [] verdict.label = "temporal_change" -> Directed(Later(p), Fit(Later(p)), "historical")
       [] verdict.label \in {"explicit_correction", "refinement"} ->
            Directed(verdict.source, Fit(verdict.source), "superseded")
       [] verdict.label = "retraction" -> Directed(verdict.source, "confirmed", "superseded")
       [] verdict.label \in {"hard_contradiction", "source_disagreement"} ->
            [j \in Sides |-> IF j \in Decisive(p, t) THEN Fit(j) ELSE "disputed"]
       [] verdict.label = "unresolved_ambiguity" -> [j \in Sides |-> "disputed"]

\* Mistake: the policy is applied to what is left of the pair.
PlanForTheRest(p, st, verdict, t) ==
  LET policy == Policy(p, st, verdict, t)
      out == {i \in Sides : Barred(p[i])}
  IN [j \in out \cup DOMAIN policy |-> IF j \in out THEN "excluded" ELSE policy[j]]
\* resolve_belief: exclusion comes before the policy.
Plan(p, st, verdict, t) ==
  LET out == {i \in Sides : Barred(p[i])}
  IN IF out # {} THEN [j \in out |-> "excluded"] ELSE Policy(p, st, verdict, t)

\* Mistake: a claim that has the status already is moved again.
MovesAgain(p, st, verdict, t) ==
  LET plan == Plan(p, st, verdict, t)
  IN [i \in {j \in DOMAIN plan : st[j] \notin Terminal} |-> plan[i]]
\* _append_action: terminal claims, and claims that are there already, stay.
Moves(p, st, verdict, t) ==
  LET plan == Plan(p, st, verdict, t)
  IN [i \in {j \in DOMAIN plan : st[j] \notin Terminal /\ st[j] # plan[j]} |-> plan[i]]

\* TRANSITION_MATRIX
Successors ==
  [candidate |-> {"confirmed", "current", "historical", "disputed", "excluded"},
   confirmed |-> {"disputed", "superseded", "excluded"},
   current |-> {"historical", "disputed", "superseded", "excluded"},
   historical |-> {"disputed", "superseded", "excluded"},
   disputed |-> {"confirmed", "current", "historical", "superseded", "excluded"},
   superseded |-> {},
   excluded |-> {}]
\* _require_transition
MayBecome(c, s, target) ==
  /\ target \in Successors[s]
  /\ target = "current" => c.precision # "unknown"
  /\ target = "historical" => c.to # Unbounded

-----------------------------------------------------------------------------
Init ==
  /\ claims \in Pairs
  /\ status = [i \in Sides |-> "candidate"]
  /\ version = [i \in Sides |-> 0]
  /\ decisions = {}

\* generate, classify and persist, of the versions that are open.
Classify(aim) ==
  /\ Cardinality(decisions) < MaxDecisions
  /\ Linked(claims[1], claims[2])
  /\ \A i \in Sides : status[i] # "excluded"
  /\ decisions' = decisions \cup {[aim |-> aim, version |-> version, status |-> status]}
  /\ UNCHANGED <<claims, status, version>>

MovesOf(d, t) == Moves(claims, d.status, Verdict(claims, d.aim), t)

\* resolve: a version that is to move must still be the open one.
Resolve(d, t) ==
  LET moves == MovesOf(d, t)
  IN /\ Verdict(claims, d.aim).label = "temporal_change" => Orderable(claims)
     /\ \A i \in DOMAIN moves :
          /\ version[i] = d.version[i] /\ version[i] < MaxMoves
          /\ MayBecome(claims[i], status[i], moves[i])
     /\ status' = [i \in Sides |-> IF i \in DOMAIN moves THEN moves[i] ELSE status[i]]
     /\ version' = [i \in Sides |-> IF i \in DOMAIN moves THEN version[i] + 1 ELSE version[i]]
     /\ UNCHANGED <<claims, decisions>>

Next ==
  \/ \E aim \in {0} \cup Sides : Classify(aim)
  \/ \E d \in decisions, t \in ValidAt \cup {NoInstant} : Resolve(d, t)

Spec == Init /\ [][Next]_vars

-----------------------------------------------------------------------------
TypeOK ==
  /\ claims \in Pairs
  /\ status \in [Sides -> Statuses]
  /\ version \in [Sides -> 0 .. MaxMoves]
  /\ \A d \in decisions :
       d.aim \in {0} \cup Sides /\ d.version \in [Sides -> 0 .. MaxMoves] /\ d.status \in [Sides -> Statuses]

\* Every verdict that the classifier can give has a plan: the resolver never finds
\* periods that it cannot order behind a temporal change, nor a directed verdict
\* without its direction.  (Linker, classifier and resolver each read the valid
\* time in their own way.)
VerdictsHavePlans ==
  \A aim \in {0} \cup Sides :
    LET v == Verdict(claims, aim)
    IN /\ v.label = "temporal_change" => Orderable(claims)
       /\ (v.label \in {"explicit_correction", "refinement", "retraction"}) = (v.source # 0)

Swap(f) == [i \in DOMAIN f |-> f[Other(i)]]
Mirror(f) == [i \in {Other(j) : j \in DOMAIN f} |-> f[Other(i)]]
\* Which of two claims has the smaller id, a hash, makes no difference to what is
\* decided and planned about them.
SidesAreAlike ==
  \A aim \in {0} \cup Sides :
    LET other == IF aim = 0 THEN 0 ELSE Other(aim)
        v == Verdict(claims, aim)
        w == Verdict(Swap(claims), other)
    IN /\ w.label = v.label
       /\ \A t \in ValidAt \cup {NoInstant} :
            Mirror(Plan(claims, status, v, t)) = Plan(Swap(claims), Swap(status), w, t)

\* Whatever calls are made in whatever order, with decisions that others have
\* overtaken: a claim that is restricted, hypothetical or about someone else never
\* becomes more than a candidate, nor does it move the other claim.
OutsidersStayOut ==
  /\ TypeOK
  /\ \A i \in Sides : Barred(claims[i]) =>
       /\ status[i] \in {"candidate", "excluded"}
       /\ Barred(claims[Other(i)]) \/ status[Other(i)] = "candidate"

\* A resolution whose decision nobody has overtaken settles its question: to
\* classify the pair again and to resolve it for the same instant plans nothing
\* more, and at most one of the claims is current, unless both were and the pair
\* is unrelated.  (An overtaken decision may leave both current: the service looks
\* only at the versions of the claims that it moves.)
PlansSettle ==
  [][\A d \in decisions, t \in ValidAt \cup {NoInstant} :
       Resolve(d, t) /\ d.version = version =>
         /\ DOMAIN Moves(claims, status', Verdict(claims, d.aim), t) = {}
         /\ \/ \E i \in Sides : status'[i] # "current"
            \/ Verdict(claims, d.aim).label = "unrelated" /\ status' = status]_vars
=============================================================================
