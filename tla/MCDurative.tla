----------------------------- MODULE MCDurative -----------------------------
(* Small instances of Durative.  Two callers' transitions have confirmed a    *)
(* and c, each with an interval, before b says again what a says: b is a      *)
(* candidate, counts against a until it is confirmed, and has no interval.    *)
(* The source of b contradicts c.                                             *)
EXTENDS Durative, TLC

CONSTANTS a, b, c, s1, s2, s3, ka, kc, k, p, q

MCIngestedAt == s1 :> 0 @@ s2 :> 0 @@ s3 :> 1
MCEvidence == {<<a, s1>>, <<c, s2>>, <<b, s3>>, <<c, s3>>}
MCAgainst == {<<c, s3>>}
MCSourceType == [s \in Sources |-> "email"]
MCThread == [s \in Sources |-> NoThread]
MCProducedAt == s1 :> 1 @@ s2 :> 2 @@ s3 :> 3
MCIdOrder == MCProducedAt

MCSince == a :> 0 @@ b :> 1 @@ c :> 0
MCKeyOf == a :> ka @@ b :> k @@ c :> kc

MCAbout == a :> p @@ b :> p @@ c :> q
MCPredicate == [x \in Propositions |-> "role"]
MCValidity == a :> [start |-> 1, end |-> 2] @@ b :> [start |-> 2, end |-> NoDate]
              @@ c :> [start |-> 3, end |-> 4]
MCRootId == [x \in Propositions |-> <<x>>]
\* The times that the claims of a proposition can have.
MCTimed ==
  UNION {{<<x, Span(cs, single)>> :
            cs \in (SUBSET {d \in DOMAIN MCAbout : MCAbout[d] = x}) \ {{}}, single \in BOOLEAN} :
           x \in Propositions}
MCReplacementId == [x \in MCTimed |-> x]
MCClaimIds == {a, b, c} \cup {<<x>> : x \in Propositions} \cup MCTimed

\* Callers move two of the claims that are extracted and the first that is derived of p.
MCMovable == {b, c, <<p>>}

MCSays == {[source |-> b, target |-> c, label |-> x] : x \in {"ambiguity", "refinement"}}
MCActionKey == [x \in ResolutionKeys \X ClaimIds |-> x]
MCKeys == CallerKeys \cup {ka, kc}
MCReplacementKey == [x \in MCKeys |-> <<x, "replacement">>]
MCAuditKeys == MCKeys \cup {<<x, "replacement">> : x \in MCKeys} \cup (ResolutionKeys \X ClaimIds)

MCDecisionOf(v, at) == [verdict |-> v, asOf |-> 1, classifiedAt |-> at, cites |-> {<<b, s3>>, <<c, s2>>, <<c, s3>>},
                    basis |-> b :> Initial @@ c :> kc]

\* The callers have confirmed claims cs and nothing else has happened; each has used
\* the key of the claim at the instant of the claim.
MCConfirmed(cs) ==
  /\ versions =
       UNION {{[claim |-> x, key |-> Initial, status |-> "candidate", from |-> MCSince[x], to |-> MCSince[x] + 1],
               [claim |-> x, key |-> MCKeyOf[x], status |-> "confirmed", from |-> MCSince[x] + 1, to |-> Open]} : x \in cs}
       \cup {[claim |-> x, key |-> Initial, status |-> "candidate", from |-> MCSince[x], to |-> Open] : x \in {a, b, c} \ cs}
  /\ transitions = {[key |-> MCKeyOf[x], claim |-> x, before |-> Initial, target |-> "confirmed",
                     at |-> MCSince[x] + 1, replacement |-> NoClaim] : x \in cs}
  /\ announced = {[key |-> MCKeyOf[x], claim |-> x, replacement |-> NoClaim] : x \in cs}
  /\ evidence = Evidence /\ forgotten = {}
  /\ resolutions = {} /\ requeued = {}
  /\ NothingDeleted
  /\ derived = {} /\ runs = {} /\ inferred = {}

\* Either the callers have made all their requests, or a conflict is decided.
MCStart ==
  \/ MCConfirmed({a, b, c}) /\ decisions = {}
  \/ MCConfirmed({a, c}) /\ \E v \in MCSays, at \in {1, 2} : decisions = {MCDecisionOf(v, at)}

\* Bound: what else is decided is an ambiguity, classified at its cutoff.  A decision
\* that is classified before its cutoff is as one that is classified then, since an
\* episode and a resolution come after both.
MCNext ==
  /\ DurativeNext
  /\ \A d \in decisions' \ decisions :
       d.verdict.label = "ambiguity" /\ d.asOf = 2 /\ d.classifiedAt = d.asOf
MCSpec == MCStart /\ [][MCNext]_durativeVars
=============================================================================
