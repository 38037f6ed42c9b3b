----------------------------- MODULE MCBeliefs -----------------------------
(* Small instances of Beliefs.  Source s1 arrives after s2 and supports only *)
(* c1, which s2 supports as well: what is decided about c1 at once survives  *)
(* the deletion of s1, what is decided later does not, and the deletion of   *)
(* s2 retires the other claims.                                              *)
EXTENDS Beliefs, TLC

CONSTANTS c1, c2, c3, s1, s2, k, r1, r2, r3

MCIngestedAt == s2 :> 0 @@ s1 :> 1

MCEvidence == {<<c1, s1>>, <<c1, s2>>, <<c2, s2>>, <<c3, s2>>}

Says(x, y, label) == [source |-> x, target |-> y, label |-> label]

\* Each pair of claims is in dispute, and c2 and c3 have one more thing to say.
MCDisputes ==
  {Says(c1, c2, "contradiction"), Says(c1, c3, "contradiction"), Says(c3, c2, "contradiction"),
   Says(c2, c3, "retraction")}
\* What is said of c1 and c2 depends on what a request names and shows.
MCSaidOfTwo ==
  {Says(c1, c2, "contradiction"), Says(c1, c2, "temporal_change"), Says(c2, c1, "correction")}
MCVerdicts == MCDisputes \cup MCSaidOfTwo

MCActionKey == [x \in ResolutionKeys \X ClaimIds |-> x]

MCKeys == CallerKeys \cup (ResolutionKeys \X ClaimIds)
MCReplacementKey == [x \in MCKeys |-> <<x, "replacement">>]
MCAuditKeys == MCKeys \cup {<<x, "replacement">> : x \in MCKeys}
\* Bound: three disputes and three resolutions, or two of each and a caller.
MCStacked ==
  /\ \A d \in decisions : d.verdict \in MCDisputes
  /\ \A a \in transitions : a.key \notin CallerKeys
MCMixed ==
  /\ \A d \in decisions : d.verdict \in MCSaidOfTwo
  /\ Cardinality(decisions) <= 2 /\ Cardinality(resolutions) <= 2

\* Bound: what is classified later is resolved later, which is possible anyway, and
\* what is classified before its cutoff is as what is classified then.
ClassifiedAtCutoff == \A d \in decisions : d.classifiedAt = d.asOf

MCNext ==
  \/ Conclude /\ (MCStacked \/ MCMixed)' /\ ClassifiedAtCutoff'
  \/ MCMixed /\ Call
  \/ \E s \in Sources : DeleteSource(s)
MCSpec == BeliefInit /\ [][MCNext]_beliefVars
KeySymmetry == Permutations(ResolutionKeys)
=============================================================================
