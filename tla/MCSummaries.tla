---------------------------- MODULE MCSummaries ----------------------------
(* Small instances of Summaries.  Chats s2 and s3 are sessions of their own  *)
(* until s1, produced in between, arrives and makes the three one session.   *)
EXTENDS Summaries, TLC

CONSTANTS c1, c2, c3, s1, s2, s3, k, r1

MCIngestedAt == [s \in Sources |-> IF s = s1 THEN 1 ELSE 0]
MCSourceType == [s \in Sources |-> "chat"]
MCThread == [s \in Sources |-> NoThread]
MCProducedAt == [s \in Sources |-> CASE s = s1 -> 5 [] s = s2 -> 1 [] s = s3 -> 9]
MCIdOrder == [s \in Sources |-> CASE s = s1 -> 1 [] s = s2 -> 2 [] s = s3 -> 3]

\* c2 is in another session than c1 as long as s1 is not there; c3 is restricted.
MCEvidence == {<<c1, s1>>, <<c1, s2>>, <<c2, s3>>, <<c3, s1>>}

Says(x, y, label) == [source |-> x, target |-> y, label |-> label]
MCVerdicts == {Says(c1, c2, "contradiction"), Says(c2, c1, "retraction")}
MCDispute == {Says(c1, c2, "contradiction")}

MCActionKey == [x \in ResolutionKeys \X ClaimIds |-> x]
MCKeys == CallerKeys \cup (ResolutionKeys \X ClaimIds)
MCReplacementKey == [x \in MCKeys |-> <<x, "replacement">>]
MCAuditKeys == MCKeys \cup {<<x, "replacement">> : x \in MCKeys}

\* Bound: decisions are classified at their cutoff, which is all that summaries look
\* at; a later classification delays resolutions, an earlier one changes nothing.
MCNext == SummariesNext /\ \A d \in decisions' : d.classifiedAt = d.asOf
MCSpec == SummariesInit /\ [][MCNext]_summaryVars
=============================================================================
