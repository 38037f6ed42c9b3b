---------------------------- MODULE MCRetrieval ----------------------------
(* A small instance of Retrieval: two claims of two chats, one of them       *)
(* supported by both, which a correction or a dispute may join, and one that *)
(* is restricted.  The source s1 arrives when the claims are there.          *)
EXTENDS Answering, TLC

CONSTANTS c1, c2, c3, s1, s2, k, r1, k1, k2

MCIngestedAt == [s \in Sources |-> IF s = s1 THEN 1 ELSE 0]
MCSourceType == [s \in Sources |-> "chat"]
MCThread == [s \in Sources |-> NoThread]
MCProducedAt == [s \in Sources |-> IF s = s1 THEN 1 ELSE 2]
MCIdOrder == MCProducedAt

MCEvidence == {<<c1, s1>>, <<c1, s2>>, <<c2, s2>>, <<c3, s2>>}

Claims(x, y, label) == [source |-> x, target |-> y, label |-> label]
MCVerdicts == {Claims(c1, c2, "contradiction"), Claims(c1, c2, "correction"),
               Claims(c1, c2, "ambiguity")}

MCActionKey == [x \in ResolutionKeys \X ClaimIds |-> x]
MCKeys == CallerKeys \cup (ResolutionKeys \X ClaimIds)
MCReplacementKey == [x \in MCKeys |-> <<x, "replacement">>]
MCAuditKeys == MCKeys \cup {<<x, "replacement">> : x \in MCKeys}
MCRunOrder == [x \in RunKeys |-> IF x = k1 THEN 1 ELSE 2]
\* Keys are used in order, one build fails at most, and a build that could not be
\* stored is not begun.
Builds ==
  /\ \A r \in runs : r.key = k2 \/ ~r.succeeded => \E q \in runs : q.key = k1
  /\ \A r \in runs : ~r.succeeded => r.key = k1 /\ r.at = 0
  /\ loaded # {} => \E x \in RunKeys : Unstarted(x)

Decided(labels, at) == \A d \in decisions : d.verdict.label \in labels /\ d.asOf <= at
By(t) ==
  /\ \A x \in resolutions \cup loaded \cup runs : x.at <= t
  /\ \A s \in forgotten : deletedAt[s] <= t
Late ==
  /\ summaries = {}
  /\ \A s \in forgotten : deletedAt[s] = 2
  /\ \A x \in loaded \cup runs : x.at # 0
\* Only disputes that no summary tells are classified before or after the cutoff of
\* their decision.
ClassifiedAtCutoff == \A d \in decisions : d.classifiedAt = d.asOf
\* Claims are in dispute, decided, told and deleted by 1: two builds of one summary,
\* or one of two.
Disputing ==
  /\ Decided({"contradiction"}, 1) /\ By(1)
  /\ ClassifiedAtCutoff \/ (summaries = {} /\ \A d \in decisions : d.classifiedAt <= 1)
  /\ Cardinality(summaries) + Cardinality(runs) + Cardinality(loaded) <= 3
\* Or a caller confirms c2 at 1, which c1 corrects at 2.
Correcting == Decided({"correction"}, 1) /\ Late /\ ClassifiedAtCutoff
\* Or both are unclear by 1, and a caller settles c2 at 2.
Settling ==
  /\ Decided({"ambiguity"}, 0) /\ Late /\ ClassifiedAtCutoff
  /\ \A r \in resolutions : r.at = 1

MCBounded ==
  /\ Builds
  /\ \A a \in transitions : a.key = k => a.claim = c2
  /\ \/ (\A a \in transitions : a.key # k) /\ (Disputing \/ Settling)
     \/ (\E a \in transitions : a.key = k /\ a.at = 1 /\ a.target = "confirmed") /\ Correcting
     \/ (\E a \in transitions : a.key = k /\ a.at = 2) /\ resolutions # {} /\ Settling

\* Only steps within the bounds.
MCSpec == RetrievalInit /\ [][RetrievalNext /\ MCBounded']_retrievalVars

\* Anything about all claims, with the evidence of anyone.
Asking(kind, reports) ==
  [kind |-> kind, proposition |-> ClaimIds, subject |-> ClaimIds, speaker |-> ClaimIds,
   time |-> ClaimIds, authority |-> "exact_supported", reports |-> reports, partial |-> FALSE]
Of1(p, c) == [p EXCEPT !.proposition = {c}]
MCQuestions ==
  {[parts |-> ps, unclear |-> FALSE] :
     ps \in {{Asking("fact", TRUE)},
             {Asking("fact", TRUE), Of1(Asking("current_state", FALSE), c1)},
             {[Asking("fact", FALSE) EXCEPT !.authority = "firsthand_participant", !.partial = TRUE],
              Of1(Asking("current_state", TRUE), c2)}}}
MCVoiced == MCEvidence
=============================================================================
