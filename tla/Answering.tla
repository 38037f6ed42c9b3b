----------------------------- MODULE Answering -----------------------------
(***************************************************************************)
(* What is answered from the index of Retrieval: the lineage of retrieved  *)
(* records that is read again (EvidencePackageRepository,                  *)
(* src/answering/repository.py), the package that is made of it            *)
(* (evidence_package.py) and the decision whether it answers a question    *)
(* (decide_answerability, src/abstention/policy.py, with the checks of     *)
(* src/abstention/contracts.py).  All of it reads: there is no action.     *)
(*                                                                         *)
(* A question has parts.  Each asks for a proposition, a subject, a        *)
(* speaker and a valid time, and stands for these as the sets of claims    *)
(* that match.                                                             *)
(*                                                                         *)
(* An operator whose comment begins with "Mistake" is a wrong version of   *)
(* the next operator; nothing uses it.                                     *)
(***************************************************************************)
EXTENDS Retrieval

CONSTANTS
  Doubtful,    \* claims that are hypothetical, uncertain or reported by others
  Personal,    \* claims whose speaker is their subject
  Voiced,      \* the evidence that the claim's speaker has spoken: <<claim, source>>
  Lasting,     \* claims of memory kind durative
  Spanned,     \* claims whose valid time has both ends
  Questions    \* [parts, unclear]: requests, and whether the plan needs clarification

Part == [kind: {"fact", "current_state", "stable_trait", "causal", "unknown"},
         proposition: SUBSET ClaimIds, subject: SUBSET ClaimIds,
         speaker: SUBSET ClaimIds, time: SUBSET ClaimIds,
         authority: {"exact_supported", "direct_subject", "firsthand_participant",
                     "official_record", "accepted_durative", "checked_causal"},
         reports: BOOLEAN, partial: BOOLEAN]

ASSUME AnsweringAssumption ==
  /\ Doubtful \cup Personal \cup Lasting \cup Spanned \subseteq ClaimIds
  /\ Voiced \subseteq Evidence
  /\ Questions \subseteq [parts: (SUBSET Part) \ {{}}, unclear: BOOLEAN]

-----------------------------------------------------------------------------
\* The decision that a relation belongs to.
Behind(id) ==
  IF id[1] = "checked" THEN id[2] ELSE id[2].decision

SaysOf(x, v) == \E y \in x.says : Id(y) = Id(v)

\* Mistake: the versions of a record are not compared with the instant.
HydratedClaimAnyway(y, at) ==
  \E v \in versions : Id(v) = Id(y)
\* A claim version of a record is stored, unchanged and visible at the instant.
HydratedClaim(y, at) ==
  /\ \E v \in versions : Id(v) = Id(y) /\ Recorded(v, at)
  /\ y.claim \notin Restricted /\ y.status # "excluded"
  /\ IngestedAt[y.source] <= at

\* A relation of a record joins the versions that its decision read, one of which
\* is the record's; both are visible at the instant.
HydratedRelation(x, id, at) ==
  LET ends == Basis(tables, Behind(id))
  IN /\ {v.claim : v \in ends} = Pair(Behind(id))
     /\ \E v \in ends : SaysOf(x, v)
     /\ \A v \in ends : Recorded(v, at)

\* _hydrate_bound: whether the lineage of records xs of a run is complete; it raises
\* when it is not.  A record that is purged has no rows.
Hydrates(xs, r, at) ==
  /\ xs \subseteq Of(r.key)
  /\ \A x \in xs :
       /\ Anchored(x)
       /\ \A y \in x.says : HydratedClaim(y, at)
       /\ \A id \in x.relations :
            /\ \E q \in Relations : q.id = id /\ q.at <= at
            /\ HydratedRelation(x, id, at)

-----------------------------------------------------------------------------
\* The claim versions of a package: what several records say of one is merged.
Hydrated(xs) ==
  LET said == UNION {x.says : x \in xs}
  IN {[claim |-> y.claim, key |-> y.key, status |-> y.status, from |-> y.from,
       support |-> {z.source : z \in {w \in said : Id(w) = Id(y)}},
       relations |-> UNION {x.relations : x \in {w \in xs : w.of = <<"atomic", Id(y)>>}}] :
        y \in said}

\* Mistake: what was replaced counts as current.
CategoryByName(e) ==
  CASE e.status \in {"current", "confirmed", "superseded"} -> "current"
    [] e.status = "historical" -> "historical"
    [] e.status = "disputed" -> "conflicting"
\* CATEGORY_BY_STATUS.
Category(e) ==
  CASE e.status \in {"current", "confirmed"} -> "current"
    [] e.status \in {"historical", "superseded"} -> "historical"
    [] e.status = "disputed" -> "conflicting"

\* Candidates are rejected, the others are in a category.
Promoted(P) == {e \in P : e.status # "candidate"}

\* blocker_tuple: a hydrated claim has evidence, so none is incomplete.
Blockers(P, unclear) ==
  {b \in {"no_retrieved_claims", "no_promoted_claims", "clarification_required"} :
     \/ b = "no_retrieved_claims" /\ P = {}
     \/ b = "no_promoted_claims" /\ Promoted(P) = {}
     \/ b = "clarification_required" /\ unclear}

\* _validate_package_ownership: both claims of a relation are in the package.
Owned(P) ==
  \A e \in Promoted(P) : \A id \in e.relations : Pair(Behind(id)) \subseteq {f.claim : f \in P}

-----------------------------------------------------------------------------
\* _durative_support.
Durable(e) ==
  /\ e.claim \in Lasting
  /\ \/ e.claim \in Spanned
     \/ /\ Cardinality(e.support) >= 2
        /\ Cardinality({SessionId[s] : s \in e.support} \ {NoThread}) >= 2
        /\ Cardinality({ProducedAt[s] : s \in e.support}) >= 2

\* _authority_matches.  No relation is stored as causal.
Spoken(e, types) == \E s \in e.support : <<e.claim, s>> \in Voiced /\ SourceType[s] \in types
Authoritative(authority, e) ==
  /\ e.claim \notin Doubtful
  /\ CASE authority = "exact_supported" -> TRUE
       [] authority = "direct_subject" -> e.claim \in Personal /\ Spoken(e, SourceTypes)
       [] authority = "firsthand_participant" -> Spoken(e, {"conversation", "chat"})
       [] authority = "official_record" -> Spoken(e, {"email", "calendar"})
       [] authority = "accepted_durative" -> Durable(e)
       [] authority = "checked_causal" -> FALSE

\* What is left of the promoted claims after each test that a part makes, in order.
Sieve(p, P, at) ==
  LET asked == {e \in Promoted(P) : e.claim \in p.proposition}
      named == {e \in asked : e.claim \in p.subject}
      seen == {e \in named : \E v \in versions : Id(v) = Id(e) /\ Recorded(v, at)}
      timely == {e \in seen : e.claim \in p.time}
      fresh == {e \in timely : p.kind = "current_state" => Category(e) # "historical"}
      heard == {e \in fresh : e.claim \in p.speaker}
      sound == {e \in heard : Authoritative(p.authority, e)}
      disputed == {e \in sound : Category(e) = "conflicting"}
  IN [asked |-> asked, named |-> named, seen |-> seen, timely |-> timely, fresh |-> fresh,
      heard |-> heard, sound |-> sound, disputed |-> disputed,
      meant |-> {e \in sound : CASE p.kind = "stable_trait" -> Durable(e)
                                 [] p.kind = "causal" -> FALSE
                                 [] OTHER -> TRUE}]

\* A dispute is an answer where it is asked for and more than one side is there.
Reported(p, f) == p.reports /\ Cardinality(f.disputed) >= 2

\* The tests of speaker and authority leave something if they are given something.
Passed(f) ==
  f.named # {} /\ (f.fresh # {} => f.heard # {}) /\ (f.heard # {} => f.sound # {})

\* Why a part cannot be answered, or not fully.
Reasons(p, P, at) ==
  LET f == Sieve(p, P, at)
      holds(x) ==
        CASE x = "requested_information_absent" -> f.asked = {}
          [] x = "wrong_person_risk" -> f.asked # {} /\ f.named = {}
          [] x = "stale_evidence" -> f.seen # f.named \/ f.fresh # f.timely
          [] x = "requested_time_not_covered" -> f.timely # f.seen
          [] x = "insufficient_speaker_authority" -> f.fresh # {} /\ f.heard = {}
          [] x = "insufficient_source_authority" -> f.heard # {} /\ f.sound = {}
          [] x = "unresolved_conflict" -> f.disputed # {} /\ ~Reported(p, f)
          [] x = "stable_trait_support_insufficient" ->
               p.kind = "stable_trait" /\ Passed(f) /\ f.disputed = {} /\ f.meant = {}
          [] x = "causal_support_insufficient" ->
               p.kind = "causal" /\ Passed(f) /\ f.disputed = {} /\ f.meant = {}
  IN IF p.kind = "unknown" THEN {"clarification_required"}
     ELSE {x \in {"requested_information_absent", "wrong_person_risk", "stale_evidence",
                  "requested_time_not_covered", "insufficient_speaker_authority",
                  "insufficient_source_authority", "unresolved_conflict",
                  "stable_trait_support_insufficient", "causal_support_insufficient"} : holds(x)}

\* The claims that answer a part.
Accepted(p, P, at) ==
  LET f == Sieve(p, P, at)
  IN IF p.kind = "unknown" THEN {}
     ELSE IF f.disputed = {} THEN f.meant
     ELSE IF Reported(p, f) THEN f.disputed ELSE {}

\* The claims that a part gives a reason to reject.
Rejected(p, P, at) ==
  LET f == Sieve(p, P, at)
  IN IF p.kind = "unknown" THEN {}
     ELSE (IF f.named = {} THEN f.asked ELSE {}) \cup (f.named \ f.seen)
          \cup (f.seen \ f.timely) \cup (f.timely \ f.fresh)
          \cup (IF f.heard = {} THEN f.fresh ELSE {})
          \cup (IF f.sound = {} THEN f.heard ELSE {})
          \cup (IF f.disputed # {} THEN (IF Reported(p, f) THEN {} ELSE f.disputed)
                ELSE IF f.meant = {} THEN f.sound ELSE {})

-----------------------------------------------------------------------------
\* The decision of the policy on a package, before its own checks.
Policy(P, q, at) ==
  LET accepted == UNION {Accepted(p, P, at) : p \in q.parts}
      supported == {p \in q.parts : Accepted(p, P, at) # {}}
      reasons == UNION {Reasons(p, P, at) : p \in q.parts}
      blocked(xs) ==
        [decision |-> IF "clarification_required" \in xs
                         /\ xs \cap {"no_retrieved_claims", "no_promoted_claims"} = {}
                      THEN "clarify" ELSE "abstain",
         status |-> "none", reasons |-> xs, accepted |-> {}, rejected |-> {},
         unsupported |-> q.parts]
      answer(status) ==
        [decision |-> "answerable", status |-> status, reasons |-> reasons,
         accepted |-> accepted, rejected |-> UNION {Rejected(p, P, at) : p \in q.parts},
         unsupported |-> q.parts \ supported]
  IN IF Blockers(P, q.unclear) # {} THEN blocked(Blockers(P, q.unclear))
     ELSE IF reasons = {}
     THEN answer(IF \A e \in accepted : Category(e) = "conflicting" THEN "disputed" ELSE "answered")
     ELSE IF supported # {} /\ \E p \in q.parts : p.partial
     THEN answer("partially_answered")
     ELSE [blocked(reasons) EXCEPT !.accepted = accepted,
                                   !.rejected = UNION {Rejected(p, P, at) : p \in q.parts},
                                   !.unsupported = q.parts \ supported]

\* AnswerabilityDecision.__post_init__.
Lawful(d) ==
  /\ d.accepted \cap d.rejected = {}
  /\ d.decision = "answerable" =>
       /\ d.accepted # {}
       /\ CASE d.status = "answered" ->
                 \A e \in d.accepted : Category(e) # "conflicting"
            [] d.status = "disputed" -> Cardinality(d.accepted) >= 2
            [] d.status = "partially_answered" -> d.unsupported # {}

\* What decide_answerability returns: nothing when it raises.
Decisions(P, q, at) == {d \in {Policy(P, q, at)} : Owned(P) /\ Lawful(d)}

-----------------------------------------------------------------------------
\* Whatever an earlier search has found, records included that a deletion has taken
\* since: what is packaged says what the temporal service answers as of the
\* instant of the question.  What answers a question about the current state is
\* neither over nor replaced, and a dispute is told only as one of several sides.
AnswersAreTrue ==
  \A r \in runs, at \in Times :
    LET answers == Answers(at)
        is(e, statuses) == \E s \in statuses : \E a \in answers : a[1] = e.claim /\ a[2] = s
    IN \A xs \in SUBSET {x \in r.records : Hydrates({x}, r, at)} :
         /\ Stated(xs) \subseteq answers
         /\ \A q \in Questions : \A d \in Decisions(Hydrated(xs), q, at) :
              d.decision = "answerable" =>
                /\ \A p \in q.parts : p.kind = "current_state" =>
                     \A e \in Accepted(p, Hydrated(xs), at) : is(e, {"confirmed", "current", "disputed"})
                /\ \A e \in d.accepted : is(e, {"disputed"}) =>
                     \/ d.status = "partially_answered"
                     \/ \E f \in d.accepted : f.claim # e.claim /\ f.status = "disputed"

=============================================================================
