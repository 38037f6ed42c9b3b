------------------------------ MODULE Durative ------------------------------
(***************************************************************************)
(* Durative claims (src/summaries/durative.py, durative_repository.py and  *)
(* migration 0007): what several episodes of a user support becomes a      *)
(* claim of its own, a candidate in the same tables, which callers may     *)
(* move as they move any claim.  An outbox event makes one run over all    *)
(* propositions of the user; the run stores its decisions and the episodes *)
(* they rest on, and what earlier runs derived and this one does not is    *)
(* purged.                                                                 *)
(*                                                                         *)
(* Confidences and sensitivity are left out, dates and timestamps are one  *)
(* type, and a span is its source.                                         *)
(*                                                                         *)
(* An operator whose comment begins with "Mistake" is a wrong version of   *)
(* the next operator; nothing uses it.                                     *)
(***************************************************************************)
EXTENDS Recomputation

CONSTANTS
  Propositions,
  Predicate,      \* [Propositions -> subjects and predicates]
  Rivals,         \* pairs of propositions that exclude each other at a time
  About,          \* [claims of interval predicates -> Propositions]
  Validity,       \* [claims of interval predicates -> Interval]
  NoDate,
  Episodic, Asserted, Doubted, Restricted,  \* sets of claims
  Against,        \* evidence that contradicts or corrects its claim
  RootId,         \* [Propositions -> ClaimIds]: the hash of the proposition
  ReplacementId,  \* the ids of other claims: [proposition and time -> ClaimIds]
  MaxRuns         \* bound: runs stored at a time

F == INSTANCE FiniteSetsExt

Bounded(c) == NoDate \notin {Validity[c].start, Validity[c].end}

\* _aggregate_episode_time for the claims of the episodes; the time of one episode is
\* precise.
Span(cs, single) ==
  IF \A c \in cs : Bounded(c)
  THEN [start |-> F!Min({Validity[c].start : c \in cs}),
        end |-> F!Max({Validity[c].end : c \in cs}), precise |-> single]
  ELSE [start |-> NoDate, end |-> NoDate, precise |-> FALSE]

\* The claims that are extracted as such, and the ids of derived ones: hashes under
\* names of their own, as are the keys of versions that runs open.
Extracted == {e[1] : e \in Evidence} \cup DOMAIN About

ASSUME DurativeAssumption ==
  /\ \A p, q \in Propositions :
       /\ RootId[p] \in ClaimIds \ Extracted
       /\ RootId[p] = RootId[q] => p = q
       /\ \A x \in DOMAIN ReplacementId : RootId[p] # ReplacementId[x]
  /\ \A x, y \in DOMAIN ReplacementId : ReplacementId[x] = ReplacementId[y] => x = y
  /\ \A x \in DOMAIN ReplacementId : ReplacementId[x] \in ClaimIds \ Extracted
  /\ \A p \in Propositions, single \in BOOLEAN :
       \A cs \in SUBSET {c \in DOMAIN About : About[c] = p} :
         cs # {} => <<p, Span(cs, single)>> \in DOMAIN ReplacementId
  /\ \A x \in ResolutionKeys \X ClaimIds : ActionKey[x][1] # "inferred"

VARIABLES
  derived,   \* claims with memory_kind durative: [claim, proposition, time]
  runs,      \* durative_inference_runs: [event, at, input, inferences]
  inferred   \* claims_changed of durative claims: [event, claim, at]

durativeTables == [derived |-> derived, runs |-> runs, inferred |-> inferred,
                   versions |-> versions, evidence |-> evidence]

durativeVars == <<beliefVars, deletedAt, derived, runs, inferred>>

DurativeInit ==
  /\ BeliefInit
  /\ NothingDeleted
  /\ derived = {} /\ runs = {} /\ inferred = {}

Changes ==
  Outbox \cup {[id |-> <<"inferred", i.event, i.claim>>, at |-> i.at] : i \in inferred}

-----------------------------------------------------------------------------
\* load_visible_episodes: recorded versions that are not durative, with each of
\* their sources.
Episodes(at) ==
  {x \in versions \X Visible(at) :
     /\ Recorded(x[1], at) /\ <<x[1].claim, x[2]>> \in evidence
     /\ \A d \in derived : d.claim # x[1].claim}

SessionOf(s, at) == (CHOOSE D \in Definitions(Visible(at)) : s \in D.members).id

\* The labels of the conflicts of the version that nothing had resolved by then.
OpenLabels(v, at) ==
  {d.verdict.label : d \in {e \in decisions :
     /\ e.asOf <= at /\ e.classifiedAt <= at /\ v \in Basis(tables, e)
     /\ \A r \in resolutions : r.decision = e => r.at > at}}
\* One of them counts against a claim.
Unsettled(v, at) ==
  OpenLabels(v, at) \cap {"correction", "retraction", "contradiction", "ambiguity"} # {}

\* What the snapshots of a run hash.
InferenceInput(at) ==
  {[version |-> x[1], source |-> x[2], session |-> SessionOf(x[2], at),
    labels |-> OpenLabels(x[1], at)] : x \in Episodes(at)}

\* Episodes of interval predicates, and those that say the proposition p.
Relevant(at) == {x \in Episodes(at) : x[1].claim \in DOMAIN About}
Saying(p, at) ==
  {x \in Relevant(at) : About[x[1].claim] = p /\ <<x[1].claim, x[2]>> \notin Against}

Candidates(at) == {p \in Propositions : Saying(p, at) # {}}

\* _eligible_supports.
Supports(p, at) ==
  {x \in Saying(p, at) :
     /\ x[1].claim \in (Episodic \cap Asserted) \ Restricted
     /\ x[1].status \in {"confirmed", "current", "historical"}}

\* _overlaps_or_unknown.
MayOverlap(c, d) ==
  Bounded(c) /\ Bounded(d) =>
    Validity[c].start <= Validity[d].end /\ Validity[d].start <= Validity[c].end

\* _is_counter_evidence.
Counters(p, at) ==
  {x \in Relevant(at) :
     LET claim == x[1].claim IN
     /\ Predicate[About[claim]] = Predicate[p] /\ claim \notin Restricted
     /\ \/ Unsettled(x[1], at)
        \/ /\ About[claim] = p
           /\ \/ <<claim, x[2]>> \in Against \/ claim \in Doubted
              \/ x[1].status \in {"candidate", "disputed"}
        \/ /\ {p, About[claim]} \in Rivals /\ <<claim, x[2]>> \notin Against
           /\ \E y \in Saying(p, at) : MayOverlap(claim, y[1].claim)}

EpisodeAt(c) == IF Validity[c].start # NoDate THEN Validity[c].start ELSE Validity[c].end

Repeated(xs, at) ==
  /\ Cardinality({SessionOf(x[2], at) : x \in xs}) >= 2
  /\ Cardinality({x[2] : x \in xs}) >= 2
  /\ Cardinality({EpisodeAt(x[1].claim) : x \in xs} \ {NoDate}) >= 2

\* infer_durative_claim: nothing against it, and an interval or repetition.
Accepts(p, at) ==
  /\ Counters(p, at) = {}
  /\ \/ Repeated(Supports(p, at), at)
     \/ \E x \in Supports(p, at) : Bounded(x[1].claim)

Time(xs) == Span({x[1].claim : x \in xs}, Cardinality(xs) = 1)

-----------------------------------------------------------------------------
\* Mistake: a claim of another time is overwritten.
AlwaysRoot(p, time) == RootId[p]
\* _resolve_claim_id: the id of the proposition, unless it is taken with another
\* time.
IdOf(p, time) ==
  IF \A d \in derived : d.claim = RootId[p] => d.time = time THEN RootId[p]
  ELSE ReplacementId[<<p, time>>]

Derivation(p, at) ==
  LET xs == Supports(p, at)
  IN [claim |-> IdOf(p, Time(xs)), proposition |-> p, time |-> Time(xs)]

Accepted(at) == {p \in Candidates(at) : Accepts(p, at)}
Spans(p, at) == {Derivation(p, at).claim} \X {x[2] : x \in Supports(p, at)}

\* The propositions whose claim is created or gets evidence, and the open versions
\* that this closes.
Gains(p, at) == ~(Spans(p, at) \subseteq evidence)
Changing(at) == {p \in Accepted(at) : Gains(p, at)}
Succeeded(ps, at) ==
  {v \in versions : v.to = Open /\ \E p \in ps : v.claim = Derivation(p, at).claim}

\* _ensure_claim raises unless the claim is a candidate and the clock goes on.
MayInfer(at) ==
  /\ \A v \in Succeeded(Accepted(at), at) : v.status = "candidate" /\ v.from <= at
  /\ \A v \in Succeeded(Changing(at), at) : v.from < at

\* The key of the version that the run of e leaves open.
VersionKey(p, e) ==
  IF Gains(p, e.at) THEN <<"inferred", e.id>>
  ELSE (CHOOSE v \in Succeeded({p}, e.at) : TRUE).key

\* What a decision rests on.
Cited(p, at) == {<<x[1].claim, x[1].key, x[2]>> : x \in Supports(p, at) \cup Counters(p, at)}

Inference(p, e) ==
  IF Accepts(p, e.at)
  THEN [proposition |-> p, cited |-> Cited(p, e.at),
        claim |-> Derivation(p, e.at).claim, version |-> VersionKey(p, e)]
  ELSE [proposition |-> p, cited |-> Cited(p, e.at), claim |-> NoClaim, version |-> Initial]

Run(e) == [event |-> e.id, at |-> e.at, input |-> InferenceInput(e.at),
           inferences |-> {Inference(p, e) : p \in Candidates(e.at)}]

DerivedBy(run) == {i.claim : i \in run.inferences} \ {NoClaim}
Claimed(rs) == UNION {DerivedBy(r) : r \in rs}

\* The rows of claims that are not stored: a stored one keeps its row.
NewClaims(at) == {n \in {Derivation(p, at) : p \in Accepted(at)} : \A d \in derived : d.claim # n.claim}

\* What the run of e writes before it purges.
Inferred(e) ==
  LET accepted == Accepted(e.at)
      changing == Changing(e.at)
      closed == Succeeded(changing, e.at)
  IN [derived |-> derived \cup NewClaims(e.at),
      runs |-> runs \cup {Run(e)},
      inferred |-> inferred \cup
        {[event |-> e.id, claim |-> Derivation(p, e.at).claim, at |-> e.at] : p \in changing},
      versions |-> (versions \ closed) \cup {Closed(v, e.at) : v \in closed} \cup
        {[claim |-> Derivation(p, e.at).claim, key |-> <<"inferred", e.id>>,
          status |-> "candidate", from |-> e.at, to |-> Open] : p \in changing},
      evidence |-> evidence \cup UNION {Spans(p, e.at) : p \in accepted}]

\* Mistake: the runs that decided the claims stay.
PurgedClaimsOnly(db, gone) ==
  [derived |-> {d \in db.derived : d.claim \notin gone},
   runs |-> db.runs,
   inferred |-> {i \in db.inferred : i.claim \notin gone},
   versions |-> {v \in db.versions : v.claim \notin gone},
   evidence |-> {x \in db.evidence : x[1] \notin gone}]
\* _delete_derived_claim for claims gone, with the runs that decided them.
Purged(db, gone) ==
  [derived |-> {d \in db.derived : d.claim \notin gone},
   runs |-> {r \in db.runs : DerivedBy(r) \cap gone = {}},
   inferred |-> {i \in db.inferred : i.claim \notin gone},
   versions |-> {v \in db.versions : v.claim \notin gone},
   evidence |-> {x \in db.evidence : x[1] \notin gone}]

\* purge_unmatched: it raises when an audit row or a conflict names what must go.
PurgeBut(db, active) ==
  LET gone == Claimed(db.runs) \ active
      left == Purged(db, gone)
  IN /\ \A a \in transitions : ~Names(a, gone)
     /\ \A d \in decisions : Pair(d) \cap gone = {}
     /\ derived' = left.derived /\ runs' = left.runs /\ inferred' = left.inferred
     /\ versions' = left.versions /\ evidence' = left.evidence

\* _run_matches: the stored run of e is what a run would decide.
Replays(r, e) ==
  /\ r.at = e.at /\ r.input = InferenceInput(e.at)
  /\ {<<i.proposition, i.cited>> : i \in r.inferences} =
     {<<p, Cited(p, e.at)>> : p \in Candidates(e.at)}

\* DurativeClaimCoordinator.process.
Process(e) ==
  /\ ~Unbounded(Visible(e.at))
  /\ \/ /\ \A r \in runs : r.event # e.id
        /\ Cardinality(runs) < MaxRuns
        /\ MayInfer(e.at)
        /\ PurgeBut(Inferred(e), DerivedBy(Run(e)))
     \/ \E r \in runs : r.event = e.id /\ Replays(r, e) /\ PurgeBut(durativeTables, DerivedBy(r))
  /\ UNCHANGED <<transitions, announced, forgotten, decisions, resolutions, requeued, deletedAt>>

-----------------------------------------------------------------------------
\* The rows of an inference for versions that a rewind deletes go before the
\* triggers look for the source.
Left(i, s) ==
  {x \in i.cited : \A v \in Unmade(Undone(s)) : v.claim # x[1] \/ v.key # x[2]}
RestsOn(i, s) == \E x \in Left(i, s) : x[3] = s

\* purge_durative_derivations_for_evidence.
DerivedFrom(s) ==
  {i.claim : i \in {j \in UNION {r.inferences : r \in runs} : RestsOn(j, s)}} \ {NoClaim}

\* delete_source with the triggers and cascades of migration 0007: it raises when a
\* conflict that stays names a claim that they delete.  Such a claim has evidence of
\* the source (DerivedAreGrounded), so that delete_source goes over it as over the
\* retired claims, and deletes the events that name it as a replacement as well.
Erase(s, t) ==
  LET also == DerivedFrom(s)
      kept == {r \in runs : /\ DerivedBy(r) \cap (also \cup Retired(s)) = {}
                            /\ \A i \in r.inferences : ~RestsOn(i, s)}
  IN /\ \A d \in decisions \ Dropped(s, Undone(s)) : Pair(d) \cap also = {}
     /\ DeleteSourceWith(s, also)
     /\ Records(s, t)
     /\ derived' = {d \in derived : d.claim \notin also \cup Retired(s)}
     /\ inferred' = {i \in inferred : i.claim \notin also}
     /\ runs' = {[r EXCEPT !.inferences = {[i EXCEPT !.cited = Left(i, s)] : i \in @}] : r \in kept}

DurativeNext ==
  \/ Decide /\ UNCHANGED <<deletedAt, derived, runs, inferred>>
  \/ \E s \in Sources : \E t \in IngestedAt[s] .. MaxTime : Erase(s, t)
  \/ \E e \in Changes : Process(e)

DurativeSpec == DurativeInit /\ [][DurativeNext]_durativeVars

-----------------------------------------------------------------------------
DurativeTypeOK ==
  /\ \A d \in derived :
       /\ d.claim \in {RootId[d.proposition], ReplacementId[<<d.proposition, d.time>>]}
       /\ \A e \in derived : e.claim = d.claim => e = d
  /\ \A r \in runs :
       /\ r.at \in Times
       /\ \A i \in r.inferences :
            i.proposition \in Propositions /\ i.cited \subseteq ClaimIds \X (AuditKeys \cup {Initial}) \X Sources
  /\ \A i \in inferred : i.claim \in ClaimIds /\ i.at \in Times
  /\ \A v \in versions : v.claim \in {x[1] : x \in Evidence} \cup {d.claim : d \in derived}

\* Nothing that is derived outlives what it was derived from: a durative claim has a
\* version and evidence, and for each source of its evidence a claim that says the
\* same from that source; what a run decided names stored claims and versions and
\* rests on stored evidence, which the derived claim shares.
DerivedAreGrounded ==
  /\ DurativeTypeOK
  /\ \A d \in derived :
       /\ \E v \in versions : v.claim = d.claim /\ v.to = Open
       /\ \E x \in evidence : x[1] = d.claim
       /\ \A x \in {y \in evidence : y[1] = d.claim} :
            \E y \in evidence : y[2] = x[2] /\ y[1] \in DOMAIN About /\ About[y[1]] = d.proposition
  /\ \A r \in runs : \A i \in r.inferences :
       /\ \A x \in i.cited :
            /\ <<x[1], x[3]>> \in evidence
            /\ \E v \in versions : v.claim = x[1] /\ v.key = x[2]
            /\ i.claim # NoClaim => <<i.claim, x[3]>> \in evidence
       /\ i.claim # NoClaim =>
            /\ \E d \in derived : d.claim = i.claim /\ d.proposition = i.proposition
            /\ \E v \in versions : v.claim = i.claim /\ v.key = i.version

\* The stored claims that no stored run has decided: a deletion took their run, which
\* rested on the source for another claim.  No later run purges them.
Undecided == {d.claim : d \in derived} \ Claimed(runs)

\* After the newest run the derived claims are those that the episodes of its instant
\* justify, each with its time and all its support, and those that deletions have left
\* undecided before; it has decided the former and nothing else.  A claim is left
\* undecided by a deletion only, never by a run that is new, old or repeated.
InferenceTellsTheTruth ==
  [][/\ \A r \in {n \in runs' : \A o \in runs : o.event # n.event /\ o.at < n.at} :
          LET due == {Derivation(p, r.at).claim : p \in Accepted(r.at)}
          IN /\ {d.claim : d \in derived'} = due \cup Undecided
             /\ Claimed(runs') = due
             /\ \A p \in Accepted(r.at) :
                  \E d \in derived' :
                    /\ d.proposition = p /\ d.time = Time(Supports(p, r.at))
                    /\ \E v \in versions' : v.claim = d.claim /\ v.to = Open /\ v.status = "candidate"
                    /\ \A x \in Supports(p, r.at) : <<d.claim, x[2]>> \in evidence'
     /\ forgotten' = forgotten => Undecided' \subseteq Undecided]_durativeVars

=============================================================================
