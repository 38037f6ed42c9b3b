------------------------------ MODULE Beliefs ------------------------------
(***************************************************************************)
(* What conflict decisions and belief resolutions add to the tables of     *)
(* Lifecycle, and what the deletion of a source does to them:              *)
(* ConflictRelationService.persist (src/conflicts/relations.py),           *)
(* BeliefResolutionService.resolve (src/conflicts/resolution.py, with the  *)
(* plan of src/conflicts/resolver.py) and IngestionService.delete_source   *)
(* with its rewind and replay (src/ingestion/service.py).  Each call is    *)
(* one transaction and one action; a call that raises changes nothing.     *)
(*                                                                         *)
(* A resolution moves claims through the versions that its decision read.  *)
(* To delete a source, the service takes back every resolution that rests  *)
(* on it and every one stacked on the same claims, newest first, deletes,  *)
(* and resolves again, oldest first, what did not rest on the source.      *)
(*                                                                         *)
(* Rows that live and die with a resolution (its evidence, its supersedes  *)
(* relation, its belief_resolved event) are part of its record.            *)
(*                                                                         *)
(* An operator whose comment begins with "Mistake" is a wrong version of   *)
(* the next operator; nothing uses it.                                     *)
(***************************************************************************)
EXTENDS Lifecycle, Sequences

CONSTANTS
  Evidence,        \* the support that ingestion has stored: <<claim, source>>
  Verdicts,        \* what the classifier says: [source, target, label] of claims; of
                   \* a temporal change, the source is the later claim
  Barred,          \* restricted, hypothetical or not the user's own claims
  Official,        \* the sources that are calendar entries or emails
  CallerKeys,      \* idempotency keys of transitions and corrections
  ResolutionKeys,  \* idempotency keys of resolutions
  ActionKey,       \* [ResolutionKeys \X ClaimIds -> Keys]: "belief:..." of an action
  MaxDecisions     \* bound: decisions stored at a time

\* "contradiction" stands for disagreements of sources too: all that reads labels
\* treats them alike.
Labels == {"unrelated", "temporal_change", "correction", "refinement", "retraction",
           "contradiction", "ambiguity"}

ASSUME BeliefsAssumption ==
  /\ Evidence \subseteq ClaimIds \X Sources
  /\ Verdicts \subseteq [source: ClaimIds, target: ClaimIds, label: Labels]
  /\ \A v \in Verdicts :
       /\ v.source # v.target
       /\ v.label = "temporal_change" => {v.source, v.target} \subseteq Ended
  /\ Barred \subseteq ClaimIds
  /\ Official \subseteq Sources
  /\ CallerKeys \subseteq Keys
  /\ ActionKey \in [ResolutionKeys \X ClaimIds -> Keys]
  /\ \A k, l \in ResolutionKeys, c, d \in ClaimIds :
       /\ ActionKey[<<k, c>>] \notin CallerKeys \cup {ReplacementKey[x] : x \in CallerKeys}
       /\ ActionKey[<<k, c>>] = ActionKey[<<l, d>>] => k = l /\ c = d

VARIABLES
  decisions,    \* conflict_decisions: [verdict, basis, asOf, classifiedAt, cites]
  resolutions,  \* belief_resolutions: [key, decision, acts, seen, at]
  requeued      \* conflict_recompute_required events: [pair, source]

tables == [versions |-> versions, transitions |-> transitions, announced |-> announced,
           decisions |-> decisions, resolutions |-> resolutions]

beliefVars == <<vars, decisions, resolutions, requeued>>

\* basis names the version of each claim that was classified, cites the evidence.
Pair(d) == {d.verdict.source, d.verdict.target}
Basis(db, d) == {v \in db.versions : v.claim \in Pair(d) /\ v.key = d.basis[v.claim]}

\* acts maps each claim that a resolution moved to the status it got.
Acted(r) == DOMAIN r.acts
Made(r, v) == v.claim \in Acted(r) /\ v.key = ActionKey[<<r.key, v.claim>>]
\* What the snapshot hash holds of versions that may change: where the ones that
\* are only read end; those that are acted on count as open.
Snapshot(db, r) == {<<v.claim, v.to>> : v \in {u \in Basis(db, r.decision) : u.claim \notin Acted(r)}}

Earliest(c) ==
  CHOOSE t \in Times :
    /\ \E e \in Evidence : e[1] = c /\ IngestedAt[e[2]] = t
    /\ \A e \in Evidence : e[1] = c => t <= IngestedAt[e[2]]

\* Every source is extracted at its arrival.
BeliefInit ==
  /\ versions = {[claim |-> c, key |-> Initial, status |-> "candidate",
                  from |-> Earliest(c), to |-> Open] : c \in {e[1] : e \in Evidence}}
  /\ evidence = Evidence
  /\ transitions = {} /\ forgotten = {} /\ announced = {}
  /\ decisions = {} /\ resolutions = {} /\ requeued = {}

-----------------------------------------------------------------------------
\* What the id of a decision hashes: all but its classified_at.
Content(d) == <<d.verdict, d.asOf, d.cites, d.basis>>

\* persist, for versions recorded at asOf and all evidence ingested by then.  It
\* raises when the decision is stored with another classified_at.
Persist(verdict, asOf, at) ==
  /\ Cardinality(decisions) < MaxDecisions
  /\ \E v, w \in {u \in versions : Recorded(u, asOf) /\ u.status # "excluded"} :
       LET cites == {e \in evidence : e[1] \in {v.claim, w.claim} /\ IngestedAt[e[2]] <= asOf}
           new == [verdict |-> verdict, asOf |-> asOf, classifiedAt |-> at, cites |-> cites,
                   basis |-> [c \in {v.claim, w.claim} |-> IF c = v.claim THEN v.key ELSE w.key]]
       IN  /\ v.claim = verdict.source /\ w.claim = verdict.target
           /\ {e[1] : e \in cites} = {v.claim, w.claim}
           /\ \A d \in decisions : Content(d) = Content(new) => d = new
           /\ decisions' = decisions \cup {new}
  /\ UNCHANGED <<vars, resolutions, requeued>>

-----------------------------------------------------------------------------
\* The statuses a claim may take at some valid_at of the request.
Appropriate(c) ==
  {s \in {"confirmed", "current", "historical"} :
     (s = "current" => c \in Timed) /\ (s = "historical" => c \in Ended)}

\* The claims whose cited evidence includes an official record, if they are timed.
Decisive(d) == {c \in Pair(d) \cap Timed : \E s \in Official : <<c, s>> \in d.cites}

\* resolve_belief: the statuses that the policy may aim at, per claim of the pair.
Plans(d) ==
  LET source == d.verdict.source
      target == d.verdict.target
      Aims(x, y) == [c \in Pair(d) |-> IF c = source THEN x ELSE y]
      Both(x) == [c \in Pair(d) |-> x]
  IN IF Pair(d) \cap Barred # {} THEN {[c \in Pair(d) \cap Barred |-> "excluded"]}
     ELSE CASE d.verdict.label = "unrelated" -> {[c \in {} |-> "excluded"]}
            [] d.verdict.label = "temporal_change" ->
                 {Aims(x, "historical") : x \in Appropriate(source)}
            [] d.verdict.label \in {"correction", "refinement"} ->
                 {Aims(x, "superseded") : x \in Appropriate(source)}
            [] d.verdict.label = "retraction" -> {Aims("confirmed", "superseded")}
            [] d.verdict.label = "contradiction" ->
                 {Both("disputed")} \cup
                 {[Both("disputed") EXCEPT ![c] = "current"] : c \in Decisive(d)}
            [] d.verdict.label = "ambiguity" -> {Both("disputed")}

\* _append_action: terminal claims and claims that are there already stay.
Moves(d, plan) ==
  LET moved == {v \in Basis(tables, d) :
                  /\ v.claim \in DOMAIN plan
                  /\ v.status \notin {"superseded", "excluded"}
                  /\ v.status # plan[v.claim]}
  IN [c \in {v.claim : v \in moved} |-> plan[c]]

\* The checks of a resolution: the rows of its key, versions that are open, moves
\* that are legal.
MayAct(db, r) ==
  /\ \A q \in db.resolutions : q.key # r.key
  /\ {v.claim : v \in Basis(db, r.decision)} = Pair(r.decision)
  /\ \A v \in {u \in Basis(db, r.decision) : u.claim \in Acted(r)} :
       v.to = Open /\ MayBecome(v.claim, v.status, r.acts[v.claim]) /\ Follows(v, r.at)

\* _execute_actions and the rows of the resolution.
Enact(db, r) ==
  LET acted == {v \in Basis(db, r.decision) : v.claim \in Acted(r)}
      key(v) == ActionKey[<<r.key, v.claim>>]
  IN [db EXCEPT
        !.versions = (@ \ acted) \cup {Closed(v, r.at) : v \in acted} \cup
           {Opened(v, key(v), r.acts[v.claim], r.at) : v \in acted},
        !.transitions = @ \cup
           {AuditOf(v, key(v), r.acts[v.claim], r.at, NoClaim) : v \in acted},
        !.announced = @ \cup
           {[key |-> key(v), claim |-> v.claim, replacement |-> NoClaim] : v \in acted},
        !.resolutions = @ \cup {r}]

Write(db) ==
  /\ versions' = db.versions
  /\ transitions' = db.transitions
  /\ announced' = db.announced
  /\ decisions' = db.decisions
  /\ resolutions' = db.resolutions

\* resolve, with the cutoff asOf, at the clock t.
Resolve(d, k, plan, asOf, t) ==
  LET acts == Moves(d, plan)
      r == [key |-> k, decision |-> d, acts |-> acts, at |-> t,
            seen |-> Snapshot(tables, [decision |-> d, acts |-> acts])]
  IN /\ d.asOf <= asOf /\ d.classifiedAt <= asOf /\ asOf <= t
     /\ \A v \in Basis(tables, d) : Recorded(v, asOf)
     /\ MayAct(tables, r)
     /\ Write(Enact(tables, r))
     /\ UNCHANGED <<evidence, forgotten, requeued>>

-----------------------------------------------------------------------------
\* _conflicts_for_source: the decisions that cite the source.
Direct(s) == {d \in decisions : \E e \in d.cites : e[2] = s}

ResolverMade(v) == \E r \in resolutions : Made(r, v)
\* From the version v on, only resolutions wrote the claim's timeline.
OnTop(v) == \A u \in versions : u.claim = v.claim /\ v.from <= u.from => ResolverMade(u)

\* The claims that are walked: those of the direct decisions, and whatever the
\* resolutions on top of a walked claim acted on.
Walked(s) ==
  LET closed == {cs \in SUBSET UNION {Pair(d) : d \in decisions} :
        /\ \A d \in Direct(s) : Pair(d) \subseteq cs
        /\ \A v \in versions, r \in resolutions :
             v.claim \in cs /\ OnTop(v) /\ Made(r, v) => Acted(r) \subseteq cs}
  IN {c \in ClaimIds : \A cs \in closed : c \in cs}

\* The resolutions to take back.
Undone(s) == {r \in resolutions :
  \/ r.decision \in Direct(s)
  \/ \E v \in versions : v.claim \in Walked(s) /\ OnTop(v) /\ Made(r, v)}

\* The decisions and the versions that go with resolutions rs, for source s.
Dropped(s, rs) == Direct(s) \cup {r.decision : r \in rs}
\* Mistake: with a version goes whatever is on top of it.
UnmadeAndLater(rs) ==
  {v \in versions : \E u \in versions, r \in rs : Made(r, u) /\ u.claim = v.claim /\ u.from <= v.from}
Unmade(rs) == {v \in versions : \E r \in rs : Made(r, v)}

\* Nothing else is on top of what is taken back, and nothing that stays refers to
\* it.
MayRewind(s, rs) ==
  LET off == Unmade(rs)
      kept == decisions \ Dropped(s, rs)
  IN /\ \A v \in off, u \in versions : u.claim = v.claim /\ v.from <= u.from => u \in off
     /\ \A d \in kept : Basis(tables, d) \cap off = {}
     /\ \A r \in resolutions \ rs : r.decision \in kept

\* Mistake: the audit rows of what is taken back stay.
RewoundUnaudited(s, rs) ==
  LET off == Unmade(rs)
      baseline == {v \in versions \ off : \E u \in off : u.claim = v.claim /\ u.from = v.to}
  IN [versions |-> (versions \ (off \cup baseline)) \cup {Closed(v, Open) : v \in baseline},
      transitions |-> transitions,
      announced |-> announced,
      decisions |-> decisions \ Dropped(s, rs),
      resolutions |-> resolutions \ rs]
Rewound(s, rs) ==
  LET off == Unmade(rs)
      baseline == {v \in versions \ off : \E u \in off : u.claim = v.claim /\ u.from = v.to}
      Stays(row) == \A v \in off : row.claim # v.claim \/ row.key # v.key
  IN [versions |-> (versions \ (off \cup baseline)) \cup {Closed(v, Open) : v \in baseline},
      transitions |-> {a \in transitions : Stays(a)},
      announced |-> {a \in announced : Stays(a)},
      decisions |-> decisions \ Dropped(s, rs),
      resolutions |-> resolutions \ rs]

\* Then the claims without other support go, as in Lifecycle!Forget.
Cleared(db, gone) ==
  [db EXCEPT
     !.versions = {v \in @ : v.claim \notin gone},
     !.transitions = {a \in @ : ~Names(a, gone)},
     !.announced = {a \in @ : ~Names(a, gone)}]

\* Mistake: the newest first.
NewestFirst(rs) ==
  LET n == Cardinality(rs)
  IN {o \in [1 .. n -> rs] : \A i, j \in 1 .. n : i < j => o[i] # o[j] /\ o[j].at <= o[i].at}
\* Resolutions rs, oldest first; those of one instant are in the order of their
\* hashed ids, which may be any.
Orders(rs) ==
  LET n == Cardinality(rs)
  IN {o \in [1 .. n -> rs] : \A i, j \in 1 .. n : i < j => o[i] # o[j] /\ o[i].at <= o[j].at}

\* A survivor whose versions or evidence are gone is skipped.
Eligible(db, r, s) ==
  /\ {v.claim : v \in Basis(db, r.decision)} = Pair(r.decision)
  /\ r.decision.cites \subseteq {e \in evidence : e[2] # s}
  /\ {e[1] : e \in r.decision.cites} = Pair(r.decision)

\* Mistake: the decision is not stored again.
NotReinstated(db, r) == db
\* The replay of r stores its decision again and carries it out; it raises unless
\* the plan has the snapshot of the stored resolution and can be carried out.
Reinstated(db, r) == [db EXCEPT !.decisions = @ \cup {r.decision}]
Redone(db, r, s) == IF Eligible(db, r, s) THEN Enact(Reinstated(db, r), r) ELSE db
Drifts(db, r, s) == Eligible(db, r, s) /\ ~(Snapshot(db, r) = r.seen /\ MayAct(db, r))

\* The tables after each of the replays o, in turn.
Replayed(o, start, s) ==
  LET after[i \in 0 .. Len(o)] == IF i = 0 THEN start ELSE Redone(after[i-1], o[i], s)
  IN after

\* The tables after a deletion, for each order of the replays that raises nothing.
\* The undone resolutions that do not rest on the source are replayed.  Claims also
\* are those that a trigger deletes with the source.
OutcomesWith(s, also) ==
  LET undone == Undone(s)
      start == Cleared(Rewound(s, undone), Retired(s) \cup also)
  IN IF ~MayRewind(s, undone) THEN {}
     ELSE {Replayed(o, start, s)[Len(o)] : o \in
             {q \in Orders({r \in undone : r.decision \notin Direct(s)}) :
                \A i \in 1 .. Len(q) : ~Drifts(Replayed(q, start, s)[i-1], q[i], s)}}

Outcomes(s) == OutcomesWith(s, {})

DeleteSourceWith(s, also) ==
  /\ s \notin forgotten
  /\ \E db \in OutcomesWith(s, also) : Write(db)
  /\ evidence' = {e \in evidence : e[2] # s /\ e[1] \notin also}
  /\ forgotten' = forgotten \cup {s}
  /\ requeued' = requeued \cup
       {[pair |-> Pair(d), source |-> s] : d \in {e \in Direct(s) : Pair(e) \cap Retired(s) = {}}}

DeleteSource(s) == DeleteSourceWith(s, {})

\* Conflicts are decided and resolved.
Conclude ==
  \/ \E verdict \in Verdicts, asOf, at \in Times : Persist(verdict, asOf, at)
  \/ \E d \in decisions, k \in ResolutionKeys, asOf, t \in Times :
       \E plan \in Plans(d) : Resolve(d, k, plan, asOf, t)

\* Callers move claims.
Call ==
  /\ \/ \E c \in ClaimIds, k \in CallerKeys, t \in Times :
          \E target \in Statuses \ {"candidate"} : Transition(c, k, target, t)
     \/ \E c, d \in ClaimIds, k \in CallerKeys, t \in Times :
          \E target \in {"confirmed", "current"} : Correct(c, d, k, target, t)
  /\ UNCHANGED <<decisions, resolutions, requeued>>

\* What happens between deletions.
Decide == Conclude \/ Call

BeliefNext == Decide \/ \E s \in Sources : DeleteSource(s)

BeliefSpec == BeliefInit /\ [][BeliefNext]_beliefVars

-----------------------------------------------------------------------------
BeliefTypeOK ==
  /\ TypeOK
  /\ \A d \in decisions :
       /\ d.verdict \in Verdicts /\ d.asOf \in Times /\ d.classifiedAt \in Times
       /\ d.basis \in [Pair(d) -> AuditKeys \cup {Initial}]
       /\ d.cites \subseteq Pair(d) \X Sources
  /\ \A r \in resolutions :
       /\ r.key \in ResolutionKeys /\ r.at \in Times
       /\ Acted(r) \subseteq Pair(r.decision)
       /\ r.acts \in [Acted(r) -> Statuses]
       /\ r.seen \subseteq Pair(r.decision) \X (Times \cup {Open})
  /\ \A e \in requeued : e.pair \subseteq ClaimIds /\ e.source \in Sources

\* What Lifecycle promises of its tables survives what resolutions, rewinds and
\* replays do to them: one timeline for each claim, legal histories and an audit
\* trail that fits them.
BeliefsStaySound == BeliefTypeOK /\ Timelines /\ HistoriesAreLegal /\ AuditTrail

\* What is derived is never left without what it was derived from: a decision
\* cites stored evidence of both its claims and names stored versions; a resolution
\* has its decision, and each of its acts joins the version that was classified
\* with the one it opened; a version that a resolution opened has that resolution.
LineageIsLive ==
  /\ \A d \in decisions :
       /\ d.cites \subseteq evidence /\ {e[1] : e \in d.cites} = Pair(d)
       /\ {v.claim : v \in Basis(tables, d)} = Pair(d)
  /\ \A r \in resolutions :
       /\ r.decision \in decisions
       /\ \A c \in Acted(r) : \E v \in Basis(tables, r.decision), w \in versions :
            /\ v.claim = c /\ w.claim = c /\ Made(r, w)
            /\ v.to = r.at /\ w.from = r.at /\ w.status = r.acts[c]
  /\ \A v \in versions :
       (\E x \in ResolutionKeys \X ClaimIds : v.key = ActionKey[x]) => ResolverMade(v)

\* Whatever a deletion takes back, a version that ingestion or a caller made stays
\* as long as its claim has evidence.
CallersHistoryStays ==
  [][\A v \in versions : ~ResolverMade(v) =>
       \/ \E w \in versions' : w = [v EXCEPT !.to = w.to]
       \/ \A e \in evidence' : e[1] # v.claim]_beliefVars

\* r leaves the tables although its decision does not cite a deleted source and the
\* versions that the decision read are stored.
Lost(r) ==
  /\ r \in resolutions /\ r \notin resolutions'
  /\ \A e \in r.decision.cites : e[2] \notin forgotten'
  /\ \A v \in Basis(tables, r.decision) : \E w \in versions' : w.claim = v.claim /\ w.key = v.key

\* Of resolutions with different clocks, no deletion loses one that could be
\* carried out again.
ReplayKeepsOrder ==
  [][\A r \in resolutions : Lost(r) => \E q \in resolutions \ {r} : q.at = r.at]_beliefVars

=============================================================================
