----------------------------- MODULE Lifecycle -----------------------------
(***************************************************************************)
(* TemporalService (src/temporal/service.py) for one user: the versions of *)
(* claims in transaction time, explicit transitions and corrections with   *)
(* their audit rows and outbox events, and reads as of an instant.  What   *)
(* ingestion does to the same tables (a completed extraction stores        *)
(* candidates, the deletion of a source retires unsupported claims) is     *)
(* here as the actions Extract and Forget.  Each method is one transaction *)
(* under the advisory locks of its claims and one action; one that raises  *)
(* changes nothing, and neither does the replay of a stored request.       *)
(*                                                                         *)
(* An operator whose comment begins with "Mistake" is a wrong version of   *)
(* the next operator; nothing uses it.                                     *)
(***************************************************************************)
EXTENDS Integers, FiniteSets

CONSTANTS
  ClaimIds,
  Remembered,      \* the claims whose memory_kind is not NULL
  Timed,           \* the claims whose valid time is known
  Ended,           \* the claims whose valid time has an end
  Sources,
  IngestedAt,      \* [Sources -> Times]
  Keys,            \* idempotency keys that callers use
  AuditKeys,       \* idempotency keys of stored rows
  ReplacementKey,  \* [Keys -> AuditKeys]: the key with ":replacement" appended
  Initial,         \* the version id of a new claim has no key
  NoClaim,         \* NULL in replacement_claim_id
  MaxTime          \* bound: the clocks that callers pass

Times == 0 .. MaxTime
Open == MaxTime + 1   \* NULL in transaction_to: after every instant

Statuses == {"candidate", "confirmed", "current", "historical", "disputed",
             "superseded", "excluded"}

ASSUME LifecycleAssumption ==
  /\ MaxTime \in Nat
  /\ Ended \subseteq Timed
  /\ IngestedAt \in [Sources -> Times]
  /\ Keys \subseteq AuditKeys
  /\ ReplacementKey \in [Keys -> AuditKeys]
  /\ \A k \in Keys : ReplacementKey[k] # k
  /\ Initial \notin AuditKeys
  /\ NoClaim \notin ClaimIds

VARIABLES
  versions,     \* claim_versions: [claim, key, status, from, to]
  transitions,  \* lifecycle_transitions: [key, claim, before, target, at, replacement]
  evidence,     \* the support of claims: <<claim, source>>
  forgotten,    \* the sources that are deleted
  announced     \* claim_lifecycle_changed events: [key, claim, replacement]

vars == <<versions, transitions, evidence, forgotten, announced>>

Version == [claim: ClaimIds, key: AuditKeys \cup {Initial}, status: Statuses,
            from: Times, to: Times \cup {Open}]

\* before is the key of the version that the transition closed; the version that
\* it opened carries the transition's own key.
Audit == [key: AuditKeys, claim: ClaimIds, before: AuditKeys \cup {Initial},
          target: Statuses, at: Times, replacement: ClaimIds \cup {NoClaim}]

Event == [key: Keys, claim: ClaimIds, replacement: ClaimIds \cup {NoClaim}]

Stored(c) == \E v \in versions : v.claim = c
Used(k) == \E a \in transitions : a.key = k

Init ==
  /\ versions = {}
  /\ transitions = {}
  /\ evidence = {}
  /\ forgotten = {}
  /\ announced = {}

-----------------------------------------------------------------------------
\* complete_attempt for claims cs of source s: a claim that is new gets a
\* candidate version.
Extract(s, cs, t) ==
  /\ s \notin forgotten
  /\ IngestedAt[s] <= t
  /\ evidence' = evidence \cup (cs \X {s})
  /\ versions' = versions \cup
       {[claim |-> c, key |-> Initial, status |-> "candidate", from |-> t, to |-> Open] :
          c \in {d \in cs : ~Stored(d)}}
  /\ UNCHANGED <<transitions, forgotten, announced>>

\* delete_source: claims without other support disappear with their history,
\* with every audit row and every event that names them.
Retired(s) == {c \in ClaimIds : <<c, s>> \in evidence /\ \A e \in evidence : e[1] = c => e[2] = s}

Names(row, gone) == row.claim \in gone \/ row.replacement \in gone

Forget(s) ==
  /\ s \notin forgotten
  /\ evidence' = {e \in evidence : e[2] # s}
  /\ versions' = {v \in versions : v.claim \notin Retired(s)}
  /\ transitions' = {a \in transitions : ~Names(a, Retired(s))}
  /\ announced' = {a \in announced : ~Names(a, Retired(s))}
  /\ forgotten' = forgotten \cup {s}

-----------------------------------------------------------------------------
\* TRANSITION_MATRIX.
Successors ==
  [candidate |-> {"confirmed", "current", "historical", "disputed", "excluded"},
   confirmed |-> {"disputed", "superseded", "excluded"},
   current |-> {"historical", "disputed", "superseded", "excluded"},
   historical |-> {"disputed", "superseded", "excluded"},
   disputed |-> {"confirmed", "current", "historical", "superseded", "excluded"},
   superseded |-> {},
   excluded |-> {}]

\* Mistake: the valid time is not looked at.
TimelessMayBecome(c, status, target) == c \in Remembered /\ target \in Successors[status]
\* _require_transition.
MayBecome(c, status, target) ==
  /\ c \in Remembered
  /\ target \in Successors[status]
  /\ target = "current" => c \in Timed
  /\ target = "historical" => c \in Ended

\* Mistake: a clock equal to the version's own start is accepted.
FollowsOrEquals(v, t) == v.from <= t
\* stale_transition.
Follows(v, t) == v.from < t

\* Mistake: the old version ends before the new one begins.
ClosedBefore(v, t) == [v EXCEPT !.to = t - 1]
\* The open version v of a claim is closed at t and one with status target opened.
Closed(v, t) == [v EXCEPT !.to = t]
Opened(v, k, target, t) ==
  [claim |-> v.claim, key |-> k, status |-> target, from |-> t, to |-> Open]
\* Mistake: the row names the version it opened in the place of the one it closed.
AuditOfOpened(v, k, target, t, replacement) ==
  [key |-> k, claim |-> v.claim, before |-> k, target |-> target, at |-> t,
   replacement |-> replacement]
AuditOf(v, k, target, t, replacement) ==
  [key |-> k, claim |-> v.claim, before |-> v.key, target |-> target, at |-> t,
   replacement |-> replacement]

Current(c) == {v \in versions : v.claim = c /\ v.to = Open}

\* transition.
Transition(c, k, target, t) ==
  /\ ~Used(k)
  /\ \A a \in announced : a.key # k
  /\ \E v \in Current(c) :
       /\ MayBecome(c, v.status, target)
       /\ Follows(v, t)
       /\ versions' = (versions \ {v}) \cup {Closed(v, t), Opened(v, k, target, t)}
       /\ transitions' = transitions \cup {AuditOf(v, k, target, t, NoClaim)}
  /\ announced' = announced \cup {[key |-> k, claim |-> c, replacement |-> NoClaim]}
  /\ UNCHANGED <<evidence, forgotten>>

\* correct: claim c is superseded and the candidate d promoted, in one step.
Correct(c, d, k, target, t) ==
  /\ c # d
  /\ ~Used(k) /\ ~Used(ReplacementKey[k])
  /\ \A a \in announced : a.key # k
  /\ \E v \in Current(c), w \in Current(d) :
       /\ MayBecome(c, v.status, "superseded") /\ Follows(v, t)
       /\ w.status = "candidate"
       /\ MayBecome(d, w.status, target) /\ Follows(w, t)
       /\ versions' = (versions \ {v, w}) \cup
            {Closed(v, t), Opened(v, k, "superseded", t),
             Closed(w, t), Opened(w, ReplacementKey[k], target, t)}
       /\ transitions' = transitions \cup
            {AuditOf(v, k, "superseded", t, d),
             AuditOf(w, ReplacementKey[k], target, t, NoClaim)}
  /\ announced' = announced \cup {[key |-> k, claim |-> c, replacement |-> d]}
  /\ UNCHANGED <<evidence, forgotten>>

Next ==
  \/ \E s \in Sources, cs \in SUBSET ClaimIds, t \in Times : Extract(s, cs, t)
  \/ \E s \in Sources : Forget(s)
  \/ \E c \in ClaimIds, k \in Keys, t \in Times :
       \E target \in Statuses \ {"candidate"} : Transition(c, k, target, t)
  \/ \E c, d \in ClaimIds, k \in Keys, t \in Times :
       \E target \in {"confirmed", "current"} : Correct(c, d, k, target, t)

Spec == Init /\ [][Next]_vars

-----------------------------------------------------------------------------
\* query without a filter on status or valid time: the versions recorded at the
\* instant at, each with the evidence of the sources ingested by then.
Support(c, at) == {s \in Sources : <<c, s>> \in evidence /\ IngestedAt[s] <= at}

\* Mistake: transaction time includes the instant at which a version ends.
RecordedTo(v, at) == v.from <= at /\ at <= v.to
Recorded(v, at) == v.from <= at /\ at < v.to

Answer(at) ==
  {[claim |-> v.claim, status |-> v.status, from |-> v.from,
    support |-> Support(v.claim, at)] :
     v \in {u \in versions : Recorded(u, at) /\ Support(u.claim, at) # {}}}

-----------------------------------------------------------------------------
TypeOK ==
  /\ versions \subseteq Version
  /\ transitions \subseteq Audit
  /\ evidence \subseteq ClaimIds \X Sources
  /\ forgotten \subseteq Sources
  /\ announced \subseteq Event

\* The versions of a claim partition transaction time from the claim's creation
\* on: none is empty, no two overlap, where one ends another begins, and a stored
\* claim has one that is open.  The schema refuses overlaps; gaps, and claims that
\* no transition can open again, only the service prevents.
Timelines ==
  /\ \A v \in versions : v.from < v.to
  /\ \A v, w \in versions :
       v.claim = w.claim /\ v # w => v.to <= w.from \/ w.to <= v.from
  /\ \A v \in versions : v.to # Open =>
       \E w \in versions : w.claim = v.claim /\ w.from = v.to
  /\ \A v \in versions : \E w \in versions : w.claim = v.claim /\ w.to = Open

\* Along a claim's timeline the statuses follow the transition matrix from
\* candidate on, superseded and excluded are final, and what needs a valid time
\* or its end has one, whichever mixture of transitions, corrections, deletions
\* and renewed extractions wrote the versions.
HistoriesAreLegal ==
  /\ \A v \in versions :
       /\ v.status = "candidate" <=> \A w \in versions : w.claim = v.claim => v.from <= w.from
       /\ v.status \in {"superseded", "excluded"} => v.to = Open
       /\ v.status = "current" => v.claim \in Timed
       /\ v.status = "historical" => v.claim \in Ended
  /\ \A v, w \in versions : v.claim = w.claim /\ v.to = w.from =>
       w.status \in Successors[v.status]

\* A correction that is on record is there with both halves: the replacement was
\* promoted from candidate at the very instant the other claim was superseded, so
\* a repeated request finds the rows it compares itself with.
CorrectionsArePaired ==
  \A a \in transitions : a.replacement # NoClaim =>
    /\ a.target = "superseded" /\ a.key \in Keys
    /\ \E b \in transitions :
         /\ b.key = ReplacementKey[a.key] /\ b.claim = a.replacement
         /\ b.before = Initial /\ b.at = a.at
         /\ b.target \in {"confirmed", "current"}

\* Every audit row joins two adjacent versions of its claim, and every version
\* that a transition opened has its row and event, except a superseded version
\* whose correction went with a deleted replacement.  A caller's key names one
\* event, written with its row.  Corrections are paired.
AuditTrail ==
  /\ \A a \in transitions : \E v, w \in versions :
       /\ v.claim = a.claim /\ v.key = a.before /\ v.to = a.at
       /\ w.claim = a.claim /\ w.key = a.key /\ w.from = a.at /\ w.status = a.target
  /\ \A v \in versions : v.key # Initial =>
       \/ \E a \in transitions : a.claim = v.claim /\ a.key = v.key
       \/ v.status = "superseded"
  /\ \A a, b \in transitions : a.key = b.key => a = b
  /\ \A e \in announced : \E a \in transitions :
       a.key = e.key /\ a.claim = e.claim /\ a.replacement = e.replacement
  /\ \A a \in transitions :
       \/ \E e \in announced : e.key = a.key
       \/ \E k \in Keys : ReplacementKey[k] = a.key
  /\ CorrectionsArePaired

\* An answer holds each claim at most once, and only claims that a source which
\* is not deleted, and was ingested by then, supports.
AnswersAreSupported ==
  \A at \in Times :
    /\ \A p, q \in Answer(at) : p.claim = q.claim => p = q
    /\ \A p \in Answer(at) : p.support \cap forgotten = {} /\ p.support # {}

\* A transition or correction with clock t changes no answer as of an earlier
\* instant.
PastAnswersStay ==
  [][\A v \in versions' \ versions : v.key # Initial /\ v.to = Open =>
       \A at \in Times : at < v.from => Answer(at)' = Answer(at)]_vars

=============================================================================
