-------------------------- MODULE LifecycleProofs --------------------------
(***************************************************************************)
(* Theorems of module Lifecycle, for any claims, sources, keys and clocks. *)
(* Timelines is inductive together with the types; the legality of         *)
(* histories rests on it.                                                  *)
(***************************************************************************)
EXTENDS Lifecycle, TLAPS

LEMMA TimesAreNat == Open \in Nat /\ \A t \in Times : t \in Nat /\ t < Open
  BY LifecycleAssumption DEF Times, Open

\* The tables keep their types (the records that the methods of TemporalService
\* and of ingestion insert and update).
LEMMA TypeStep == TypeOK /\ [Next]_vars => TypeOK'
<1> SUFFICES ASSUME TypeOK, [Next]_vars PROVE TypeOK'
  OBVIOUS
<1> USE LifecycleAssumption
<1>1. ASSUME NEW s \in Sources, NEW cs \in SUBSET ClaimIds, NEW t \in Times, Extract(s, cs, t)
      PROVE  TypeOK'
  <2> DEFINE new == {[claim |-> c, key |-> Initial, status |-> "candidate",
                      from |-> t, to |-> Open] : c \in {d \in cs : ~Stored(d)}}
  <2>1. new \subseteq Version
    BY DEF Version, Statuses
  <2>2. versions' = versions \cup new /\ evidence' = evidence \cup (cs \X {s})
    BY <1>1 DEF Extract
  <2> HIDE DEF new
  <2> QED BY <1>1, <2>1, <2>2 DEF Extract, TypeOK
<1>2. ASSUME NEW s \in Sources, Forget(s)
      PROVE  TypeOK'
  BY <1>2 DEF Forget, TypeOK
<1>3. ASSUME NEW c \in ClaimIds, NEW k \in Keys, NEW t \in Times,
             NEW target \in Statuses \ {"candidate"}, Transition(c, k, target, t)
      PROVE  TypeOK'
  <2>1. PICK v \in Current(c) :
          /\ versions' = (versions \ {v}) \cup {Closed(v, t), Opened(v, k, target, t)}
          /\ transitions' = transitions \cup {AuditOf(v, k, target, t, NoClaim)}
    BY <1>3 DEF Transition
  <2>2. v \in Version
    BY DEF Current, TypeOK
  <2>3. Closed(v, t) \in Version /\ Opened(v, k, target, t) \in Version
    BY <2>2 DEF Closed, Opened, Version
  <2>4. AuditOf(v, k, target, t, NoClaim) \in Audit
    BY <2>2 DEF AuditOf, Audit, Version
  <2>5. [key |-> k, claim |-> c, replacement |-> NoClaim] \in Event
    BY DEF Event
  <2> QED BY <1>3, <2>1, <2>3, <2>4, <2>5 DEF Transition, TypeOK
<1>4. ASSUME NEW c \in ClaimIds, NEW d \in ClaimIds, NEW k \in Keys, NEW t \in Times,
             NEW target \in {"confirmed", "current"}, Correct(c, d, k, target, t)
      PROVE  TypeOK'
  <2>1. PICK v \in Current(c), w \in Current(d) :
          /\ versions' = (versions \ {v, w}) \cup
               {Closed(v, t), Opened(v, k, "superseded", t),
                Closed(w, t), Opened(w, ReplacementKey[k], target, t)}
          /\ transitions' = transitions \cup
               {AuditOf(v, k, "superseded", t, d),
                AuditOf(w, ReplacementKey[k], target, t, NoClaim)}
    BY <1>4 DEF Correct
  <2>2. v \in Version /\ w \in Version /\ ReplacementKey[k] \in AuditKeys
    BY DEF Current, TypeOK
  <2>3. /\ Closed(v, t) \in Version /\ Opened(v, k, "superseded", t) \in Version
        /\ Closed(w, t) \in Version /\ Opened(w, ReplacementKey[k], target, t) \in Version
    BY <2>2 DEF Closed, Opened, Version, Statuses
  <2>4. /\ AuditOf(v, k, "superseded", t, d) \in Audit
        /\ AuditOf(w, ReplacementKey[k], target, t, NoClaim) \in Audit
    BY <2>2 DEF AuditOf, Audit, Version, Statuses
  <2>5. [key |-> k, claim |-> c, replacement |-> d] \in Event
    BY DEF Event
  <2> QED BY <1>4, <2>1, <2>3, <2>4, <2>5 DEF Correct, TypeOK
<1>5. CASE UNCHANGED vars
  BY <1>5 DEF vars, TypeOK
<1> QED BY <1>1, <1>2, <1>3, <1>4, <1>5 DEF Next

\* Every reachable table holds well-typed rows.
THEOREM TypeCorrect == Spec => []TypeOK
<1>1. Init => TypeOK
  BY DEF Init, TypeOK
<1> QED BY <1>1, TypeStep, PTL DEF Spec


-----------------------------------------------------------------------------
\* Timelines of an arbitrary set of versions.
Partitions(S) ==
  /\ \A v \in S : v.from < v.to
  /\ \A v, w \in S : v.claim = w.claim /\ v # w => v.to <= w.from \/ w.to <= v.from
  /\ \A v \in S : v.to # Open => \E w \in S : w.claim = v.claim /\ w.from = v.to
  /\ \A v \in S : \E w \in S : w.claim = v.claim /\ w.to = Open

LEMMA TimelinesArePartitions == Timelines <=> Partitions(versions)
  BY DEF Timelines, Partitions

\* Closing a claim's open version at a later instant and opening another there
\* keeps the timelines partitioned (_advance).
LEMMA AdvanceKeepsPartitions ==
  ASSUME NEW S \in SUBSET Version, Partitions(S),
         NEW v \in S, v.to = Open,
         NEW t \in Times, v.from < t,
         NEW k \in AuditKeys, NEW x \in Statuses
  PROVE  Partitions((S \ {v}) \cup {Closed(v, t), Opened(v, k, x, t)})
<1> DEFINE a == Closed(v, t)
           b == Opened(v, k, x, t)
           R == (S \ {v}) \cup {a, b}
<1> USE TimesAreNat
<1>1. \A u \in S : u.from \in Nat /\ u.to \in Nat /\ u.from < Open /\ u.to <= Open
  BY DEF Version
<1>2. /\ a.claim = v.claim /\ a.from = v.from /\ a.to = t
      /\ b.claim = v.claim /\ b.from = t /\ b.to = Open
  BY DEF Closed, Opened, Version
<1>3. \A u \in S \ {v} : u.claim = v.claim => u.to <= v.from
  BY <1>1 DEF Partitions
<1> HIDE DEF a, b
<1>4. \A u \in R : u.from < u.to
  BY <1>2 DEF Partitions
<1>5. \A u, w \in R : u.claim = w.claim /\ u # w => u.to <= w.from \/ w.to <= u.from
  <2> SUFFICES ASSUME NEW u \in R, NEW w \in R, u.claim = w.claim, u # w
               PROVE  u.to <= w.from \/ w.to <= u.from
    OBVIOUS
  <2>1. CASE u \in S \ {v} /\ w \in S \ {v}
    BY <2>1 DEF Partitions
  <2>2. CASE u \in S \ {v} /\ w \in {a, b}
    BY <2>2, <1>1, <1>2, <1>3
  <2>3. CASE u \in {a, b} /\ w \in S \ {v}
    BY <2>3, <1>1, <1>2, <1>3
  <2>4. CASE u \in {a, b} /\ w \in {a, b}
    BY <2>4, <1>2
  <2> QED BY <2>1, <2>2, <2>3, <2>4
<1>6. \A u \in R : u.to # Open => \E w \in R : w.claim = u.claim /\ w.from = u.to
  <2> SUFFICES ASSUME NEW u \in R, u.to # Open
               PROVE  \E w \in R : w.claim = u.claim /\ w.from = u.to
    OBVIOUS
  <2>1. CASE u \in S \ {v}
    <3>1. PICK w \in S : w.claim = u.claim /\ w.from = u.to
      BY <2>1 DEF Partitions
    <3>2. CASE w = v
      BY <3>1, <3>2, <1>2
    <3> QED BY <3>1, <3>2
  <2>2. CASE u = a
    BY <2>2, <1>2
  <2>3. CASE u = b
    BY <2>3, <1>2
  <2> QED BY <2>1, <2>2, <2>3
<1>7. \A u \in R : \E w \in R : w.claim = u.claim /\ w.to = Open
  <2> SUFFICES ASSUME NEW u \in R
               PROVE  \E w \in R : w.claim = u.claim /\ w.to = Open
    OBVIOUS
  <2>1. CASE u.claim = v.claim
    BY <2>1, <1>2
  <2>2. CASE u.claim # v.claim
    <3>1. u \in S
      BY <2>2, <1>2
    <3>2. PICK w \in S : w.claim = u.claim /\ w.to = Open
      BY <3>1 DEF Partitions
    <3> QED BY <2>2, <3>2
  <2> QED BY <2>1, <2>2
<1>8. Partitions(R)
  <2> HIDE DEF R
  <2> QED BY <1>4, <1>5, <1>6, <1>7 DEF Partitions
<1> QED BY <1>8 DEF a, b

\* New claims get one open version each (complete_attempt).
LEMMA ExtractKeepsPartitions ==
  ASSUME TypeOK, Timelines,
         NEW s \in Sources, NEW cs \in SUBSET ClaimIds, NEW t \in Times,
         Extract(s, cs, t)
  PROVE  Partitions(versions')
<1> DEFINE New(c) == [claim |-> c, key |-> Initial, status |-> "candidate",
                      from |-> t, to |-> Open]
<1> USE TimesAreNat
<1>1. versions' = versions \cup {New(c) : c \in {d \in cs : ~Stored(d)}}
  BY DEF Extract
<1>2. \A v \in versions' : v \in versions \/ (/\ v = New(v.claim)
                                              /\ ~Stored(v.claim))
  BY <1>1
<1>3. \A v \in versions' \ versions : v.from < v.to /\ v.to = Open
  BY <1>2
<1>4. \A v, w \in versions' : v.claim = w.claim /\ v # w => v \in versions /\ w \in versions
  BY <1>2 DEF Stored
<1>5. versions \subseteq versions'
  BY <1>1
<1> HIDE DEF New
<1> QED BY <1>3, <1>4, <1>5 DEF Timelines, Partitions

\* Every step of the service keeps the timelines partitioned.
LEMMA TimelinesStep == TypeOK /\ Timelines /\ [Next]_vars => Timelines'
<1> SUFFICES ASSUME TypeOK, Timelines, [Next]_vars PROVE Partitions(versions')
  BY DEF Timelines, Partitions
<1> USE TimelinesArePartitions
<1>1. ASSUME NEW s \in Sources, NEW cs \in SUBSET ClaimIds, NEW t \in Times, Extract(s, cs, t)
      PROVE  Partitions(versions')
  BY <1>1, ExtractKeepsPartitions
<1>2. ASSUME NEW s \in Sources, Forget(s)
      PROVE  Partitions(versions')
  <2>1. \A v \in versions' : v \in versions
    BY <1>2 DEF Forget
  <2>2. \A v \in versions', w \in versions : w.claim = v.claim => w \in versions'
    BY <1>2 DEF Forget
  <2> QED BY <2>1, <2>2 DEF Partitions
<1>3. ASSUME NEW c \in ClaimIds, NEW k \in Keys, NEW t \in Times,
             NEW target \in Statuses \ {"candidate"}, Transition(c, k, target, t)
      PROVE  Partitions(versions')
  <2>1. PICK v \in Current(c) :
          /\ Follows(v, t)
          /\ versions' = (versions \ {v}) \cup {Closed(v, t), Opened(v, k, target, t)}
    BY <1>3 DEF Transition
  <2>2. v \in versions /\ v.to = Open /\ v.from < t
    BY <2>1 DEF Current, Follows
  <2>3. k \in AuditKeys /\ target \in Statuses /\ versions \in SUBSET Version
    BY LifecycleAssumption DEF TypeOK
  <2> QED BY <2>1, <2>2, <2>3, AdvanceKeepsPartitions
<1>4. ASSUME NEW c \in ClaimIds, NEW d \in ClaimIds, NEW k \in Keys, NEW t \in Times,
             NEW target \in {"confirmed", "current"}, Correct(c, d, k, target, t)
      PROVE  Partitions(versions')
  <2> DEFINE r == ReplacementKey[k]
  <2>1. PICK v \in Current(c), w \in Current(d) :
          /\ Follows(v, t) /\ Follows(w, t)
          /\ versions' = (versions \ {v, w}) \cup
               {Closed(v, t), Opened(v, k, "superseded", t),
                Closed(w, t), Opened(w, r, target, t)}
    BY <1>4 DEF Correct
  <2>2. /\ v \in versions /\ v.to = Open /\ v.from < t /\ v.claim = c
        /\ w \in versions /\ w.to = Open /\ w.from < t /\ w.claim = d /\ c # d
    BY <1>4, <2>1 DEF Current, Follows, Correct
  <2>3. /\ k \in AuditKeys /\ r \in AuditKeys /\ versions \in SUBSET Version
        /\ target \in Statuses /\ "superseded" \in Statuses
    BY LifecycleAssumption DEF TypeOK, Statuses
  <2> HIDE DEF r
  <2> DEFINE half == (versions \ {v}) \cup {Closed(v, t), Opened(v, k, "superseded", t)}
  <2>4. Partitions(half)
    BY <2>2, <2>3, AdvanceKeepsPartitions
  <2>5. /\ Closed(v, t) \in Version /\ Closed(v, t).claim = c
        /\ Opened(v, k, "superseded", t) \in Version
        /\ Opened(v, k, "superseded", t).claim = c
    BY <2>2, <2>3 DEF Closed, Opened, Version
  <2>6. half \in SUBSET Version /\ w \in half
    BY <2>2, <2>3, <2>5
  <2>7. versions' = (half \ {w}) \cup {Closed(w, t), Opened(w, r, target, t)}
    BY <2>1, <2>2, <2>5
  <2> HIDE DEF half
  <2> QED BY <2>2, <2>3, <2>4, <2>6, <2>7, AdvanceKeepsPartitions
<1>5. CASE UNCHANGED vars
  BY <1>5 DEF vars
<1> QED BY <1>1, <1>2, <1>3, <1>4, <1>5 DEF Next

\* Transaction time of every stored claim is partitioned by its versions.
THEOREM TimelinesAlways == Spec => []Timelines
<1>1. Init => Timelines
  BY DEF Init, Timelines
<1>2. TypeOK /\ Timelines /\ [Next]_vars => Timelines'
  BY TimelinesStep
<1> QED BY <1>1, <1>2, TypeCorrect, PTL DEF Spec


-----------------------------------------------------------------------------
\* HistoriesAreLegal of an arbitrary set of versions.
Legal(S) ==
  /\ \A v \in S :
       /\ v.status = "candidate" <=> \A w \in S : w.claim = v.claim => v.from <= w.from
       /\ v.status \in {"superseded", "excluded"} => v.to = Open
       /\ v.status = "current" => v.claim \in Timed
       /\ v.status = "historical" => v.claim \in Ended
  /\ \A v, w \in S : v.claim = w.claim /\ v.to = w.from =>
       w.status \in Successors[v.status]

\* A permitted change of status keeps the histories legal (_require_transition
\* before _advance).
LEMMA AdvanceKeepsLegal ==
  ASSUME NEW S \in SUBSET Version, Partitions(S), Legal(S),
         NEW v \in S, v.to = Open,
         NEW t \in Times, v.from < t,
         NEW k \in AuditKeys, NEW x \in Statuses,
         MayBecome(v.claim, v.status, x)
  PROVE  Legal((S \ {v}) \cup {Closed(v, t), Opened(v, k, x, t)})
<1> DEFINE a == Closed(v, t)
           b == Opened(v, k, x, t)
           R == (S \ {v}) \cup {a, b}
<1> USE TimesAreNat
<1>1. \A u \in S : /\ u.from \in Nat /\ u.to \in Nat /\ u.from < Open /\ u.to <= Open
                   /\ u.status \in Statuses
  BY DEF Version
<1>2. /\ a.claim = v.claim /\ a.from = v.from /\ a.to = t /\ a.status = v.status
      /\ b.claim = v.claim /\ b.from = t /\ b.to = Open /\ b.status = x
  BY DEF Closed, Opened, Version
<1>3. \A u \in S \ {v} : u.claim = v.claim => u.to <= v.from /\ u.from < v.from
  BY <1>1 DEF Partitions
<1>4. /\ x # "candidate" /\ x \in Successors[v.status]
      /\ v.status \notin {"superseded", "excluded"}
      /\ x = "current" => v.claim \in Timed
      /\ x = "historical" => v.claim \in Ended
  <2>1. x \in Successors[v.status] /\ v.status \in Statuses
    BY <1>1 DEF MayBecome
  <2>2. x # "candidate" /\ v.status \notin {"superseded", "excluded"}
    BY <2>1 DEF Successors, Statuses
  <2> QED BY <2>1, <2>2 DEF MayBecome
<1> HIDE DEF a, b
<1>5. \A u \in R : u.status = "candidate" <=>
                    \A w \in R : w.claim = u.claim => u.from <= w.from
  <2> SUFFICES ASSUME NEW u \in R
               PROVE  u.status = "candidate" <=>
                      \A w \in R : w.claim = u.claim => u.from <= w.from
    OBVIOUS
  <2>1. CASE u.claim # v.claim
    <3>1. u \in S /\ \A w \in R : w.claim = u.claim => w \in S
      BY <2>1, <1>2
    <3>2. \A w \in S : w.claim = u.claim => w \in R
      BY <2>1
    <3> QED BY <3>1, <3>2 DEF Legal
  <2>2. CASE u = a
    <3>1. v.status = "candidate" <=> \A w \in S : w.claim = v.claim => v.from <= w.from
      BY DEF Legal
    <3>2. (\A w \in S : w.claim = v.claim => v.from <= w.from)
          <=> (\A w \in R : w.claim = v.claim => v.from <= w.from)
      BY <1>1, <1>2
    <3> QED BY <2>2, <3>1, <3>2, <1>2
  <2>3. CASE u = b
    <3>1. a \in R /\ a.claim = u.claim /\ ~(u.from <= a.from)
      BY <2>3, <1>1, <1>2
    <3> QED BY <2>3, <3>1, <1>2, <1>4
  <2>4. CASE u \in S \ {v} /\ u.claim = v.claim
    <3>1. u.status = "candidate" <=> \A w \in S : w.claim = u.claim => u.from <= w.from
      BY <2>4 DEF Legal
    <3>2. (\A w \in S : w.claim = u.claim => u.from <= w.from)
          <=> (\A w \in R : w.claim = u.claim => u.from <= w.from)
      BY <2>4, <1>1, <1>2, <1>3
    <3> QED BY <3>1, <3>2
  <2> QED BY <2>1, <2>2, <2>3, <2>4
<1>6. \A u \in R : /\ u.status \in {"superseded", "excluded"} => u.to = Open
                   /\ u.status = "current" => u.claim \in Timed
                   /\ u.status = "historical" => u.claim \in Ended
  BY <1>2, <1>4 DEF Legal
<1>7. \A u, w \in R : u.claim = w.claim /\ u.to = w.from =>
                      w.status \in Successors[u.status]
  <2> SUFFICES ASSUME NEW u \in R, NEW w \in R, u.claim = w.claim, u.to = w.from
               PROVE  w.status \in Successors[u.status]
    OBVIOUS
  <2>1. CASE u \in S \ {v} /\ w \in S \ {v}
    BY <2>1 DEF Legal
  <2>2. CASE u \in S \ {v} /\ w = a
    BY <2>2, <1>2 DEF Legal
  <2>3. CASE u = a /\ w = b
    BY <2>3, <1>2, <1>4
  <2>4. CASE u \in S \ {v} /\ w = b
    BY <2>4, <1>1, <1>2, <1>3
  <2>5. CASE u = a /\ w \in (S \ {v}) \cup {a}
    BY <2>5, <1>1, <1>2, <1>3
  <2>6. CASE u = b
    BY <2>6, <1>1, <1>2
  <2> QED BY <2>1, <2>2, <2>3, <2>4, <2>5, <2>6
<1>8. Legal(R)
  <2> HIDE DEF R
  <2> QED BY <1>5, <1>6, <1>7 DEF Legal
<1> QED BY <1>8 DEF a, b

\* Every step of the service keeps the histories legal.
LEMMA HistoriesStep ==
  TypeOK /\ Timelines /\ HistoriesAreLegal /\ [Next]_vars => HistoriesAreLegal'
<1> SUFFICES ASSUME TypeOK, Timelines, Legal(versions), [Next]_vars
             PROVE  Legal(versions')
  BY DEF HistoriesAreLegal, Legal
<1> USE TimelinesArePartitions
<1>1. ASSUME NEW s \in Sources, NEW cs \in SUBSET ClaimIds, NEW t \in Times, Extract(s, cs, t)
      PROVE  Legal(versions')
  <2> DEFINE New(c) == [claim |-> c, key |-> Initial, status |-> "candidate",
                        from |-> t, to |-> Open]
  <2>1. versions' = versions \cup {New(c) : c \in {d \in cs : ~Stored(d)}}
    BY <1>1 DEF Extract
  <2>2. \A v \in versions' : v \in versions \/ (v = New(v.claim) /\ ~Stored(v.claim))
    BY <2>1
  <2>3. \A v \in versions', w \in versions' : v.claim = w.claim =>
          \/ v \in versions /\ w \in versions
          \/ v = w /\ v = New(v.claim) /\ ~Stored(v.claim)
    BY <2>2 DEF Stored
  <2>4. \A v \in versions' : v \notin versions =>
          v.status = "candidate" /\ v.from = t /\ v.to = Open
    BY <2>2
  <2>5. versions \subseteq versions'
    BY <2>1
  <2> HIDE DEF New
  <2>6. t < Open /\ t \in Nat /\ Open \in Nat
    BY TimesAreNat
  <2> QED BY <2>3, <2>4, <2>5, <2>6 DEF Legal
<1>2. ASSUME NEW s \in Sources, Forget(s)
      PROVE  Legal(versions')
  <2>1. \A v \in versions' : v \in versions
    BY <1>2 DEF Forget
  <2>2. \A v \in versions', w \in versions : w.claim = v.claim => w \in versions'
    BY <1>2 DEF Forget
  <2> QED BY <2>1, <2>2 DEF Legal
<1>3. ASSUME NEW c \in ClaimIds, NEW k \in Keys, NEW t \in Times,
             NEW target \in Statuses \ {"candidate"}, Transition(c, k, target, t)
      PROVE  Legal(versions')
  <2>1. PICK v \in Current(c) :
          /\ Follows(v, t) /\ MayBecome(c, v.status, target)
          /\ versions' = (versions \ {v}) \cup {Closed(v, t), Opened(v, k, target, t)}
    BY <1>3 DEF Transition
  <2>2. v \in versions /\ v.to = Open /\ v.from < t /\ v.claim = c
    BY <2>1 DEF Current, Follows
  <2>3. k \in AuditKeys /\ target \in Statuses /\ versions \in SUBSET Version
    BY LifecycleAssumption DEF TypeOK
  <2> QED BY <2>1, <2>2, <2>3, AdvanceKeepsLegal
<1>4. ASSUME NEW c \in ClaimIds, NEW d \in ClaimIds, NEW k \in Keys, NEW t \in Times,
             NEW target \in {"confirmed", "current"}, Correct(c, d, k, target, t)
      PROVE  Legal(versions')
  <2> DEFINE r == ReplacementKey[k]
  <2>1. PICK v \in Current(c), w \in Current(d) :
          /\ Follows(v, t) /\ MayBecome(c, v.status, "superseded")
          /\ Follows(w, t) /\ MayBecome(d, w.status, target)
          /\ versions' = (versions \ {v, w}) \cup
               {Closed(v, t), Opened(v, k, "superseded", t),
                Closed(w, t), Opened(w, r, target, t)}
    BY <1>4 DEF Correct
  <2>2. /\ v \in versions /\ v.to = Open /\ v.from < t /\ v.claim = c
        /\ w \in versions /\ w.to = Open /\ w.from < t /\ w.claim = d /\ c # d
    BY <1>4, <2>1 DEF Current, Follows, Correct
  <2>3. /\ k \in AuditKeys /\ r \in AuditKeys /\ versions \in SUBSET Version
        /\ target \in Statuses /\ "superseded" \in Statuses
    BY LifecycleAssumption DEF TypeOK, Statuses
  <2> HIDE DEF r
  <2> DEFINE half == (versions \ {v}) \cup {Closed(v, t), Opened(v, k, "superseded", t)}
  <2>4. Partitions(half) /\ Legal(half)
    BY <2>1, <2>2, <2>3, AdvanceKeepsPartitions, AdvanceKeepsLegal
  <2>5. /\ Closed(v, t) \in Version /\ Closed(v, t).claim = c
        /\ Opened(v, k, "superseded", t) \in Version
        /\ Opened(v, k, "superseded", t).claim = c
    BY <2>2, <2>3 DEF Closed, Opened, Version
  <2>6. half \in SUBSET Version /\ w \in half
    BY <2>2, <2>3, <2>5
  <2>7. versions' = (half \ {w}) \cup {Closed(w, t), Opened(w, r, target, t)}
    BY <2>1, <2>2, <2>5
  <2> HIDE DEF half
  <2> QED BY <2>1, <2>2, <2>3, <2>4, <2>6, <2>7, AdvanceKeepsLegal
<1>5. CASE UNCHANGED vars
  BY <1>5 DEF vars
<1> QED BY <1>1, <1>2, <1>3, <1>4, <1>5 DEF Next

\* Statuses follow the transition matrix for ever.
THEOREM HistoriesAlwaysLegal == Spec => []HistoriesAreLegal
<1>1. Init => HistoriesAreLegal
  BY DEF Init, HistoriesAreLegal
<1>2. TypeOK /\ Timelines /\ HistoriesAreLegal /\ [Next]_vars => HistoriesAreLegal'
  BY HistoriesStep
<1> QED BY <1>1, <1>2, TypeCorrect, TimelinesAlways, PTL DEF Spec


-----------------------------------------------------------------------------
\* Evidence is kept of sources that are not deleted only (delete_source).
EvidenceIsLive == \A e \in evidence : e[2] \notin forgotten

LEMMA EvidenceStep == TypeOK /\ EvidenceIsLive /\ [Next]_vars => EvidenceIsLive'
<1> SUFFICES ASSUME TypeOK, EvidenceIsLive, [Next]_vars PROVE EvidenceIsLive'
  OBVIOUS
<1>1. ASSUME NEW s \in Sources, NEW cs \in SUBSET ClaimIds, NEW t \in Times, Extract(s, cs, t)
      PROVE  EvidenceIsLive'
  BY <1>1 DEF Extract, EvidenceIsLive
<1>2. ASSUME NEW s \in Sources, Forget(s)
      PROVE  EvidenceIsLive'
  BY <1>2 DEF Forget, EvidenceIsLive
<1>3. CASE UNCHANGED <<evidence, forgotten>>
  BY <1>3 DEF EvidenceIsLive
<1> QED BY <1>1, <1>2, <1>3 DEF Next, Transition, Correct, vars

\* A read as of an instant returns a claim once and with live support.
LEMMA SupportedAnswers == TypeOK /\ Timelines /\ EvidenceIsLive => AnswersAreSupported
<1> SUFFICES ASSUME TypeOK, Timelines, EvidenceIsLive, NEW at \in Times
             PROVE  /\ \A p, q \in Answer(at) : p.claim = q.claim => p = q
                    /\ \A p \in Answer(at) : p.support \cap forgotten = {} /\ p.support # {}
  BY DEF AnswersAreSupported
<1>1. ASSUME NEW p \in Answer(at)
      PROVE  \E v \in versions :
               /\ p = [claim |-> v.claim, status |-> v.status, from |-> v.from,
                       support |-> Support(v.claim, at)]
               /\ Recorded(v, at) /\ Support(v.claim, at) # {}
  BY DEF Answer
<1>2. \A v, w \in versions :
        Recorded(v, at) /\ Recorded(w, at) /\ v.claim = w.claim => v = w
  <2>1. \A v \in versions : v.from \in Nat /\ v.to \in Nat /\ at \in Nat
    BY TimesAreNat DEF TypeOK, Version
  <2> QED BY <2>1 DEF Timelines, Recorded
<1>3. \A c : Support(c, at) \cap forgotten = {}
  BY DEF Support, EvidenceIsLive
<1>4. ASSUME NEW p \in Answer(at), NEW q \in Answer(at), p.claim = q.claim
      PROVE  p = q
  <2>1. PICK v \in versions :
          /\ p = [claim |-> v.claim, status |-> v.status, from |-> v.from,
                  support |-> Support(v.claim, at)]
          /\ Recorded(v, at)
    BY <1>1
  <2>2. PICK w \in versions :
          /\ q = [claim |-> w.claim, status |-> w.status, from |-> w.from,
                  support |-> Support(w.claim, at)]
          /\ Recorded(w, at)
    BY <1>1
  <2>3. v = w
    BY <1>2, <1>4, <2>1, <2>2
  <2> QED BY <2>1, <2>2, <2>3
<1>5. ASSUME NEW p \in Answer(at)
      PROVE  p.support \cap forgotten = {} /\ p.support # {}
  BY <1>1, <1>3, <1>5
<1> QED BY <1>4, <1>5

\* Every answer as of every instant is supported, at every moment.
THEOREM AnswersAlwaysSupported == Spec => []AnswersAreSupported
<1>1. Init => EvidenceIsLive
  BY DEF Init, EvidenceIsLive
<1>2. TypeOK /\ EvidenceIsLive /\ [Next]_vars => EvidenceIsLive'
  BY EvidenceStep
<1>3. TypeOK /\ Timelines /\ EvidenceIsLive => AnswersAreSupported
  BY SupportedAnswers
<1> QED BY <1>1, <1>2, <1>3, TypeCorrect, TimelinesAlways, PTL DEF Spec

-----------------------------------------------------------------------------
\* A key names one version of a claim, and only first versions are candidates.
Named(S) ==
  /\ \A v, w \in S : v.claim = w.claim /\ v.key = w.key => v = w
  /\ \A v \in S : v.status = "candidate" => v.key = Initial

\* The parts of AuditTrail that relate versions S to audit rows T.
Joins(S, T) ==
  \A a \in T : \E v, w \in S :
    /\ v.claim = a.claim /\ v.key = a.before /\ v.to = a.at
    /\ w.claim = a.claim /\ w.key = a.key /\ w.from = a.at /\ w.status = a.target

Explained(S, T) ==
  \A v \in S : v.key # Initial =>
    (\E a \in T : a.claim = v.claim /\ a.key = v.key) \/ v.status = "superseded"

\* Every version of S is still in R: nothing of it changed, unless it was open.
Carries(S, R) ==
  \A u \in S : \E z \in R :
    /\ z.claim = u.claim /\ z.key = u.key /\ z.from = u.from /\ z.status = u.status
    /\ u.to # Open => z.to = u.to

LEMMA CarriesKeepsJoins ==
  ASSUME NEW S, NEW R, NEW T \in SUBSET Audit, Carries(S, R), Joins(S, T)
  PROVE  Joins(R, T)
<1> SUFFICES ASSUME NEW a \in T
             PROVE  \E v, w \in R :
                      /\ v.claim = a.claim /\ v.key = a.before /\ v.to = a.at
                      /\ w.claim = a.claim /\ w.key = a.key /\ w.from = a.at
                      /\ w.status = a.target
  BY DEF Joins
<1>1. PICK v \in S, w \in S :
        /\ v.claim = a.claim /\ v.key = a.before /\ v.to = a.at
        /\ w.claim = a.claim /\ w.key = a.key /\ w.from = a.at /\ w.status = a.target
  BY DEF Joins
<1>2. v.to # Open
  <2>1. a.at \in Times
    BY DEF Audit
  <2> QED BY <1>1, <2>1, TimesAreNat
<1>3. PICK y \in R : y.claim = v.claim /\ y.key = v.key /\ y.to = v.to
  BY <1>2 DEF Carries
<1>4. PICK z \in R :
        z.claim = w.claim /\ z.key = w.key /\ z.from = w.from /\ z.status = w.status
  BY DEF Carries
<1> QED BY <1>1, <1>3, <1>4

\* What _advance does to the version table.
LEMMA AdvanceCarries ==
  ASSUME NEW S \in SUBSET Version, NEW v \in S, v.to = Open, NEW t, NEW k, NEW x,
         Named(S), x # "candidate",
         \A u \in S : ~(u.claim = v.claim /\ u.key = k)
  PROVE  LET R == (S \ {v}) \cup {Closed(v, t), Opened(v, k, x, t)}
         IN /\ Carries(S, R)
            /\ Named(R)
            /\ \A z \in R : \/ z = Opened(v, k, x, t)
                            \/ \E u \in S : /\ u.claim = z.claim /\ u.key = z.key
                                            /\ u.status = z.status
            /\ Closed(v, t).claim = v.claim /\ Closed(v, t).key = v.key
            /\ Closed(v, t).to = t
            /\ Opened(v, k, x, t).claim = v.claim /\ Opened(v, k, x, t).key = k
            /\ Opened(v, k, x, t).from = t /\ Opened(v, k, x, t).status = x
<1> DEFINE a == Closed(v, t)
           b == Opened(v, k, x, t)
           R == (S \ {v}) \cup {a, b}
<1>1. /\ a.claim = v.claim /\ a.key = v.key /\ a.from = v.from /\ a.to = t
      /\ a.status = v.status
      /\ b.claim = v.claim /\ b.key = k /\ b.from = t /\ b.status = x
  BY DEF Closed, Opened, Version
<1> HIDE DEF a, b
<1>2. Carries(S, R)
  BY <1>1 DEF Carries
<1>3. Named(R)
  <2>1. ASSUME NEW y \in R, NEW z \in R, y.claim = z.claim, y.key = z.key
        PROVE  y = z
    BY <1>1, <2>1 DEF Named
  <2>2. ASSUME NEW z \in R, z.status = "candidate"
        PROVE  z.key = Initial
    BY <1>1, <2>2 DEF Named
  <2> QED BY <2>1, <2>2 DEF Named
<1>4. \A z \in R : \/ z = b
                   \/ \E u \in S : u.claim = z.claim /\ u.key = z.key /\ u.status = z.status
  BY <1>1
<1> QED BY <1>1, <1>2, <1>3, <1>4 DEF a, b

\* A key that no audit row has is new to every claim that can still change: only
\* superseded versions outlive their audit row.
LEMMA UnusedKeyIsNew ==
  ASSUME TypeOK, Timelines, HistoriesAreLegal, AuditTrail,
         NEW c, NEW v \in Current(c), NEW x, MayBecome(c, v.status, x),
         NEW k \in AuditKeys, ~Used(k)
  PROVE  \A u \in versions : ~(u.claim = c /\ u.key = k)
<1> SUFFICES ASSUME NEW u \in versions, u.claim = c, u.key = k PROVE FALSE
  OBVIOUS
<1>1. u.status = "superseded"
  BY LifecycleAssumption DEF AuditTrail, Used
<1>2. v \in versions /\ v.claim = c /\ v.to = Open /\ u.to = Open
  BY <1>1 DEF Current, HistoriesAreLegal
<1>3. u = v
  <2>1. /\ u.from \in Nat /\ v.from \in Nat /\ Open \in Nat
        /\ u.from < Open /\ v.from < Open
    BY <1>2, TimesAreNat DEF TypeOK, Version
  <2> QED BY <1>2, <2>1 DEF Timelines
<1> QED BY <1>1, <1>3 DEF MayBecome, Successors

\* AuditTrail by its parts.
LEMMA AuditParts ==
  AuditTrail <=>
    /\ Joins(versions, transitions)
    /\ Explained(versions, transitions)
    /\ \A a, b \in transitions : a.key = b.key => a = b
    /\ \A e \in announced : \E a \in transitions :
         a.key = e.key /\ a.claim = e.claim /\ a.replacement = e.replacement
    /\ \A a \in transitions :
         \/ \E e \in announced : e.key = a.key
         \/ \E k \in Keys : ReplacementKey[k] = a.key
    /\ CorrectionsArePaired
  BY DEF AuditTrail, Joins, Explained

\* _advance with the audit row it inserts.
LEMMA AdvanceKeepsAudit ==
  ASSUME NEW S \in SUBSET Version, NEW T \in SUBSET Audit,
         Joins(S, T), Explained(S, T), Named(S),
         NEW v \in S, v.to = Open, NEW t \in Times, NEW k \in AuditKeys,
         NEW x \in Statuses \ {"candidate"}, NEW d \in ClaimIds \cup {NoClaim},
         \A u \in S : ~(u.claim = v.claim /\ u.key = k)
  PROVE  LET R == (S \ {v}) \cup {Closed(v, t), Opened(v, k, x, t)}
             U == T \cup {AuditOf(v, k, x, t, d)}
         IN Joins(R, U) /\ Explained(R, U) /\ Named(R)
<1> DEFINE a == Closed(v, t)
           b == Opened(v, k, x, t)
           r == AuditOf(v, k, x, t, d)
           R == (S \ {v}) \cup {a, b}
           U == T \cup {r}
<1>1. /\ Carries(S, R) /\ Named(R)
      /\ \A z \in R : \/ z = b
                      \/ \E u \in S : u.claim = z.claim /\ u.key = z.key /\ u.status = z.status
      /\ a.claim = v.claim /\ a.key = v.key /\ a.to = t
      /\ b.claim = v.claim /\ b.key = k /\ b.from = t /\ b.status = x
  BY AdvanceCarries
<1>2. r.claim = v.claim /\ r.before = v.key /\ r.key = k /\ r.at = t /\ r.target = x
  BY DEF AuditOf
<1> HIDE DEF a, b, r
<1>3. Joins(R, T)
  BY <1>1, CarriesKeepsJoins
<1>4. Joins(R, U)
  BY <1>1, <1>2, <1>3 DEF Joins
<1>5. Explained(R, U)
  BY <1>1, <1>2 DEF Explained
<1> QED BY <1>1, <1>4, <1>5 DEF a, b, r

\* The parts that _advance does not touch, when rows and an event are added.
LEMMA NewEventKeepsTrail ==
  ASSUME AuditTrail, NEW k \in Keys, ~Used(k), \A e \in announced : e.key # k,
         NEW new, NEW r \in new, r.key = k, r.replacement \in ClaimIds \cup {NoClaim},
         \A a, b \in new : a.key = b.key => a = b,
         \A a \in new : ~Used(a.key),
         \A a \in new : a = r \/ a.key = ReplacementKey[k],
         transitions' = transitions \cup new,
         announced' = announced \cup
           {[key |-> k, claim |-> r.claim, replacement |-> r.replacement]}
  PROVE  /\ \A a, b \in transitions' : a.key = b.key => a = b
         /\ \A e \in announced' : \E a \in transitions' :
              a.key = e.key /\ a.claim = e.claim /\ a.replacement = e.replacement
         /\ \A a \in transitions' :
              \/ \E e \in announced' : e.key = a.key
              \/ \E i \in Keys : ReplacementKey[i] = a.key
<1> DEFINE n == [key |-> k, claim |-> r.claim, replacement |-> r.replacement]
<1>1. n.key = k /\ n.claim = r.claim /\ n.replacement = r.replacement /\ n \in announced'
  OBVIOUS
<1>2. announced' = announced \cup {n}
  OBVIOUS
<1> HIDE DEF n
<1>3. \A a, b \in transitions' : a.key = b.key => a = b
  BY DEF AuditTrail, Used
<1>4. \A e \in announced' : \E a \in transitions' :
        a.key = e.key /\ a.claim = e.claim /\ a.replacement = e.replacement
  BY <1>1, <1>2 DEF AuditTrail
<1>5. \A a \in transitions' :
        \/ \E e \in announced' : e.key = a.key
        \/ \E i \in Keys : ReplacementKey[i] = a.key
  <2> SUFFICES ASSUME NEW a \in transitions'
               PROVE  \/ \E e \in announced' : e.key = a.key
                      \/ \E i \in Keys : ReplacementKey[i] = a.key
    OBVIOUS
  <2>1. CASE a \in transitions
    BY <1>2, <2>1 DEF AuditTrail
  <2>2. CASE a \in new
    BY <1>1, <2>2
  <2> QED BY <2>1, <2>2
<1> QED BY <1>3, <1>4, <1>5

LEMMA AuditStep ==
  TypeOK /\ Timelines /\ HistoriesAreLegal /\ AuditTrail /\ Named(versions) /\ [Next]_vars
    => AuditTrail' /\ Named(versions')
<1> SUFFICES ASSUME TypeOK, Timelines, HistoriesAreLegal, AuditTrail, Named(versions),
                    [Next]_vars
             PROVE  AuditTrail' /\ Named(versions')
  OBVIOUS
<1>0. /\ versions \in SUBSET Version /\ transitions \in SUBSET Audit
      /\ Joins(versions, transitions) /\ Explained(versions, transitions)
  BY AuditParts DEF TypeOK
<1>A. AuditTrail' <=>
        /\ Joins(versions', transitions')
        /\ Explained(versions', transitions')
        /\ \A a, b \in transitions' : a.key = b.key => a = b
        /\ \A e \in announced' : \E a \in transitions' :
             a.key = e.key /\ a.claim = e.claim /\ a.replacement = e.replacement
        /\ \A a \in transitions' :
             \/ \E e \in announced' : e.key = a.key
             \/ \E k \in Keys : ReplacementKey[k] = a.key
        /\ CorrectionsArePaired'
  BY DEF AuditTrail, Joins, Explained
<1>1. ASSUME NEW s \in Sources, NEW cs \in SUBSET ClaimIds, NEW t \in Times, Extract(s, cs, t)
      PROVE  AuditTrail' /\ Named(versions')
  <2> DEFINE New(c) == [claim |-> c, key |-> Initial, status |-> "candidate",
                        from |-> t, to |-> Open]
  <2>1. /\ versions' = versions \cup {New(c) : c \in {d \in cs : ~Stored(d)}}
        /\ transitions' = transitions /\ announced' = announced
    BY <1>1 DEF Extract
  <2>2. \A v \in versions' : v \in versions \/ (v = New(v.claim) /\ ~Stored(v.claim))
    BY <2>1
  <2>3. \A v \in versions' : v \notin versions => v.key = Initial
    BY <2>2
  <2>4. versions \subseteq versions'
    BY <2>1
  <2>5. \A v, w \in versions' : v.claim = w.claim /\ v.key = w.key => v = w
    BY <2>2 DEF Named, Stored
  <2> HIDE DEF New
  <2>6. Named(versions')
    BY <2>3, <2>5 DEF Named
  <2>7. Joins(versions', transitions') /\ Explained(versions', transitions')
    BY <1>0, <2>1, <2>3, <2>4 DEF Joins, Explained
  <2>8. CorrectionsArePaired'
    BY <2>1 DEF AuditTrail, CorrectionsArePaired
  <2> QED BY <1>A, <2>1, <2>6, <2>7, <2>8 DEF AuditTrail
<1>2. ASSUME NEW s \in Sources, Forget(s)
      PROVE  AuditTrail' /\ Named(versions')
  <2> DEFINE gone == Retired(s)
  <2>1. /\ versions' = {v \in versions : v.claim \notin gone}
        /\ transitions' = {a \in transitions : ~Names(a, gone)}
        /\ announced' = {a \in announced : ~Names(a, gone)}
    BY <1>2 DEF Forget
  <2>2. NoClaim \notin gone
    BY LifecycleAssumption DEF Retired
  <2> HIDE DEF gone
  <2>3. Named(versions')
    BY <2>1 DEF Named
  <2>4. Joins(versions', transitions')
    BY <1>0, <2>1 DEF Joins, Names
  <2>5. Explained(versions', transitions')
    <3> SUFFICES ASSUME NEW v \in versions', v.key # Initial, v.status # "superseded"
                 PROVE  \E a \in transitions' : a.claim = v.claim /\ a.key = v.key
      BY DEF Explained
    <3>1. PICK a \in transitions : a.claim = v.claim /\ a.key = v.key
      BY <1>0, <2>1 DEF Explained
    <3>2. PICK w \in versions : w.claim = a.claim /\ w.key = a.key /\ w.status = a.target
      BY <1>0 DEF Joins
    <3>3. v = w
      BY <2>1, <3>1, <3>2 DEF Named
    <3>4. a.replacement = NoClaim
      BY <3>2, <3>3 DEF AuditTrail, CorrectionsArePaired
    <3> QED BY <2>1, <2>2, <3>1, <3>4 DEF Names
  <2>6. CorrectionsArePaired'
    <3> SUFFICES ASSUME NEW a \in transitions', a.replacement # NoClaim
                 PROVE  /\ a.target = "superseded" /\ a.key \in Keys
                        /\ \E b \in transitions' :
                             /\ b.key = ReplacementKey[a.key] /\ b.claim = a.replacement
                             /\ b.before = Initial /\ b.at = a.at
                             /\ b.target \in {"confirmed", "current"}
      BY DEF CorrectionsArePaired
    <3>1. a \in transitions /\ a.replacement \notin gone
      BY <2>1 DEF Names
    <3>2. /\ a.target = "superseded" /\ a.key \in Keys
          /\ \E b \in transitions :
               /\ b.key = ReplacementKey[a.key] /\ b.claim = a.replacement
               /\ b.before = Initial /\ b.at = a.at
               /\ b.target \in {"confirmed", "current"}
      BY <3>1 DEF AuditTrail, CorrectionsArePaired
    <3>3. PICK b \in transitions :
            /\ b.key = ReplacementKey[a.key] /\ b.claim = a.replacement
            /\ b.before = Initial /\ b.at = a.at
            /\ b.target \in {"confirmed", "current"}
      BY <3>2
    <3>4. b.replacement = NoClaim
      BY <3>3 DEF AuditTrail, CorrectionsArePaired
    <3>5. b \in transitions'
      BY <2>1, <2>2, <3>1, <3>3, <3>4 DEF Names
    <3> QED BY <3>2, <3>3, <3>5
  <2>7. \A e \in announced' : \E a \in transitions' :
          a.key = e.key /\ a.claim = e.claim /\ a.replacement = e.replacement
    BY <2>1 DEF AuditTrail, Names
  <2>8. \A a \in transitions' :
          \/ \E e \in announced' : e.key = a.key
          \/ \E k \in Keys : ReplacementKey[k] = a.key
    <3> SUFFICES ASSUME NEW a \in transitions', NEW e \in announced, e.key = a.key
                 PROVE  e \in announced'
      BY <2>1 DEF AuditTrail
    <3>1. PICK b \in transitions :
            b.key = e.key /\ b.claim = e.claim /\ b.replacement = e.replacement
      BY DEF AuditTrail
    <3>2. b = a
      BY <2>1, <3>1 DEF AuditTrail
    <3> QED BY <2>1, <3>1, <3>2 DEF Names
  <2>9. \A a, b \in transitions' : a.key = b.key => a = b
    BY <2>1 DEF AuditTrail
  <2> QED BY <1>A, <2>3, <2>4, <2>5, <2>6, <2>7, <2>8, <2>9
<1>3. ASSUME NEW c \in ClaimIds, NEW k \in Keys, NEW t \in Times,
             NEW target \in Statuses \ {"candidate"}, Transition(c, k, target, t)
      PROVE  AuditTrail' /\ Named(versions')
  <2>1. PICK v \in Current(c) :
          /\ MayBecome(c, v.status, target)
          /\ versions' = (versions \ {v}) \cup {Closed(v, t), Opened(v, k, target, t)}
          /\ transitions' = transitions \cup {AuditOf(v, k, target, t, NoClaim)}
    BY <1>3 DEF Transition
  <2> DEFINE r == AuditOf(v, k, target, t, NoClaim)
  <2>2. /\ v \in versions /\ v.to = Open /\ v.claim = c /\ k \in AuditKeys
        /\ ~Used(k) /\ \A a \in announced : a.key # k
        /\ announced' = announced \cup {[key |-> k, claim |-> c, replacement |-> NoClaim]}
    BY <1>3, LifecycleAssumption DEF Current, Transition
  <2>3. \A u \in versions : ~(u.claim = c /\ u.key = k)
    BY <2>1, <2>2, UnusedKeyIsNew
  <2>4. Joins(versions', transitions') /\ Explained(versions', transitions') /\ Named(versions')
    BY <1>0, <2>1, <2>2, <2>3, AdvanceKeepsAudit
  <2>5. r.key = k /\ r.claim = c /\ r.replacement = NoClaim
    BY <2>2 DEF AuditOf
  <2> DEFINE new == {r}
  <2>6. CorrectionsArePaired'
    BY <2>1, <2>5 DEF AuditTrail, CorrectionsArePaired
  <2>7. transitions' = transitions \cup new
    BY <2>1
  <2>8. /\ r \in new /\ r.replacement \in ClaimIds \cup {NoClaim}
        /\ \A a, b \in new : a.key = b.key => a = b
        /\ \A a \in new : ~Used(a.key)
        /\ \A a \in new : a = r \/ a.key = ReplacementKey[k]
    BY <2>2, <2>5
  <2> HIDE DEF new, r
  <2> QED BY <1>A, <2>2, <2>4, <2>5, <2>6, <2>7, <2>8, NewEventKeepsTrail
<1>4. ASSUME NEW c \in ClaimIds, NEW d \in ClaimIds, NEW k \in Keys, NEW t \in Times,
             NEW target \in {"confirmed", "current"}, Correct(c, d, k, target, t)
      PROVE  AuditTrail' /\ Named(versions')
  <2> DEFINE q == ReplacementKey[k]
  <2>1. PICK v \in Current(c), w \in Current(d) :
          /\ MayBecome(c, v.status, "superseded")
          /\ w.status = "candidate" /\ MayBecome(d, w.status, target)
          /\ versions' = (versions \ {v, w}) \cup
               {Closed(v, t), Opened(v, k, "superseded", t),
                Closed(w, t), Opened(w, q, target, t)}
          /\ transitions' = transitions \cup
               {AuditOf(v, k, "superseded", t, d), AuditOf(w, q, target, t, NoClaim)}
    BY <1>4 DEF Correct
  <2>2. /\ v \in versions /\ v.to = Open /\ v.claim = c
        /\ w \in versions /\ w.to = Open /\ w.claim = d /\ c # d
        /\ k \in AuditKeys /\ q \in AuditKeys /\ k # q
        /\ ~Used(k) /\ ~Used(q) /\ \A a \in announced : a.key # k
        /\ announced' = announced \cup {[key |-> k, claim |-> c, replacement |-> d]}
        /\ w.key = Initial
    BY <1>4, <2>1, LifecycleAssumption DEF Current, Correct, Named
  <2>3. /\ \A u \in versions : ~(u.claim = c /\ u.key = k)
        /\ \A u \in versions : ~(u.claim = d /\ u.key = q)
    BY <2>1, <2>2, UnusedKeyIsNew
  <2> HIDE DEF q
  <2> DEFINE r1 == AuditOf(v, k, "superseded", t, d)
             r2 == AuditOf(w, q, target, t, NoClaim)
             half == (versions \ {v}) \cup {Closed(v, t), Opened(v, k, "superseded", t)}
             T == transitions \cup {r1}
  <2>4. "superseded" \in Statuses \ {"candidate"} /\ target \in Statuses \ {"candidate"}
    BY DEF Statuses
  <2>5. Joins(half, T) /\ Explained(half, T) /\ Named(half)
    BY <1>0, <2>2, <2>3, <2>4, AdvanceKeepsAudit
  <2>6. /\ Closed(v, t) \in Version /\ Closed(v, t).claim = c
        /\ Opened(v, k, "superseded", t) \in Version
        /\ Opened(v, k, "superseded", t).claim = c
    BY <1>0, <2>2, <2>4 DEF Closed, Opened, Version
  <2>7. /\ half \in SUBSET Version /\ w \in half
        /\ \A u \in half : ~(u.claim = d /\ u.key = q)
    BY <1>0, <2>2, <2>3, <2>6
  <2>8. r1 \in Audit
    BY <1>0, <2>2, <2>4 DEF AuditOf, Audit, Version
  <2>9. versions' = (half \ {w}) \cup {Closed(w, t), Opened(w, q, target, t)}
    BY <2>1, <2>2, <2>6
  <2>10. transitions' = T \cup {r2}
    BY <2>1
  <2>11. /\ r1.key = k /\ r1.claim = c /\ r1.replacement = d /\ r1.target = "superseded"
         /\ r1.at = t
         /\ r2.key = q /\ r2.claim = d /\ r2.replacement = NoClaim /\ r2.before = Initial
         /\ r2.at = t /\ r2.target = target
    BY <2>2 DEF AuditOf
  <2> HIDE DEF half, r1, r2
  <2>12. Joins(versions', transitions') /\ Explained(versions', transitions') /\ Named(versions')
    <3>1. T \in SUBSET Audit
      BY <1>0, <2>8
    <3> HIDE DEF T
    <3> QED BY <2>2, <2>4, <2>5, <2>7, <2>9, <2>10, <3>1, AdvanceKeepsAudit DEF r2
  <2>13. CorrectionsArePaired'
    <3> SUFFICES ASSUME NEW a \in transitions', a.replacement # NoClaim
                 PROVE  /\ a.target = "superseded" /\ a.key \in Keys
                        /\ \E b \in transitions' :
                             /\ b.key = ReplacementKey[a.key] /\ b.claim = a.replacement
                             /\ b.before = Initial /\ b.at = a.at
                             /\ b.target \in {"confirmed", "current"}
      BY DEF CorrectionsArePaired
    <3>1. CASE a \in transitions
      BY <2>10, <3>1 DEF AuditTrail, CorrectionsArePaired
    <3>2. CASE a = r1
      BY <2>10, <2>11, <3>2 DEF q
    <3> QED BY <2>10, <2>11, <3>1, <3>2
  <2> DEFINE new == {r1, r2}
  <2>14. transitions' = transitions \cup new
    BY <2>10
  <2>15. /\ r1 \in new /\ r1.replacement \in ClaimIds \cup {NoClaim}
         /\ \A a, b \in new : a.key = b.key => a = b
         /\ \A a \in new : ~Used(a.key)
         /\ \A a \in new : a = r1 \/ a.key = ReplacementKey[k]
    BY <2>2, <2>11 DEF q
  <2> HIDE DEF new
  <2> QED BY <1>A, <2>2, <2>11, <2>12, <2>13, <2>14, <2>15, NewEventKeepsTrail
<1>5. CASE UNCHANGED vars
  BY <1>0, <1>5, <1>A DEF vars, AuditTrail, CorrectionsArePaired
<1> QED BY <1>1, <1>2, <1>3, <1>4, <1>5 DEF Next

\* At every moment the audit rows, the versions and the events tell the same
\* story, however transitions, corrections, extractions and deletions mix.
THEOREM AuditAlways == Spec => []AuditTrail
<1>1. Init => AuditTrail /\ Named(versions)
  BY DEF Init, AuditTrail, CorrectionsArePaired, Named
<1>2. TypeOK /\ Timelines /\ HistoriesAreLegal /\ (AuditTrail /\ Named(versions))
        /\ [Next]_vars => (AuditTrail /\ Named(versions))'
  BY AuditStep
<1> QED BY <1>1, <1>2, TypeCorrect, TimelinesAlways, HistoriesAlwaysLegal, PTL DEF Spec

-----------------------------------------------------------------------------
\* Answer(at) over an arbitrary set of versions.
AnswerFrom(S, at) ==
  {[claim |-> v.claim, status |-> v.status, from |-> v.from,
    support |-> Support(v.claim, at)] :
     v \in {u \in S : Recorded(u, at) /\ Support(u.claim, at) # {}}}

\* An advance at t is invisible to queries as of an earlier instant.
LEMMA AdvanceKeepsAnswers ==
  ASSUME NEW S \in SUBSET Version, NEW v \in S, v.to = Open,
         NEW t \in Times, NEW k, NEW x, NEW at \in Times, at < t
  PROVE  AnswerFrom((S \ {v}) \cup {Closed(v, t), Opened(v, k, x, t)}, at) = AnswerFrom(S, at)
<1> DEFINE a == Closed(v, t)
           b == Opened(v, k, x, t)
           R == (S \ {v}) \cup {a, b}
           Row(u) == [claim |-> u.claim, status |-> u.status, from |-> u.from,
                      support |-> Support(u.claim, at)]
           In(u) == Recorded(u, at) /\ Support(u.claim, at) # {}
<1>1. /\ a.claim = v.claim /\ a.from = v.from /\ a.to = t /\ a.status = v.status
      /\ b.from = t
  BY DEF Closed, Opened, Version
<1>2. /\ at \in Nat /\ t \in Nat /\ Open \in Nat /\ at < Open /\ v.from \in Nat
  BY TimesAreNat DEF Version
<1>3. ~In(b)
  BY <1>1, <1>2 DEF Recorded
<1>4. (In(a) <=> In(v)) /\ Row(a) = Row(v)
  BY <1>1, <1>2 DEF Recorded
<1> HIDE DEF a, b, Row, In
<1>5. {Row(u) : u \in {z \in R : In(z)}} = {Row(u) : u \in {z \in S : In(z)}}
  BY <1>3, <1>4
<1> QED BY <1>5 DEF AnswerFrom, Row, In, a, b

LEMMA AnswersStep ==
  ASSUME TypeOK, [Next]_vars,
         NEW z \in versions' \ versions, z.key # Initial, z.to = Open,
         NEW at \in Times, at < z.from
  PROVE  Answer(at)' = Answer(at)
<1>0. versions \in SUBSET Version
  BY DEF TypeOK
<1>1. ASSUME evidence' = evidence, AnswerFrom(versions', at) = AnswerFrom(versions, at)
      PROVE  Answer(at)' = Answer(at)
  BY <1>1 DEF Answer, AnswerFrom, Support
<1>2. ASSUME NEW s \in Sources, NEW cs \in SUBSET ClaimIds, NEW t \in Times, Extract(s, cs, t)
      PROVE  FALSE
  BY <1>2 DEF Extract
<1>3. ASSUME NEW s \in Sources, Forget(s)
      PROVE  FALSE
  BY <1>3 DEF Forget
<1>4. ASSUME NEW c \in ClaimIds, NEW k \in Keys, NEW t \in Times,
             NEW target \in Statuses \ {"candidate"}, Transition(c, k, target, t)
      PROVE  Answer(at)' = Answer(at)
  <2>1. PICK v \in Current(c) :
          versions' = (versions \ {v}) \cup {Closed(v, t), Opened(v, k, target, t)}
    BY <1>4 DEF Transition
  <2>2. v \in versions /\ v.to = Open
    BY <2>1 DEF Current
  <2>3. Closed(v, t).to = t /\ t # Open /\ Opened(v, k, target, t).from = t
    BY <1>0, <2>2, TimesAreNat DEF Closed, Opened, Version
  <2>4. at < t
    BY <2>1, <2>3
  <2>5. AnswerFrom(versions', at) = AnswerFrom(versions, at)
    BY <1>0, <2>1, <2>2, <2>4, AdvanceKeepsAnswers
  <2> QED BY <1>1, <1>4, <2>5 DEF Transition
<1>5. ASSUME NEW c \in ClaimIds, NEW d \in ClaimIds, NEW k \in Keys, NEW t \in Times,
             NEW target \in {"confirmed", "current"}, Correct(c, d, k, target, t)
      PROVE  Answer(at)' = Answer(at)
  <2> DEFINE r == ReplacementKey[k]
  <2>1. PICK v \in Current(c), w \in Current(d) :
          versions' = (versions \ {v, w}) \cup
               {Closed(v, t), Opened(v, k, "superseded", t),
                Closed(w, t), Opened(w, r, target, t)}
    BY <1>5 DEF Correct
  <2>2. /\ v \in versions /\ v.to = Open /\ v.claim = c
        /\ w \in versions /\ w.to = Open /\ w.claim = d /\ c # d
        /\ k \in AuditKeys /\ evidence' = evidence
    BY <1>5, <2>1, LifecycleAssumption DEF Current, Correct
  <2> HIDE DEF r
  <2>3. /\ Closed(v, t).to = t /\ Closed(w, t).to = t /\ t # Open
        /\ Opened(v, k, "superseded", t).from = t /\ Opened(w, r, target, t).from = t
    BY <1>0, <2>2, TimesAreNat DEF Closed, Opened, Version
  <2>4. at < t
    BY <2>1, <2>3
  <2> DEFINE half == (versions \ {v}) \cup {Closed(v, t), Opened(v, k, "superseded", t)}
  <2>5. /\ Closed(v, t) \in Version /\ Closed(v, t).claim = c
        /\ Opened(v, k, "superseded", t) \in Version
        /\ Opened(v, k, "superseded", t).claim = c
    BY <1>0, <2>2 DEF Closed, Opened, Version, Statuses
  <2>6. half \in SUBSET Version /\ w \in half
    BY <1>0, <2>2, <2>5
  <2>7. versions' = (half \ {w}) \cup {Closed(w, t), Opened(w, r, target, t)}
    BY <2>1, <2>2, <2>5
  <2>8. AnswerFrom(half, at) = AnswerFrom(versions, at)
    BY <1>0, <2>2, <2>4, AdvanceKeepsAnswers
  <2> HIDE DEF half
  <2>9. AnswerFrom(versions', at) = AnswerFrom(half, at)
    BY <2>2, <2>4, <2>6, <2>7, AdvanceKeepsAnswers
  <2> QED BY <1>1, <2>2, <2>8, <2>9
<1> QED BY <1>2, <1>3, <1>4, <1>5 DEF Next, vars

\* No transition and no correction rewrites what was answered as of an instant
\* before it: history can be asked for again.
THEOREM PastAlwaysStays == Spec => PastAnswersStay
<1>1. TypeOK /\ [Next]_vars =>
        [\A v \in versions' \ versions : v.key # Initial /\ v.to = Open =>
           \A at \in Times : at < v.from => Answer(at)' = Answer(at)]_vars
  BY AnswersStep
<1> QED BY <1>1, TypeCorrect, PTL DEF Spec, PastAnswersStay

=============================================================================
