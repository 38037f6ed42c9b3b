--------------------------- MODULE BeliefsProofs ---------------------------
(***************************************************************************)
(* Theorems of module Beliefs, for any evidence, verdicts, keys and clocks *)
(* and any number of decisions and resolutions.                            *)
(*                                                                         *)
(* A deletion is one action that rewinds, clears and replays, so most of   *)
(* what follows is about tables on their way: what one step of it does to  *)
(* versions, audit rows and events that fit together.                      *)
(***************************************************************************)
EXTENDS Beliefs, LifecycleProofs, FiniteSetTheorems, WellFoundedInduction

\* The keys of resolutions' rows are theirs alone.
LEMMA KeyFacts ==
  /\ \A k \in ResolutionKeys, c \in ClaimIds : ActionKey[<<k, c>>] \in Keys
  /\ Keys \subseteq AuditKeys /\ CallerKeys \subseteq Keys /\ Initial \notin AuditKeys
  /\ \A k \in ResolutionKeys, c \in ClaimIds, x \in CallerKeys :
       ActionKey[<<k, c>>] # x /\ ActionKey[<<k, c>>] # ReplacementKey[x]
  /\ \A k, l \in ResolutionKeys, c, d \in ClaimIds :
       ActionKey[<<k, c>>] = ActionKey[<<l, d>>] => k = l /\ c = d
  /\ \A x \in Keys : ReplacementKey[x] \in AuditKeys
<1>1. ActionKey \in [ResolutionKeys \X ClaimIds -> Keys]
  BY BeliefsAssumption
<1>2. \A k, l \in ResolutionKeys, c, d \in ClaimIds :
       /\ ActionKey[<<k, c>>] \notin CallerKeys \cup {ReplacementKey[x] : x \in CallerKeys}
       /\ ActionKey[<<k, c>>] = ActionKey[<<l, d>>] => k = l /\ c = d
  BY BeliefsAssumption
<1>3. CallerKeys \subseteq Keys
  BY BeliefsAssumption
<1>4. \A k \in ResolutionKeys, c \in ClaimIds : ActionKey[<<k, c>>] \in Keys
  BY <1>1
<1>5. Keys \subseteq AuditKeys /\ Initial \notin AuditKeys /\ \A x \in Keys : ReplacementKey[x] \in AuditKeys
  BY LifecycleAssumption
<1> QED BY <1>2, <1>3, <1>4, <1>5

-----------------------------------------------------------------------------
\* Versions S, audit rows T and events N that fit together.

\* CorrectionsArePaired of any audit rows; only callers correct.
Paired(T) ==
  \A a \in T : a.replacement # NoClaim =>
    /\ a.target = "superseded" /\ a.key \in CallerKeys
    /\ \E b \in T : /\ b.key = ReplacementKey[a.key] /\ b.claim = a.replacement
                    /\ b.before = Initial /\ b.at = a.at
                    /\ b.target \in {"confirmed", "current"}

AuditRows(T, N) ==
  /\ \A a, b \in T : a.key = b.key => a = b
  /\ \A e \in N : \E a \in T :
       a.key = e.key /\ a.claim = e.claim /\ a.replacement = e.replacement
  /\ \A a \in T : (\E e \in N : e.key = a.key) \/ (\E k \in Keys : ReplacementKey[k] = a.key)

Fits(S, T, N) ==
  /\ S \subseteq Version /\ T \subseteq Audit /\ N \subseteq Event
  /\ Partitions(S) /\ Legal(S) /\ Named(S)
  /\ Joins(S, T) /\ Explained(S, T)
  /\ AuditRows(T, N) /\ Paired(T)

LEMMA FittingTables ==
  TypeOK /\ Fits(versions, transitions, announced) => Timelines /\ HistoriesAreLegal /\ AuditTrail
<1> SUFFICES ASSUME TypeOK, Fits(versions, transitions, announced)
             PROVE  Timelines /\ HistoriesAreLegal /\ AuditTrail
  OBVIOUS
<1>1. Timelines /\ HistoriesAreLegal
  BY DEF Fits, Partitions, Timelines, Legal, HistoriesAreLegal
<1>2. CorrectionsArePaired
  BY KeyFacts DEF Fits, Paired, CorrectionsArePaired
<1> QED BY <1>1, <1>2, AuditParts DEF Fits, AuditRows

\* Every version of S is still in R, but for its end, which may be a new one where
\* it was open.
Keeps(S, R) ==
  \A v \in S : \E z \in R : z = [v EXCEPT !.to = z.to] /\ (v.to # Open => z = v)

LEMMA KeepsKeeps == ASSUME NEW S, NEW R, NEW U, Keeps(S, R), Keeps(R, U), S \subseteq Version
                    PROVE  Keeps(S, U)
<1> SUFFICES ASSUME NEW v \in S
             PROVE  \E z \in U : z = [v EXCEPT !.to = z.to] /\ (v.to # Open => z = v)
  BY DEF Keeps
<1>1. PICK y \in R : y = [v EXCEPT !.to = y.to] /\ (v.to # Open => y = v)
  BY DEF Keeps
<1>2. PICK z \in U : z = [y EXCEPT !.to = z.to] /\ (y.to # Open => z = y)
  BY DEF Keeps
<1>3. v \in Version
  OBVIOUS
<1>4. z = [v EXCEPT !.to = z.to]
  <2>1. [y EXCEPT !.to = z.to] = [v EXCEPT !.to = z.to]
    BY <1>1, <1>3 DEF Version
  <2> QED BY <1>2, <2>1
<1>5. v.to # Open => z = v
  BY <1>1, <1>2
<1> QED BY <1>4, <1>5

\* What is kept keeps its name.
LEMMA KeptNames == ASSUME NEW S \in SUBSET Version, NEW R, Keeps(S, R)
                   PROVE  Carries(S, R)
<1> SUFFICES ASSUME NEW u \in S
             PROVE  \E z \in R :
                      /\ z.claim = u.claim /\ z.key = u.key /\ z.from = u.from /\ z.status = u.status
                      /\ u.to # Open => z.to = u.to
  BY DEF Carries
<1>1. PICK z \in R : z = [u EXCEPT !.to = z.to] /\ (u.to # Open => z = u)
  BY DEF Keeps
<1>2. z.claim = u.claim /\ z.key = u.key /\ z.from = u.from /\ z.status = u.status
  <2>1. u \in Version
    OBVIOUS
  <2>2. \A x : LET y == [u EXCEPT !.to = x] IN
          y.claim = u.claim /\ y.key = u.key /\ y.from = u.from /\ y.status = u.status
    BY <2>1 DEF Version
  <2> QED BY <1>1, <2>2
<1> QED BY <1>1, <1>2

\* One move of a resolution (_advance with its row and its event).
LEMMA MoveFits ==
  ASSUME NEW S, NEW T, NEW N, Fits(S, T, N),
         NEW v \in S, v.to = Open, NEW t \in Times, v.from < t,
         NEW k \in Keys, NEW x \in Statuses, MayBecome(v.claim, v.status, x),
         \A u \in S : ~(u.claim = v.claim /\ u.key = k),
         \A a \in T : a.key # k
  PROVE  LET R == (S \ {v}) \cup {Closed(v, t), Opened(v, k, x, t)}
         IN /\ Fits(R, T \cup {AuditOf(v, k, x, t, NoClaim)},
                    N \cup {[key |-> k, claim |-> v.claim, replacement |-> NoClaim]})
            /\ Keeps(S, R)
<1> DEFINE R == (S \ {v}) \cup {Closed(v, t), Opened(v, k, x, t)}
           r == AuditOf(v, k, x, t, NoClaim)
           n == [key |-> k, claim |-> v.claim, replacement |-> NoClaim]
           U == T \cup {r}
           M == N \cup {n}
<1>0. /\ S \in SUBSET Version /\ T \in SUBSET Audit /\ N \in SUBSET Event
      /\ Partitions(S) /\ Legal(S) /\ Named(S) /\ Joins(S, T) /\ Explained(S, T)
      /\ AuditRows(T, N) /\ Paired(T)
  BY DEF Fits
<1>1. k \in AuditKeys /\ v \in Version
  BY <1>0, KeyFacts
<1>2. x # "candidate"
  <2>1. x \in Successors[v.status] /\ v.status \in Statuses
    BY <1>1 DEF MayBecome, Version
  <2> QED BY <2>1 DEF Successors, Statuses
<1>3. Partitions(R) /\ Legal(R)
  BY <1>0, <1>1, AdvanceKeepsPartitions, AdvanceKeepsLegal
<1>4. Joins(R, U) /\ Explained(R, U) /\ Named(R)
  BY <1>0, <1>1, <1>2, AdvanceKeepsAudit
<1>5. R \subseteq Version
  <2>1. Closed(v, t) \in Version
    BY <1>1 DEF Closed, Version
  <2>2. Opened(v, k, x, t) \in Version
    BY <1>1 DEF Opened, Version
  <2> QED BY <1>0, <2>1, <2>2
<1>6. r \in Audit /\ r.key = k /\ r.claim = v.claim /\ r.replacement = NoClaim
  BY <1>1 DEF AuditOf, Audit, Version
<1>7. n \in Event /\ n.key = k /\ n.claim = v.claim /\ n.replacement = NoClaim
  BY <1>1 DEF Event, Version
<1>8. U \subseteq Audit /\ M \subseteq Event
  BY <1>0, <1>6, <1>7
<1>9. AuditRows(U, M)
  <2> HIDE DEF r, n
  <2>1. \A a, b \in U : a.key = b.key => a = b
    BY <1>0, <1>6 DEF AuditRows
  <2>2. \A e \in M : \E a \in U :
          a.key = e.key /\ a.claim = e.claim /\ a.replacement = e.replacement
    BY <1>0, <1>6, <1>7 DEF AuditRows
  <2>3. \A a \in U : (\E e \in M : e.key = a.key) \/ (\E i \in Keys : ReplacementKey[i] = a.key)
    BY <1>0, <1>6, <1>7 DEF AuditRows
  <2> QED BY <2>1, <2>2, <2>3 DEF AuditRows
<1>10. Paired(U)
  <2> HIDE DEF r
  <2> QED BY <1>0, <1>6 DEF Paired
<1>11. Keeps(S, R)
  <2> SUFFICES ASSUME NEW u \in S
               PROVE  \E z \in R : z = [u EXCEPT !.to = z.to] /\ (u.to # Open => z = u)
    BY DEF Keeps
  <2>1. u \in Version
    BY <1>0
  <2>2. u = [u EXCEPT !.to = u.to]
    BY <2>1 DEF Version
  <2>3. CASE u # v
    BY <2>2, <2>3
  <2>4. CASE u = v
    <3>1. Closed(v, t) = [u EXCEPT !.to = Closed(v, t).to]
      BY <2>1, <2>4 DEF Closed, Version
    <3> QED BY <2>4, <3>1
  <2> QED BY <2>3, <2>4
<1> QED
  <2> HIDE DEF R, U, M
  <2>1. Fits(R, U, M)
    BY <1>3, <1>4, <1>5, <1>8, <1>9, <1>10 DEF Fits
  <2> QED BY <1>11, <2>1 DEF R, U, M

\* What _execute_actions adds for the versions A that a resolution moves.
KeyOf(k, v) == ActionKey[<<k, v.claim>>]
MovedVersions(S, A, k, acts, t) ==
  (S \ A) \cup {Closed(v, t) : v \in A} \cup {Opened(v, KeyOf(k, v), acts[v.claim], t) : v \in A}
MovedRows(A, k, acts, t) == {AuditOf(v, KeyOf(k, v), acts[v.claim], t, NoClaim) : v \in A}
MovedEvents(A, k) == {[key |-> KeyOf(k, v), claim |-> v.claim, replacement |-> NoClaim] : v \in A}

\* All moves of a resolution: it is about two claims.
LEMMA MovesFit ==
  ASSUME NEW S, NEW T, NEW N, Fits(S, T, N),
         NEW A \in SUBSET S, NEW c, NEW e, \A v \in A : v.claim \in {c, e},
         NEW k \in ResolutionKeys, NEW acts, NEW t \in Times,
         \A v \in A : /\ v.to = Open /\ v.from < t
                      /\ acts[v.claim] \in Statuses /\ MayBecome(v.claim, v.status, acts[v.claim])
                      /\ \A u \in S : ~(u.claim = v.claim /\ u.key = KeyOf(k, v))
                      /\ \A a \in T : a.key # KeyOf(k, v)
  PROVE  /\ Fits(MovedVersions(S, A, k, acts, t), T \cup MovedRows(A, k, acts, t),
                 N \cup MovedEvents(A, k))
         /\ Keeps(S, MovedVersions(S, A, k, acts, t))
<1> DEFINE K(v) == KeyOf(k, v)
           r(v) == AuditOf(v, K(v), acts[v.claim], t, NoClaim)
           n(v) == [key |-> K(v), claim |-> v.claim, replacement |-> NoClaim]
           a(v) == Closed(v, t)
           b(v) == Opened(v, K(v), acts[v.claim], t)
<1>0. S \in SUBSET Version /\ Partitions(S)
  BY DEF Fits
<1>1. \A v \in A : K(v) \in Keys
  <2> SUFFICES ASSUME NEW v \in A PROVE K(v) \in Keys
    OBVIOUS
  <2>1. v.claim \in ClaimIds
    BY <1>0 DEF Version
  <2> QED BY <2>1, KeyFacts DEF KeyOf
<1>2. \A v, w \in A : v.claim = w.claim => v = w
  <2> SUFFICES ASSUME NEW v \in A, NEW w \in A, v.claim = w.claim, v # w PROVE FALSE
    OBVIOUS
  <2>1. v.to <= w.from \/ w.to <= v.from
    BY DEF Fits, Partitions
  <2>2. v.from \in Times /\ w.from \in Times
    BY <1>0 DEF Version
  <2> QED BY <2>1, <2>2, TimesAreNat
<1>3. ASSUME NEW v \in S
      PROVE  a(v).claim = v.claim /\ b(v).claim = v.claim /\ b(v).key = K(v) /\ r(v).key = K(v)
  <2>1. v \in Version
    BY <1>0
  <2> QED BY <2>1 DEF Closed, Opened, AuditOf, Version
<1>4. /\ MovedVersions(S, A, k, acts, t) = (S \ A) \cup {a(v) : v \in A} \cup {b(v) : v \in A}
      /\ MovedRows(A, k, acts, t) = {r(v) : v \in A}
      /\ MovedEvents(A, k) = {n(v) : v \in A}
  BY DEF MovedVersions, MovedRows, MovedEvents
<1> HIDE DEF a, b, r, n, K
<1>5. CASE A = {}
  <2>1. MovedVersions(S, A, k, acts, t) = S /\ T \cup MovedRows(A, k, acts, t) = T
        /\ N \cup MovedEvents(A, k) = N
    BY <1>4, <1>5
  <2>2. Keeps(S, S)
    <3>1. \A v \in S : v = [v EXCEPT !.to = v.to]
      BY <1>0 DEF Version
    <3> QED BY <3>1 DEF Keeps
  <2> QED BY <2>1, <2>2
<1>6. ASSUME NEW v \in A
      PROVE  /\ Fits((S \ {v}) \cup {a(v), b(v)}, T \cup {r(v)}, N \cup {n(v)})
             /\ Keeps(S, (S \ {v}) \cup {a(v), b(v)})
  BY <1>1, MoveFits DEF a, b, r, n, K
<1>7. ASSUME NEW v \in A, A = {v}
      PROVE  /\ Fits(MovedVersions(S, A, k, acts, t), T \cup MovedRows(A, k, acts, t),
                     N \cup MovedEvents(A, k))
             /\ Keeps(S, MovedVersions(S, A, k, acts, t))
  <2>1. /\ MovedVersions(S, A, k, acts, t) = (S \ {v}) \cup {a(v), b(v)}
        /\ MovedRows(A, k, acts, t) = {r(v)} /\ MovedEvents(A, k) = {n(v)}
    BY <1>4, <1>7
  <2> QED BY <1>6, <2>1
<1>8. ASSUME NEW v \in A, NEW w \in A, v # w, A = {v, w}
      PROVE  /\ Fits(MovedVersions(S, A, k, acts, t), T \cup MovedRows(A, k, acts, t),
                     N \cup MovedEvents(A, k))
             /\ Keeps(S, MovedVersions(S, A, k, acts, t))
  <2> DEFINE R == (S \ {v}) \cup {a(v), b(v)}
             U == T \cup {r(v)}
             M == N \cup {n(v)}
  <2>1. v.claim # w.claim /\ v.claim \in ClaimIds /\ w.claim \in ClaimIds
    BY <1>0, <1>2, <1>8 DEF Version
  <2>2. K(v) # K(w)
    BY <2>1, KeyFacts DEF K, KeyOf
  <2>3. Fits(R, U, M) /\ Keeps(S, R)
    BY <1>6
  <2>4. /\ w \in R /\ a(v) # w /\ b(v) # w
        /\ \A u \in R : ~(u.claim = w.claim /\ u.key = K(w))
        /\ \A x \in U : x.key # K(w)
    BY <1>3, <1>8, <2>1, <2>2 DEF K
  <2> HIDE DEF R, U, M
  <2> DEFINE R2 == (R \ {w}) \cup {a(w), b(w)}
             U2 == U \cup {r(w)}
             M2 == M \cup {n(w)}
  <2>5. Fits(R2, U2, M2) /\ Keeps(R, R2)
    BY <1>1, <2>3, <2>4, MoveFits DEF a, b, r, n, K
  <2>6. /\ MovedVersions(S, A, k, acts, t) = R2
        /\ T \cup MovedRows(A, k, acts, t) = U2 /\ N \cup MovedEvents(A, k) = M2
    <3>1. (R \ {w}) = (S \ A) \cup {a(v), b(v)}
      BY <1>8, <2>4 DEF R
    <3>2. MovedVersions(S, A, k, acts, t) = R2
      BY <1>4, <1>8, <3>1
    <3>3. T \cup MovedRows(A, k, acts, t) = U2 /\ N \cup MovedEvents(A, k) = M2
      BY <1>4, <1>8 DEF U, M
    <3> QED BY <3>2, <3>3
  <2>7. Keeps(S, R2)
    BY <1>0, <2>3, <2>5, KeepsKeeps
  <2> HIDE DEF R2, U2, M2
  <2> QED BY <2>5, <2>6, <2>7
<1>9. \/ A = {} \/ \E v \in A : A = {v}
      \/ \E v, w \in A : v # w /\ A = {v, w}
  <2>1. ASSUME NEW v \in A, A # {v}
        PROVE  \E w \in A : v # w /\ A = {v, w}
    <3>1. PICK w \in A : w # v
      BY <2>1
    <3>2. ASSUME NEW u \in A PROVE u \in {v, w}
      <4>1. v.claim # w.claim
        BY <1>2, <3>1
      <4>2. u.claim = v.claim \/ u.claim = w.claim
        BY <4>1
      <4> QED BY <1>2, <4>2
    <3> QED BY <3>1, <3>2
  <2> QED BY <2>1
<1> QED BY <1>5, <1>7, <1>8, <1>9

-----------------------------------------------------------------------------
\* What the rewind leaves of tables, when it takes back the versions off.

Below(S, off) == {v \in S \ off : \E u \in off : u.claim = v.claim /\ u.from = v.to}
Uncovered(S, off) == (S \ (off \cup Below(S, off))) \cup {Closed(v, Open) : v \in Below(S, off)}
Unrelated(rows, off) == {a \in rows : \A v \in off : a.claim # v.claim \/ a.key # v.key}

\* Every set of numbers that is not empty has a least one.
LEMMA LeastNumber == ASSUME NEW B \in SUBSET Nat, B # {}
                     PROVE  \E n \in B : \A m \in B : n <= m
<1> DEFINE less == OpToRel(<, Nat)
<1>1. IsWellFoundedOn(less, Nat)
  BY NatLessThanWellFounded
<1>2. \A x, y \in Nat : x < y => <<x, y>> \in less
  BY Zenon DEF OpToRel
<1> HIDE DEF less
<1>3. PICK n \in B : \A m \in B : ~(<<m, n>> \in less)
  BY <1>1, WFMin
<1>4. \A m \in B : ~(m < n)
  BY <1>2, <1>3, Zenon
<1> QED BY <1>4

LEMMA RewindKeepsPartitions ==
  ASSUME NEW S \in SUBSET Version, Partitions(S), NEW off \in SUBSET S,
         \A v \in off, u \in S : u.claim = v.claim /\ v.from <= u.from => u \in off
  PROVE  /\ Partitions(Uncovered(S, off)) /\ Uncovered(S, off) \subseteq Version
         /\ \A v \in Below(S, off), w \in S \ off : w.claim = v.claim /\ w # v => w.to <= v.from
         /\ \A v \in Below(S, off) : v.to # Open
<1> DEFINE B == Below(S, off)
           a(v) == Closed(v, Open)
           R == Uncovered(S, off)
<1>0. \A u \in S : u.from \in Nat /\ u.to \in Nat /\ u.from < Open /\ u.to <= Open /\ u.from < u.to
  <2>1. \A u \in S : u.from \in Times /\ u.to \in Times \cup {Open}
    BY DEF Version
  <2> QED BY <2>1, TimesAreNat DEF Partitions
<1>1. \A u, w \in S : u.claim = w.claim /\ u # w => u.to <= w.from \/ w.to <= u.from
  BY DEF Partitions
<1>2. ASSUME NEW v \in S
      PROVE  /\ a(v).claim = v.claim /\ a(v).from = v.from /\ a(v).to = Open /\ a(v) \in Version
             /\ a(v).key = v.key /\ a(v).status = v.status
  <2>1. v \in Version
    OBVIOUS
  <2> QED BY <2>1 DEF Closed, Version
<1>3. \A v \in B : v \in S \ off /\ \E u \in off : u.claim = v.claim /\ u.from = v.to
  BY DEF Below
<1>4. R = (S \ (off \cup B)) \cup {a(v) : v \in B}
  BY DEF Uncovered
<1>5. \A v \in S \ off : v \notin B => ~\E u \in off : u.claim = v.claim /\ u.from = v.to
  BY DEF Below
<1> HIDE DEF B, R, a
<1>6. \A v \in B, w \in S \ off : w.claim = v.claim /\ w # v => w.to <= v.from
  <2> SUFFICES ASSUME NEW v \in B, NEW w \in S \ off, w.claim = v.claim, w # v, ~(w.to <= v.from)
               PROVE  FALSE
    BY <1>0, <1>3
  <2>1. v.to <= w.from
    BY <1>0, <1>1, <1>3
  <2>2. PICK u \in off : u.claim = v.claim /\ u.from = v.to
    BY <1>3
  <2> QED BY <2>1, <2>2
<1>7. \A v \in B : v.to # Open
  BY <1>0, <1>3
<1>8. \A v \in R : v.from < v.to
  BY <1>0, <1>2, <1>3, <1>4
<1>9. \A v, w \in R : v.claim = w.claim /\ v # w => v.to <= w.from \/ w.to <= v.from
  <2> SUFFICES ASSUME NEW v \in R, NEW w \in R, v.claim = w.claim, v # w
               PROVE  v.to <= w.from \/ w.to <= v.from
    OBVIOUS
  <2>1. CASE v \in S \ (off \cup B) /\ w \in S \ (off \cup B)
    BY <1>1, <2>1
  <2>2. ASSUME NEW x \in B, v = a(x), w \in S \ (off \cup B)
        PROVE  w.to <= v.from
    BY <1>2, <1>3, <1>6, <2>2
  <2>3. ASSUME NEW x \in B, w = a(x), v \in S \ (off \cup B)
        PROVE  v.to <= w.from
    BY <1>2, <1>3, <1>6, <2>3
  <2>4. ASSUME NEW x \in B, NEW y \in B, v = a(x), w = a(y)
        PROVE  FALSE
    <3>1. x # y /\ x \in S \ off /\ y \in S \ off /\ x.claim = y.claim
      BY <1>2, <1>3, <2>4
    <3>2. x.to <= y.from /\ y.to <= x.from
      BY <1>6, <3>1
    <3> QED BY <1>0, <3>1, <3>2
  <2> QED BY <1>4, <2>1, <2>2, <2>3, <2>4
<1>10. \A v \in S \ off : \E z \in R : z.claim = v.claim /\ z.from = v.from
  BY <1>2, <1>3, <1>4
<1>11. \A v \in R : v.to # Open => \E w \in R : w.claim = v.claim /\ w.from = v.to
  <2> SUFFICES ASSUME NEW v \in R, v.to # Open
               PROVE  \E w \in R : w.claim = v.claim /\ w.from = v.to
    OBVIOUS
  <2>1. v \in S \ (off \cup B)
    BY <1>2, <1>3, <1>4
  <2>2. PICK w \in S : w.claim = v.claim /\ w.from = v.to
    BY <2>1 DEF Partitions
  <2>3. w \notin off
    BY <1>5, <2>1, <2>2
  <2> QED BY <1>10, <2>2, <2>3
<1>12. \A v \in R : \E w \in R : w.claim = v.claim /\ w.to = Open
  <2> SUFFICES ASSUME NEW v \in R, \A w \in R : w.claim = v.claim => w.to # Open
               PROVE  FALSE
    OBVIOUS
  <2>1. v \in S \ off
    BY <1>2, <1>3, <1>4
  <2> DEFINE left(n) == \E w \in S \ off : w.claim = v.claim /\ n = Open - w.to
             L == {n \in Nat : left(n)}
  <2>2. Open - v.to \in L
    BY <1>0, <2>1, TimesAreNat
  <2>3. PICK n \in L : \A m \in L : n <= m
    <3> HIDE DEF L
    <3>1. L \subseteq Nat /\ L # {}
      BY <2>2 DEF L
    <3> QED BY <3>1, LeastNumber
  <2>4. PICK w \in S \ off : w.claim = v.claim /\ n = Open - w.to
    BY <2>3
  <2>5. \A x \in S \ off : x.claim = v.claim => x.to <= w.to
    <3> SUFFICES ASSUME NEW x \in S \ off, x.claim = v.claim PROVE x.to <= w.to
      OBVIOUS
    <3>1. Open - x.to \in L
      BY <1>0, TimesAreNat
    <3>2. Open - w.to <= Open - x.to
      BY <2>3, <2>4, <3>1
    <3> QED BY <1>0, <3>2, TimesAreNat
  <2>6. w \notin B
    BY <1>2, <1>4, <2>4
  <2>7. w \in R /\ w.to # Open
    BY <1>4, <2>4, <2>6
  <2>8. PICK x \in R : x.claim = w.claim /\ x.from = w.to
    BY <1>11, <2>7
  <2>9. PICK y \in S \ off : y.claim = x.claim /\ y.from = x.from
    BY <1>2, <1>3, <1>4
  <2>10. y.to <= w.to /\ y.from < y.to
    BY <1>0, <2>4, <2>5, <2>8, <2>9
  <2> QED BY <1>0, <2>4, <2>8, <2>9, <2>10
<1>13. Partitions(R)
  BY <1>8, <1>9, <1>11, <1>12 DEF Partitions
<1>14. R \subseteq Version
  BY <1>2, <1>3, <1>4
<1> QED BY <1>6, <1>7, <1>13, <1>14 DEF B, R

\* A row of the versions that are taken back, and only such a row, is gone.
LEMMA RewindFits ==
  ASSUME NEW S, NEW T, NEW N, Fits(S, T, N), NEW off \in SUBSET S,
         \A v \in off, u \in S : u.claim = v.claim /\ v.from <= u.from => u \in off,
         \A v \in off, x \in CallerKeys : v.key # x /\ v.key # ReplacementKey[x]
  PROVE  /\ Fits(Uncovered(S, off), Unrelated(T, off), Unrelated(N, off))
         /\ \A v \in S \ off : \E z \in Uncovered(S, off) : z = [v EXCEPT !.to = z.to]
         /\ \A v \in S \ off, u \in S \ off :
              u.claim = v.claim /\ u.from = v.to => v \in Uncovered(S, off)
<1> DEFINE B == Below(S, off)
           a(v) == Closed(v, Open)
           R == Uncovered(S, off)
           U == Unrelated(T, off)
           M == Unrelated(N, off)
<1>0. /\ S \in SUBSET Version /\ T \in SUBSET Audit /\ N \in SUBSET Event
      /\ Partitions(S) /\ Legal(S) /\ Named(S) /\ Joins(S, T) /\ Explained(S, T)
      /\ AuditRows(T, N) /\ Paired(T)
  BY DEF Fits
<1>1. /\ Partitions(R) /\ R \subseteq Version
      /\ \A v \in B, w \in S \ off : w.claim = v.claim /\ w # v => w.to <= v.from
      /\ \A v \in B : v.to # Open
  BY <1>0, RewindKeepsPartitions
<1>2. \A u \in S : u.from \in Nat /\ u.to \in Nat /\ u.from < Open /\ u.to <= Open /\ u.from < u.to
  <2>1. \A u \in S : u.from \in Times /\ u.to \in Times \cup {Open}
    BY <1>0 DEF Version
  <2> QED BY <1>0, <2>1, TimesAreNat DEF Partitions
<1>3. ASSUME NEW v \in S
      PROVE  /\ a(v).claim = v.claim /\ a(v).from = v.from /\ a(v).to = Open
             /\ a(v).key = v.key /\ a(v).status = v.status
             /\ a(v) = [v EXCEPT !.to = a(v).to] /\ v = [v EXCEPT !.to = v.to]
  <2>1. v \in Version
    BY <1>0
  <2> QED BY <2>1 DEF Closed, Version
<1>4. \A v \in B : v \in S \ off /\ \E u \in off : u.claim = v.claim /\ u.from = v.to
  BY DEF Below
<1>5. R = (S \ (off \cup B)) \cup {a(v) : v \in B}
  BY DEF Uncovered
<1>6. \A v \in S \ off : v \notin B => ~\E u \in off : u.claim = v.claim /\ u.from = v.to
  BY DEF Below
<1>7. /\ U \subseteq T /\ M \subseteq N
      /\ \A x \in T : x \in U <=> \A v \in off : x.claim # v.claim \/ x.key # v.key
      /\ \A x \in N : x \in M <=> \A v \in off : x.claim # v.claim \/ x.key # v.key
  BY DEF Unrelated
<1> HIDE DEF B, R, a, U, M
<1>8. \A v, u \in S : v.claim = u.claim /\ v.from = u.from => v = u
  BY <1>0, <1>2 DEF Partitions
<1>9. \A v \in S \ off : \E z \in R : z = [v EXCEPT !.to = z.to]
  BY <1>3, <1>4, <1>5
<1>10. \A v \in S \ off, u \in S \ off : u.claim = v.claim /\ u.from = v.to => v \in R
  BY <1>4, <1>5, <1>8
\* A version that is left, as it was but for its end.
<1>11. \A z \in R : \E v \in S \ off :
         /\ v.claim = z.claim /\ v.key = z.key /\ v.from = z.from /\ v.status = z.status
         /\ z = v \/ (v \in B /\ z = a(v) /\ z.to = Open)
  BY <1>3, <1>4, <1>5
<1>12. \A v \in S \ off : \E z \in R :
         z.claim = v.claim /\ z.key = v.key /\ z.from = v.from /\ z.status = v.status
  BY <1>3, <1>4, <1>5
<1>13. Legal(R)
  <2>1. ASSUME NEW z \in R
        PROVE  z.status = "candidate" <=> \A y \in R : y.claim = z.claim => z.from <= y.from
    <3>1. PICK v \in S \ off : v.claim = z.claim /\ v.from = z.from /\ v.status = z.status
      BY <1>11
    <3>2. v.status = "candidate" <=> \A w \in S : w.claim = v.claim => v.from <= w.from
      BY <1>0 DEF Legal
    <3>3. (\A w \in S : w.claim = v.claim => v.from <= w.from) =>
            \A y \in R : y.claim = z.claim => z.from <= y.from
      BY <1>11, <3>1
    <3>4. ASSUME \A y \in R : y.claim = z.claim => z.from <= y.from,
                 NEW w \in S, w.claim = v.claim, ~(v.from <= w.from)
          PROVE  FALSE
      <4>1. w \in off
        BY <1>12, <3>1, <3>4
      <4>2. w.from <= v.from
        BY <1>2, <3>4
      <4> QED BY <3>4, <4>1, <4>2
    <3> QED BY <3>1, <3>2, <3>3, <3>4
  <2>2. ASSUME NEW z \in R
        PROVE  /\ z.status \in {"superseded", "excluded"} => z.to = Open
               /\ z.status = "current" => z.claim \in Timed
               /\ z.status = "historical" => z.claim \in Ended
    BY <1>0, <1>11 DEF Legal
  <2>3. ASSUME NEW y \in R, NEW z \in R, y.claim = z.claim, y.to = z.from
        PROVE  z.status \in Successors[y.status]
    <3>1. PICK w \in S \ off : w.claim = z.claim /\ w.from = z.from /\ w.status = z.status
      BY <1>11
    <3>2. y.to # Open
      BY <1>2, <2>3, <3>1
    <3>3. y \in S
      BY <1>11, <3>2
    <3> QED BY <1>0, <2>3, <3>1, <3>3 DEF Legal
  <2> QED BY <2>1, <2>2, <2>3 DEF Legal
<1>14. Named(R)
  <2>1. ASSUME NEW y \in R, NEW z \in R, y.claim = z.claim, y.key = z.key
        PROVE  y = z
    <3>1. PICK v \in S \ off : /\ v.claim = y.claim /\ v.key = y.key
                               /\ y = v \/ (v \in B /\ y = a(v))
      BY <1>11
    <3>2. PICK w \in S \ off : /\ w.claim = z.claim /\ w.key = z.key
                               /\ z = w \/ (w \in B /\ z = a(w))
      BY <1>11
    <3>3. v = w
      BY <1>0, <2>1, <3>1, <3>2 DEF Named
    <3>4. v \in B => v \notin R
      <4>1. v \in B /\ v \in R => v \in {a(x) : x \in B}
        BY <1>5
      <4> QED BY <1>1, <1>3, <1>4, <4>1
    <3> QED BY <3>1, <3>2, <3>3, <3>4
  <2>2. ASSUME NEW z \in R, z.status = "candidate"
        PROVE  z.key = Initial
    BY <1>0, <1>11, <2>2 DEF Named
  <2> QED BY <2>1, <2>2 DEF Named
<1>15. Joins(R, U)
  <2> SUFFICES ASSUME NEW x \in U
               PROVE  \E v, w \in R : /\ v.claim = x.claim /\ v.key = x.before /\ v.to = x.at
                                      /\ w.claim = x.claim /\ w.key = x.key /\ w.from = x.at
                                      /\ w.status = x.target
    BY DEF Joins
  <2>1. PICK v \in S, w \in S :
          /\ v.claim = x.claim /\ v.key = x.before /\ v.to = x.at
          /\ w.claim = x.claim /\ w.key = x.key /\ w.from = x.at /\ w.status = x.target
    BY <1>0, <1>7 DEF Joins
  <2>2. w \notin off
    BY <1>7, <2>1
  <2>3. v \notin off
    <3>1. v.from <= w.from
      BY <1>2, <2>1
    <3> QED BY <2>1, <2>2, <3>1
  <2>4. v \in R
    BY <1>10, <2>1, <2>2, <2>3
  <2> QED BY <1>12, <2>1, <2>2, <2>4
<1>16. Explained(R, U)
  <2> SUFFICES ASSUME NEW z \in R, z.key # Initial, z.status # "superseded"
               PROVE  \E x \in U : x.claim = z.claim /\ x.key = z.key
    BY DEF Explained
  <2>1. PICK v \in S \ off : v.claim = z.claim /\ v.key = z.key /\ v.status = z.status
    BY <1>11
  <2>2. PICK x \in T : x.claim = v.claim /\ x.key = v.key
    BY <1>0, <2>1 DEF Explained
  <2>3. x \in U
    BY <1>0, <1>7, <2>1, <2>2 DEF Named
  <2> QED BY <2>1, <2>2, <2>3
<1>17. AuditRows(U, M)
  <2>1. \A x, y \in U : x.key = y.key => x = y
    BY <1>0, <1>7 DEF AuditRows
  <2>2. ASSUME NEW e \in M
        PROVE  \E x \in U : x.key = e.key /\ x.claim = e.claim /\ x.replacement = e.replacement
    BY <1>0, <1>7 DEF AuditRows
  <2>3. ASSUME NEW x \in U
        PROVE  (\E e \in M : e.key = x.key) \/ (\E k \in Keys : ReplacementKey[k] = x.key)
    <3>1. ASSUME NEW e \in N, e.key = x.key
          PROVE  e \in M
      <4>1. PICK y \in T : y.key = e.key /\ y.claim = e.claim
        BY <1>0 DEF AuditRows
      <4>2. y = x
        BY <1>0, <1>7, <3>1, <4>1 DEF AuditRows
      <4> QED BY <1>7, <3>1, <4>1, <4>2
    <3> QED BY <1>0, <1>7, <3>1 DEF AuditRows
  <2> QED BY <2>1, <2>2, <2>3 DEF AuditRows
<1>18. Paired(U)
  <2> SUFFICES ASSUME NEW x \in U, x.replacement # NoClaim
               PROVE  /\ x.target = "superseded" /\ x.key \in CallerKeys
                      /\ \E b \in U : /\ b.key = ReplacementKey[x.key] /\ b.claim = x.replacement
                                      /\ b.before = Initial /\ b.at = x.at
                                      /\ b.target \in {"confirmed", "current"}
    BY DEF Paired
  <2>1. /\ x.target = "superseded" /\ x.key \in CallerKeys
        /\ \E b \in T : /\ b.key = ReplacementKey[x.key] /\ b.claim = x.replacement
                        /\ b.before = Initial /\ b.at = x.at
                        /\ b.target \in {"confirmed", "current"}
    BY <1>0, <1>7 DEF Paired
  <2> QED BY <1>7, <2>1
<1>19. U \subseteq Audit /\ M \subseteq Event
  BY <1>0, <1>7
<1>20. Fits(R, U, M)
  BY <1>1, <1>13, <1>14, <1>15, <1>16, <1>17, <1>18, <1>19 DEF Fits
<1> QED BY <1>9, <1>10, <1>20 DEF R, U, M

Outside(S, gone) == {v \in S : v.claim \notin gone}
NotNaming(rows, gone) == {a \in rows : ~Names(a, gone)}

\* The retirement of claims takes their history and all rows that name them.
LEMMA ClearFits ==
  ASSUME NEW S, NEW T, NEW N, Fits(S, T, N), NEW gone, NoClaim \notin gone
  PROVE  Fits(Outside(S, gone), NotNaming(T, gone), NotNaming(N, gone))
<1> DEFINE R == Outside(S, gone)
           U == NotNaming(T, gone)
           M == NotNaming(N, gone)
<1>0. /\ S \in SUBSET Version /\ T \in SUBSET Audit /\ N \in SUBSET Event
      /\ Partitions(S) /\ Legal(S) /\ Named(S) /\ Joins(S, T) /\ Explained(S, T)
      /\ AuditRows(T, N) /\ Paired(T)
  BY DEF Fits
<1>1. /\ \A v : v \in R <=> v \in S /\ v.claim \notin gone
      /\ \A a : a \in U <=> a \in T /\ a.claim \notin gone /\ a.replacement \notin gone
      /\ \A e : e \in M <=> e \in N /\ e.claim \notin gone /\ e.replacement \notin gone
  BY DEF Names, Outside, NotNaming
<1> HIDE DEF R, U, M
<1>2. \A v \in R, w \in S : w.claim = v.claim => w \in R
  BY <1>1
<1>3. Partitions(R) /\ Legal(R) /\ Named(R)
  BY <1>0, <1>1, <1>2 DEF Partitions, Legal, Named
<1>4. Joins(R, U)
  BY <1>0, <1>1 DEF Joins
<1>5. Explained(R, U)
  <2> SUFFICES ASSUME NEW v \in R, v.key # Initial, v.status # "superseded"
               PROVE  \E a \in U : a.claim = v.claim /\ a.key = v.key
    BY DEF Explained
  <2>1. PICK a \in T : a.claim = v.claim /\ a.key = v.key
    BY <1>0, <1>1 DEF Explained
  <2>2. PICK w \in S : w.claim = a.claim /\ w.key = a.key /\ w.status = a.target
    BY <1>0 DEF Joins
  <2>3. v = w
    BY <1>0, <1>1, <2>1, <2>2 DEF Named
  <2>4. a.replacement = NoClaim
    BY <1>0, <2>2, <2>3 DEF Paired
  <2> QED BY <1>1, <2>1, <2>4
<1>6. Paired(U)
  <2> SUFFICES ASSUME NEW a \in U, a.replacement # NoClaim
               PROVE  /\ a.target = "superseded" /\ a.key \in CallerKeys
                      /\ \E b \in U : /\ b.key = ReplacementKey[a.key] /\ b.claim = a.replacement
                                      /\ b.before = Initial /\ b.at = a.at
                                      /\ b.target \in {"confirmed", "current"}
    BY DEF Paired
  <2>1. a \in T /\ a.target = "superseded" /\ a.key \in CallerKeys
    BY <1>0, <1>1 DEF Paired
  <2>2. PICK b \in T : /\ b.key = ReplacementKey[a.key] /\ b.claim = a.replacement
                       /\ b.before = Initial /\ b.at = a.at
                       /\ b.target \in {"confirmed", "current"}
    BY <1>0, <2>1 DEF Paired
  <2>3. b.replacement = NoClaim
    BY <1>0, <2>2 DEF Paired
  <2> QED BY <1>1, <2>1, <2>2, <2>3
<1>7. AuditRows(U, M)
  <2>1. \A a, b \in U : a.key = b.key => a = b
    BY <1>0, <1>1 DEF AuditRows
  <2>2. \A e \in M : \E a \in U :
          a.key = e.key /\ a.claim = e.claim /\ a.replacement = e.replacement
    BY <1>0, <1>1 DEF AuditRows
  <2>3. ASSUME NEW a \in U
        PROVE  (\E e \in M : e.key = a.key) \/ (\E k \in Keys : ReplacementKey[k] = a.key)
    <3>1. ASSUME NEW e \in N, e.key = a.key
          PROVE  e \in M
      <4>1. PICK b \in T : b.key = e.key /\ b.claim = e.claim /\ b.replacement = e.replacement
        BY <1>0 DEF AuditRows
      <4>2. b = a
        BY <1>0, <1>1, <3>1, <4>1 DEF AuditRows
      <4> QED BY <1>1, <3>1, <4>1, <4>2
    <3> QED BY <1>0, <1>1, <3>1 DEF AuditRows
  <2> QED BY <2>1, <2>2, <2>3 DEF AuditRows
<1>8. R \subseteq Version /\ U \subseteq Audit /\ M \subseteq Event
  BY <1>0, <1>1
<1>9. Fits(R, U, M)
  BY <1>3, <1>4, <1>5, <1>6, <1>7, <1>8 DEF Fits
<1> QED BY <1>9 DEF R, U, M

-----------------------------------------------------------------------------
\* Decisions D and resolutions Q that rest on versions S and evidence ev.

GoodDecision(d) ==
  /\ d.verdict \in Verdicts /\ d.asOf \in Times /\ d.classifiedAt \in Times
  /\ d.basis \in [Pair(d) -> AuditKeys \cup {Initial}]
  /\ d.cites \subseteq Pair(d) \X Sources
GoodResolution(r) ==
  /\ r.key \in ResolutionKeys /\ r.at \in Times
  /\ Acted(r) \subseteq Pair(r.decision)
  /\ r.acts \in [Acted(r) -> Statuses]
  /\ r.seen \subseteq Pair(r.decision) \X (Times \cup {Open})

BasisIn(S, d) == {v \in S : v.claim \in Pair(d) /\ v.key = d.basis[v.claim]}
ActedOn(S, r) == {v \in BasisIn(S, r.decision) : v.claim \in Acted(r)}
Based(S, d, ev) ==
  /\ d.cites \subseteq ev /\ {e[1] : e \in d.cites} = Pair(d)
  /\ {v.claim : v \in BasisIn(S, d)} = Pair(d)
\* Each act of r joins the version that was classified with the one it opened.
Enacted(S, r) ==
  \A c \in Acted(r) : \E v \in BasisIn(S, r.decision), w \in S :
    /\ v.claim = c /\ w.claim = c /\ Made(r, w)
    /\ v.to = r.at /\ w.from = r.at /\ w.status = r.acts[c]

Founded(S, D, Q, ev) ==
  /\ \A d \in D : GoodDecision(d) /\ Based(S, d, ev)
  /\ \A r \in Q : GoodResolution(r) /\ r.decision \in D /\ Enacted(S, r)
  /\ \A v \in S : (\E x \in ResolutionKeys \X ClaimIds : v.key = ActionKey[x]) =>
       \E r \in Q : Made(r, v)
  /\ \A q, r \in Q : q.key = r.key => q = r
  /\ IsFiniteSet(Q)

LEMMA PairOfTwo == ASSUME NEW d, d.verdict \in Verdicts
                   PROVE  /\ Pair(d) \subseteq ClaimIds
                          /\ Pair(d) = {d.verdict.source, d.verdict.target}
<1>1. Verdicts \subseteq [source: ClaimIds, target: ClaimIds, label: Labels]
  BY BeliefsAssumption
<1>2. d.verdict \in [source: ClaimIds, target: ClaimIds, label: Labels]
  BY <1>1
<1> QED BY <1>2 DEF Pair

LEMMA CarriesBased == ASSUME NEW S, NEW R, Carries(S, R), NEW d, NEW ev, Based(S, d, ev)
                      PROVE  Based(R, d, ev)
<1>1. ASSUME NEW c \in Pair(d)
      PROVE  \E z \in BasisIn(R, d) : z.claim = c
  <2>1. PICK v \in BasisIn(S, d) : v.claim = c
    BY DEF Based
  <2>2. PICK z \in R : z.claim = v.claim /\ z.key = v.key
    BY <2>1 DEF Carries, BasisIn
  <2> QED BY <2>1, <2>2 DEF BasisIn
<1>2. \A z \in BasisIn(R, d) : z.claim \in Pair(d)
  BY DEF BasisIn
<1> QED BY <1>1, <1>2 DEF Based

LEMMA CarriesEnacted == ASSUME NEW S, NEW R, Carries(S, R), NEW r, GoodResolution(r), Enacted(S, r)
                        PROVE  Enacted(R, r)
<1> SUFFICES ASSUME NEW c \in Acted(r)
             PROVE  \E v \in BasisIn(R, r.decision), w \in R :
                      /\ v.claim = c /\ w.claim = c /\ Made(r, w)
                      /\ v.to = r.at /\ w.from = r.at /\ w.status = r.acts[c]
  BY DEF Enacted
<1>1. PICK v \in BasisIn(S, r.decision), w \in S :
        /\ v.claim = c /\ w.claim = c /\ Made(r, w)
        /\ v.to = r.at /\ w.from = r.at /\ w.status = r.acts[c]
  BY DEF Enacted
<1>2. v.to # Open
  BY <1>1, TimesAreNat DEF GoodResolution
<1>3. PICK y \in R : y.claim = v.claim /\ y.key = v.key /\ y.to = v.to
  BY <1>2 DEF Carries, BasisIn
<1>4. PICK z \in R : z.claim = w.claim /\ z.key = w.key /\ z.from = w.from /\ z.status = w.status
  BY DEF Carries
<1>5. y \in BasisIn(R, r.decision) /\ Made(r, z)
  BY <1>1, <1>3, <1>4 DEF BasisIn, Made
<1> QED BY <1>1, <1>3, <1>4, <1>5

\* A resolution's key is new to rows and versions while no resolution has it.
LEMMA NewKeys ==
  ASSUME NEW S, NEW T, NEW N, Fits(S, T, N), NEW D, NEW Q, NEW ev, Founded(S, D, Q, ev),
         NEW k \in ResolutionKeys, \A q \in Q : q.key # k, NEW v \in S
  PROVE  /\ \A u \in S : ~(u.claim = v.claim /\ u.key = KeyOf(k, v))
         /\ \A a \in T : a.key # KeyOf(k, v)
<1>1. \A u \in S : u.claim \in ClaimIds
  BY DEF Fits, Version
<1>2. <<k, v.claim>> \in ResolutionKeys \X ClaimIds
  BY <1>1
<1>3. ASSUME NEW u \in S, u.key = KeyOf(k, v) PROVE FALSE
  <2>1. PICK q \in Q : Made(q, u)
    BY <1>2, <1>3 DEF Founded, KeyOf
  <2>2. q.key \in ResolutionKeys /\ u.key = ActionKey[<<q.key, u.claim>>]
    BY <2>1 DEF Founded, GoodResolution, Made
  <2>3. ActionKey[<<q.key, u.claim>>] = ActionKey[<<k, v.claim>>]
    BY <1>3, <2>2 DEF KeyOf
  <2>4. \A i, j \in ResolutionKeys, c, e \in ClaimIds :
          ActionKey[<<i, c>>] = ActionKey[<<j, e>>] => i = j
    BY KeyFacts, Zenon
  <2>5. q.key = k
    BY <1>1, <2>2, <2>3, <2>4, Zenon
  <2> QED BY <2>1, <2>5
<1>4. ASSUME NEW a \in T, a.key = KeyOf(k, v) PROVE FALSE
  <2>1. PICK w \in S : w.key = a.key
    BY DEF Fits, Joins
  <2> QED BY <1>3, <1>4, <2>1
<1> QED BY <1>3, <1>4

\* resolve carries out a plan: everything still fits and rests.
LEMMA EnactFounded ==
  ASSUME NEW S, NEW T, NEW N, Fits(S, T, N),
         NEW D, NEW Q, NEW ev, Founded(S, D, Q, ev),
         NEW r, GoodResolution(r), GoodDecision(r.decision), Based(S, r.decision, ev),
         \A q \in Q : q.key # r.key,
         NEW A, A = ActedOn(S, r),
         \A v \in A : /\ v.to = Open /\ v.from < r.at
                      /\ MayBecome(v.claim, v.status, r.acts[v.claim])
  PROVE  LET R == MovedVersions(S, A, r.key, r.acts, r.at)
         IN /\ Fits(R, T \cup MovedRows(A, r.key, r.acts, r.at), N \cup MovedEvents(A, r.key))
            /\ Keeps(S, R)
            /\ Founded(R, D \cup {r.decision}, Q \cup {r}, ev)
<1> DEFINE d == r.decision
           R == MovedVersions(S, A, r.key, r.acts, r.at)
<1>1. S \in SUBSET Version /\ r.key \in ResolutionKeys /\ r.at \in Times
  BY DEF Fits, GoodResolution
<1>2. A \subseteq S /\ \A v \in A : v.claim \in Pair(d) /\ v.claim \in Acted(r)
  BY DEF BasisIn, ActedOn
<1>3. Pair(d) = {d.verdict.source, d.verdict.target} /\ Pair(d) \subseteq ClaimIds
  BY PairOfTwo DEF GoodDecision
<1>4. \A v \in A : r.acts[v.claim] \in Statuses
  BY <1>2 DEF GoodResolution
<1>5. \A v \in A : /\ \A u \in S : ~(u.claim = v.claim /\ u.key = KeyOf(r.key, v))
                   /\ \A a \in T : a.key # KeyOf(r.key, v)
  BY <1>1, <1>2, NewKeys
<1> HIDE DEF d
<1>6. /\ Fits(R, T \cup MovedRows(A, r.key, r.acts, r.at), N \cup MovedEvents(A, r.key))
      /\ Keeps(S, R)
  BY <1>1, <1>2, <1>3, <1>4, <1>5, MovesFit
<1>7. Carries(S, R)
  BY <1>1, <1>6, KeptNames
<1>8. ASSUME NEW v \in A
      PROVE  /\ Closed(v, r.at) \in R /\ Opened(v, KeyOf(r.key, v), r.acts[v.claim], r.at) \in R
  BY DEF MovedVersions
<1>9. ASSUME NEW v \in S, NEW k, NEW x
      PROVE  /\ Closed(v, r.at).claim = v.claim /\ Closed(v, r.at).key = v.key
             /\ Closed(v, r.at).to = r.at
             /\ Opened(v, k, x, r.at).claim = v.claim /\ Opened(v, k, x, r.at).key = k
             /\ Opened(v, k, x, r.at).from = r.at /\ Opened(v, k, x, r.at).status = x
  <2>1. v \in Version
    BY <1>1
  <2> QED BY <2>1 DEF Closed, Opened, Version
<1>10. \A z \in R : \/ \E v \in S : v.claim = z.claim /\ v.key = z.key
                    \/ \E v \in A : z.claim = v.claim /\ z.key = KeyOf(r.key, v)
  <2>1. R = (S \ A) \cup {Closed(v, r.at) : v \in A}
              \cup {Opened(v, KeyOf(r.key, v), r.acts[v.claim], r.at) : v \in A}
    BY DEF MovedVersions
  <2> HIDE DEF R
  <2> QED BY <1>2, <1>9, <2>1
<1>11. Enacted(R, r)
  <2> SUFFICES ASSUME NEW c \in Acted(r)
               PROVE  \E v \in BasisIn(R, d), w \in R :
                        /\ v.claim = c /\ w.claim = c /\ Made(r, w)
                        /\ v.to = r.at /\ w.from = r.at /\ w.status = r.acts[c]
    BY DEF Enacted, d
  <2>1. c \in Pair(d)
    BY DEF GoodResolution, d
  <2>2. PICK v \in BasisIn(S, d) : v.claim = c
    BY <2>1 DEF Based, d
  <2>3. v \in A /\ v \in S
    BY <2>2 DEF BasisIn, ActedOn, d
  <2> DEFINE y == Closed(v, r.at)
             z == Opened(v, KeyOf(r.key, v), r.acts[v.claim], r.at)
  <2>4. /\ y \in R /\ y.claim = c /\ y.key = v.key /\ y.to = r.at
        /\ z \in R /\ z.claim = c /\ z.key = KeyOf(r.key, v) /\ z.from = r.at
        /\ z.status = r.acts[c]
    BY <1>8, <1>9, <2>2, <2>3
  <2> HIDE DEF y, z, R
  <2>5. y \in BasisIn(R, d)
    BY <2>2, <2>4 DEF BasisIn
  <2>6. Made(r, z)
    BY <2>2, <2>4 DEF Made, KeyOf
  <2> QED BY <2>4, <2>5, <2>6
<1> HIDE DEF R
<1>12. \A e \in D \cup {d} : GoodDecision(e) /\ Based(R, e, ev)
  BY <1>7, CarriesBased DEF Founded, d
<1>13. \A q \in Q \cup {r} : GoodResolution(q) /\ q.decision \in D \cup {d} /\ Enacted(R, q)
  BY <1>7, <1>11, CarriesEnacted DEF Founded, d
<1>14. ASSUME NEW z \in R, NEW x \in ResolutionKeys \X ClaimIds, z.key = ActionKey[x]
       PROVE  \E q \in Q \cup {r} : Made(q, z)
  <2>1. CASE \E v \in S : v.claim = z.claim /\ v.key = z.key
    <3>1. PICK v \in S : v.claim = z.claim /\ v.key = z.key
      BY <2>1
    <3>2. PICK q \in Q : Made(q, v)
      BY <1>14, <3>1 DEF Founded
    <3> QED BY <3>1, <3>2 DEF Made
  <2>2. CASE \E v \in A : z.claim = v.claim /\ z.key = KeyOf(r.key, v)
    BY <1>2, <2>2 DEF Made, KeyOf
  <2> QED BY <1>10, <2>1, <2>2
<1>15. \A p, q \in Q \cup {r} : p.key = q.key => p = q
  BY DEF Founded
<1>16. IsFiniteSet(Q \cup {r})
  BY FS_AddElement DEF Founded
<1>17. Founded(R, D \cup {d}, Q \cup {r}, ev)
  BY <1>12, <1>13, <1>14, <1>15, <1>16 DEF Founded
<1> QED BY <1>6, <1>17 DEF R, d

-----------------------------------------------------------------------------
\* The conditions of a rewind that takes back the versions off and keeps the
\* decisions K, the resolutions P and fewer evidence.
TakesBack(S, D, Q, off, K, P, fewer) ==
  /\ P \subseteq Q /\ off \subseteq S /\ K \subseteq D
  /\ \A v \in S : v \in off <=> \E r \in Q : r \notin P /\ Made(r, v)
  /\ \A v \in off, u \in S : u.claim = v.claim /\ v.from <= u.from => u \in off
  /\ \A d \in K : \A v \in BasisIn(S, d) : v \notin off
  /\ \A r \in P : r.decision \in K
  /\ \A d \in K : d.cites \subseteq fewer

LEMMA RewindFounded ==
  ASSUME NEW S, NEW T, NEW N, Fits(S, T, N),
         NEW D, NEW Q, NEW ev, Founded(S, D, Q, ev),
         NEW off, NEW K, NEW P, NEW fewer, TakesBack(S, D, Q, off, K, P, fewer)
  PROVE  /\ Fits(Uncovered(S, off), Unrelated(T, off), Unrelated(N, off))
         /\ Founded(Uncovered(S, off), K, P, fewer)
         /\ \A v \in S : v \in off \/ \E z \in Uncovered(S, off) : z = [v EXCEPT !.to = z.to]
<1> DEFINE R == Uncovered(S, off)
<1> USE DEF TakesBack
<1>1. S \subseteq Version /\ off \in SUBSET S /\ \A v \in S : v.claim \in ClaimIds
  BY DEF Fits, Version
<1>2. \A q \in Q : q.key \in ResolutionKeys
  BY DEF Founded, GoodResolution
<1>3. \A v \in off, x \in CallerKeys : v.key # x /\ v.key # ReplacementKey[x]
  <2> SUFFICES ASSUME NEW v \in off, NEW x \in CallerKeys
               PROVE  v.key # x /\ v.key # ReplacementKey[x]
    OBVIOUS
  <2>1. PICK r \in Q : v.key = ActionKey[<<r.key, v.claim>>]
    BY DEF Made
  <2>2. r.key \in ResolutionKeys /\ v.claim \in ClaimIds
    BY <1>1, <1>2
  <2>3. \A k \in ResolutionKeys, c \in ClaimIds :
          ActionKey[<<k, c>>] # x /\ ActionKey[<<k, c>>] # ReplacementKey[x]
    BY KeyFacts, Zenon
  <2> QED BY <2>1, <2>2, <2>3, Zenon
<1>4. /\ Fits(R, Unrelated(T, off), Unrelated(N, off))
      /\ \A v \in S \ off : \E z \in R : z = [v EXCEPT !.to = z.to]
      /\ \A v \in S \ off, u \in S \ off : u.claim = v.claim /\ u.from = v.to => v \in R
  BY <1>1, <1>3, RewindFits
<1>5. \A v \in S \ off : \E z \in R :
        z.claim = v.claim /\ z.key = v.key /\ z.from = v.from /\ z.status = v.status
  <2> HIDE DEF R
  <2> SUFFICES ASSUME NEW v \in S \ off
               PROVE  \E z \in R :
                        z.claim = v.claim /\ z.key = v.key /\ z.from = v.from /\ z.status = v.status
    OBVIOUS
  <2>1. PICK z \in R : z = [v EXCEPT !.to = z.to]
    BY <1>4
  <2>2. v \in Version
    BY <1>1
  <2>3. \A x : LET y == [v EXCEPT !.to = x] IN
          y.claim = v.claim /\ y.key = v.key /\ y.from = v.from /\ y.status = v.status
    BY <2>2 DEF Version
  <2> QED BY <2>1, <2>3
<1>6. \A z \in R : \E v \in S \ off : z.claim = v.claim /\ z.key = v.key
  <2>1. \A v \in Version : Closed(v, Open).claim = v.claim /\ Closed(v, Open).key = v.key
    BY DEF Closed, Version
  <2> QED BY <1>1, <2>1 DEF Uncovered, Below
<1> HIDE DEF R
<1>7. \A d \in K : GoodDecision(d) /\ Based(R, d, fewer)
  <2> SUFFICES ASSUME NEW d \in K PROVE GoodDecision(d) /\ Based(R, d, fewer)
    OBVIOUS
  <2>1. GoodDecision(d) /\ Based(S, d, ev)
    BY DEF Founded
  <2>2. ASSUME NEW c \in Pair(d)
        PROVE  \E z \in BasisIn(R, d) : z.claim = c
    <3>1. PICK v \in BasisIn(S, d) : v.claim = c
      BY <2>1 DEF Based
    <3>2. v \in S \ off /\ v.key = d.basis[v.claim]
      BY <3>1 DEF BasisIn
    <3>3. PICK z \in R : z.claim = v.claim /\ z.key = v.key
      BY <1>5, <3>2
    <3> QED BY <3>1, <3>2, <3>3 DEF BasisIn
  <2>3. {z.claim : z \in BasisIn(R, d)} = Pair(d)
    BY <2>2 DEF BasisIn
  <2> QED BY <2>1, <2>3 DEF Based
<1>8. ASSUME NEW r \in P
      PROVE  GoodResolution(r) /\ Enacted(R, r)
  <2>1. GoodResolution(r) /\ r.decision \in K /\ Enacted(S, r)
    BY DEF Founded
  <2>2. ASSUME NEW w \in off, Made(r, w) PROVE FALSE
    <3>1. PICK q \in Q : q \notin P /\ Made(q, w)
      OBVIOUS
    <3>2. ActionKey[<<q.key, w.claim>>] = ActionKey[<<r.key, w.claim>>]
      BY <2>2, <3>1 DEF Made
    <3>3. \A i, j \in ResolutionKeys, c, e \in ClaimIds :
            ActionKey[<<i, c>>] = ActionKey[<<j, e>>] => i = j
      BY KeyFacts, Zenon
    <3>4. q.key \in ResolutionKeys /\ r.key \in ResolutionKeys /\ w.claim \in ClaimIds
      BY <1>1, <1>2
    <3>5. q.key = r.key
      <4> DEFINE c == w.claim
                 i == q.key
                 j == r.key
      <4>1. ActionKey[<<i, c>>] = ActionKey[<<j, c>>] /\ c \in ClaimIds
            /\ i \in ResolutionKeys /\ j \in ResolutionKeys
        BY <3>2, <3>4
      <4> HIDE DEF c, i, j
      <4>2. i = j
        BY <3>3, <4>1, Zenon
      <4> QED BY <4>2 DEF i, j
    <3>6. \A i, j \in Q : i.key = j.key => i = j
      BY DEF Founded
    <3>7. q = r
      BY <3>5, <3>6
    <3>8. q \notin P /\ r \in P
      BY <3>1
    <3> QED BY <3>7, <3>8
  <2> SUFFICES ASSUME NEW c \in Acted(r)
               PROVE  \E v \in BasisIn(R, r.decision), w \in R :
                        /\ v.claim = c /\ w.claim = c /\ Made(r, w)
                        /\ v.to = r.at /\ w.from = r.at /\ w.status = r.acts[c]
    BY <2>1 DEF Enacted
  <2>3. PICK v \in BasisIn(S, r.decision), w \in S :
          /\ v.claim = c /\ w.claim = c /\ Made(r, w)
          /\ v.to = r.at /\ w.from = r.at /\ w.status = r.acts[c]
    BY <2>1 DEF Enacted
  <2>4. v \in S \ off /\ w \in S \ off
    BY <2>1, <2>2, <2>3 DEF BasisIn
  <2>5. v \in R
    BY <1>4, <2>3, <2>4
  <2>6. PICK z \in R : z.claim = w.claim /\ z.key = w.key /\ z.from = w.from /\ z.status = w.status
    BY <1>5, <2>4
  <2>7. v \in BasisIn(R, r.decision) /\ Made(r, z)
    BY <2>3, <2>5, <2>6 DEF BasisIn, Made
  <2> QED BY <2>3, <2>6, <2>7
<1>9. ASSUME NEW z \in R, \E x \in ResolutionKeys \X ClaimIds : z.key = ActionKey[x]
      PROVE  \E q \in P : Made(q, z)
  <2>1. PICK v \in S \ off : z.claim = v.claim /\ z.key = v.key
    BY <1>6
  <2>2. PICK q \in Q : Made(q, v)
    BY <1>9, <2>1 DEF Founded
  <2> QED BY <2>1, <2>2 DEF Made
<1>10. IsFiniteSet(P)
  BY FS_Subset DEF Founded
<1>11. \A p, q \in P : p.key = q.key => p = q
  BY DEF Founded
<1>12. Founded(R, K, P, fewer)
  BY <1>7, <1>8, <1>9, <1>10, <1>11 DEF Founded
<1> QED BY <1>4, <1>12 DEF R

\* Claims that no decision is about may go.
LEMMA ClearFounded ==
  ASSUME NEW S, NEW D, NEW Q, NEW ev, Founded(S, D, Q, ev),
         NEW gone, \A d \in D : \A c \in Pair(d) : c \notin gone
  PROVE  Founded(Outside(S, gone), D, Q, ev)
<1> DEFINE R == Outside(S, gone)
<1>1. \A d \in D : BasisIn(R, d) = BasisIn(S, d)
  BY DEF BasisIn, Outside
<1>2. \A d \in D : Based(R, d, ev)
  BY <1>1 DEF Founded, Based
<1>3. ASSUME NEW r \in Q PROVE Enacted(R, r)
  <2>1. /\ r.decision \in D /\ Enacted(S, r)
        /\ Acted(r) \subseteq Pair(r.decision)
    BY DEF Founded, GoodResolution
  <2> QED BY <1>1, <2>1 DEF Enacted, Outside
<1>4. R \subseteq S
  BY DEF Outside
<1> HIDE DEF R
<1>5. \A d \in D : GoodDecision(d) /\ Based(R, d, ev)
  BY <1>2 DEF Founded
<1>6. \A r \in Q : GoodResolution(r) /\ r.decision \in D /\ Enacted(R, r)
  BY <1>3 DEF Founded
<1>7. Founded(R, D, Q, ev)
  BY <1>4, <1>5, <1>6 DEF Founded
<1> QED BY <1>7 DEF R

-----------------------------------------------------------------------------
\* Tables as one record.

Tables(S, T, N, D, Q) ==
  [versions |-> S, transitions |-> T, announced |-> N, decisions |-> D, resolutions |-> Q]
Sound(db, ev) ==
  /\ db = Tables(db.versions, db.transitions, db.announced, db.decisions, db.resolutions)
  /\ Fits(db.versions, db.transitions, db.announced)
  /\ Founded(db.versions, db.decisions, db.resolutions, ev)

LEMMA FieldsOfTables ==
  ASSUME NEW S, NEW T, NEW N, NEW D, NEW Q
  PROVE  LET db == Tables(S, T, N, D, Q)
         IN /\ db.versions = S /\ db.transitions = T /\ db.announced = N
            /\ db.decisions = D /\ db.resolutions = Q
BY DEF Tables

LEMMA SoundTables ==
  ASSUME NEW S, NEW T, NEW N, NEW D, NEW Q, NEW ev, Fits(S, T, N), Founded(S, D, Q, ev)
  PROVE  Sound(Tables(S, T, N, D, Q), ev)
BY FieldsOfTables DEF Sound

LEMMA ClearedTables ==
  ASSUME NEW S, NEW T, NEW N, NEW D, NEW Q, NEW gone
  PROVE  Cleared(Tables(S, T, N, D, Q), gone) =
           Tables(Outside(S, gone), NotNaming(T, gone), NotNaming(N, gone), D, Q)
<1> DEFINE db == Tables(S, T, N, D, Q)
           X == Outside(S, gone)
           Y == NotNaming(T, gone)
           Z == NotNaming(N, gone)
<1>1. db.versions = S /\ db.transitions = T /\ db.announced = N
  BY FieldsOfTables
<1>2. Cleared(db, gone) = [db EXCEPT !.versions = X, !.transitions = Y, !.announced = Z]
  <2> HIDE DEF db
  <2> QED BY <1>1 DEF Cleared, Outside, NotNaming
<1> HIDE DEF X, Y, Z
<1>3. Cleared(db, gone) =
        [[[db EXCEPT !.versions = X] EXCEPT !.transitions = Y] EXCEPT !.announced = Z]
  BY <1>2
<1>4. [db EXCEPT !.versions = X] = Tables(X, T, N, D, Q)
  BY DEF Tables
<1>5. [Tables(X, T, N, D, Q) EXCEPT !.transitions = Y] = Tables(X, Y, N, D, Q)
  BY DEF Tables
<1>6. [Tables(X, Y, N, D, Q) EXCEPT !.announced = Z] = Tables(X, Y, Z, D, Q)
  BY DEF Tables
<1>7. Cleared(db, gone) = Tables(X, Y, Z, D, Q)
  <2> HIDE DEF db
  <2> QED BY <1>3, <1>4, <1>5, <1>6
<1> QED BY <1>7 DEF X, Y, Z

LEMMA ReinstatedTables ==
  ASSUME NEW S, NEW T, NEW N, NEW D, NEW Q, NEW r
  PROVE  Reinstated(Tables(S, T, N, D, Q), r) = Tables(S, T, N, D \cup {r.decision}, Q)
BY DEF Reinstated, Tables

TablesEnacted(S, T, N, D, Q, r) ==
  Tables(MovedVersions(S, ActedOn(S, r), r.key, r.acts, r.at),
         T \cup MovedRows(ActedOn(S, r), r.key, r.acts, r.at),
         N \cup MovedEvents(ActedOn(S, r), r.key), D, Q \cup {r})

LEMMA EnactedTables ==
  ASSUME NEW S, NEW T, NEW N, NEW D, NEW Q, NEW r
  PROVE  Enact(Tables(S, T, N, D, Q), r) = TablesEnacted(S, T, N, D, Q, r)
<1> DEFINE A == ActedOn(S, r)
           db == Tables(S, T, N, D, Q)
<1>1. A = {v \in Basis(db, r.decision) : v.claim \in Acted(r)}
  BY FieldsOfTables DEF Basis, BasisIn, ActedOn
<1>2. db.versions = S /\ db.transitions = T /\ db.announced = N /\ db.resolutions = Q
  BY FieldsOfTables
<1> DEFINE X == MovedVersions(S, A, r.key, r.acts, r.at)
           Y == T \cup MovedRows(A, r.key, r.acts, r.at)
           Z == N \cup MovedEvents(A, r.key)
           W == Q \cup {r}
<1>3. Enact(db, r) =
        [db EXCEPT !.versions = X, !.transitions = Y, !.announced = Z, !.resolutions = W]
  <2> HIDE DEF db
  <2> QED BY <1>1, <1>2 DEF Enact, MovedVersions, MovedRows, MovedEvents, KeyOf
<1> HIDE DEF X, Y, Z, W
<1>4. Enact(db, r) =
        [[[[db EXCEPT !.versions = X] EXCEPT !.transitions = Y] EXCEPT !.announced = Z]
           EXCEPT !.resolutions = W]
  <2> HIDE DEF db
  <2> QED BY <1>3
<1>5. Enact(db, r) = Tables(X, Y, Z, D, W)
  <2>1. [db EXCEPT !.versions = X] = Tables(X, T, N, D, Q)
    BY DEF Tables
  <2>2. [Tables(X, T, N, D, Q) EXCEPT !.transitions = Y] = Tables(X, Y, N, D, Q)
    BY DEF Tables
  <2>3. [Tables(X, Y, N, D, Q) EXCEPT !.announced = Z] = Tables(X, Y, Z, D, Q)
    BY DEF Tables
  <2>4. [Tables(X, Y, Z, D, Q) EXCEPT !.resolutions = W] = Tables(X, Y, Z, D, W)
    BY DEF Tables
  <2> HIDE DEF db
  <2> QED BY <1>4, <2>1, <2>2, <2>3, <2>4
<1> QED BY <1>5 DEF TablesEnacted, X, Y, Z, W

\* A resolution that is carried out leaves sound tables sound.
LEMMA EnactSound ==
  ASSUME NEW db, NEW ev, Sound(db, ev),
         NEW r, GoodResolution(r), GoodDecision(r.decision), Based(db.versions, r.decision, ev),
         MayAct(db, r)
  PROVE  /\ Sound(Enact(Reinstated(db, r), r), ev)
         /\ Keeps(db.versions, Enact(Reinstated(db, r), r).versions)
<1> DEFINE S == db.versions
           T == db.transitions
           N == db.announced
           D == db.decisions
           Q == db.resolutions
           A == ActedOn(S, r)
           R == MovedVersions(S, A, r.key, r.acts, r.at)
           U == T \cup MovedRows(A, r.key, r.acts, r.at)
           M == N \cup MovedEvents(A, r.key)
<1>1. db = Tables(S, T, N, D, Q) /\ Fits(S, T, N) /\ Founded(S, D, Q, ev)
  BY DEF Sound
<1>2. Basis(db, r.decision) = BasisIn(S, r.decision)
  BY DEF Basis, BasisIn
<1>3. /\ \A q \in Q : q.key # r.key
      /\ \A v \in A : /\ v.to = Open /\ v.from < r.at
                      /\ MayBecome(v.claim, v.status, r.acts[v.claim])
  BY <1>2 DEF MayAct, Follows, ActedOn
<1> HIDE DEF S, T, N, D, Q
<1>4. Reinstated(db, r) = Tables(S, T, N, D \cup {r.decision}, Q)
  BY <1>1, ReinstatedTables
<1>5. Enact(Reinstated(db, r), r) = Tables(R, U, M, D \cup {r.decision}, Q \cup {r})
  <2> DEFINE E == D \cup {r.decision}
  <2> HIDE DEF E
  <2>1. Enact(Tables(S, T, N, E, Q), r) = TablesEnacted(S, T, N, E, Q, r)
    BY EnactedTables
  <2>2. TablesEnacted(S, T, N, E, Q, r) = Tables(R, U, M, E, Q \cup {r})
    BY DEF TablesEnacted
  <2> QED BY <1>4, <2>1, <2>2 DEF E
<1>6. Based(S, r.decision, ev)
  BY DEF S
<1> HIDE DEF A
<1>7. /\ Fits(R, U, M) /\ Keeps(S, R)
      /\ Founded(R, D \cup {r.decision}, Q \cup {r}, ev)
  BY <1>1, <1>3, <1>6, EnactFounded DEF A
<1> HIDE DEF R, U, M
<1> QED BY <1>5, <1>7, SoundTables, FieldsOfTables DEF S

LEMMA KeepsItself == ASSUME NEW S \in SUBSET Version PROVE Keeps(S, S)
<1>1. \A v \in S : v = [v EXCEPT !.to = v.to]
  BY DEF Version
<1> QED BY <1>1 DEF Keeps

\* So does the replay of one resolution.
LEMMA RedoneSound ==
  ASSUME NEW db, NEW s, Sound(db, {e \in evidence : e[2] # s}),
         NEW r, GoodResolution(r), GoodDecision(r.decision), ~Drifts(db, r, s)
  PROVE  /\ Sound(Redone(db, r, s), {e \in evidence : e[2] # s})
         /\ Keeps(db.versions, Redone(db, r, s).versions)
<1> DEFINE ev == {e \in evidence : e[2] # s}
<1>1. CASE Eligible(db, r, s)
  <2>1. MayAct(db, r) /\ Redone(db, r, s) = Enact(Reinstated(db, r), r)
    BY <1>1 DEF Drifts, Redone
  <2>2. Basis(db, r.decision) = BasisIn(db.versions, r.decision)
    BY DEF Basis, BasisIn
  <2>3. Based(db.versions, r.decision, ev)
    BY <1>1, <2>2 DEF Eligible, Based
  <2> HIDE DEF ev
  <2>4. Sound(db, ev)
    BY DEF ev
  <2> QED BY <2>1, <2>3, <2>4, EnactSound DEF ev
<1>2. CASE ~Eligible(db, r, s)
  <2>1. Redone(db, r, s) = db
    BY <1>2 DEF Redone
  <2>2. db.versions \subseteq Version
    BY DEF Sound, Fits
  <2> QED BY <2>1, <2>2, KeepsItself
<1> QED BY <1>1, <1>2

-----------------------------------------------------------------------------
\* The tables after i of n replays o.

Chain(f, n, o, start, s) ==
  f = [i \in 0 .. n |-> IF i = 0 THEN start ELSE Redone(f[i-1], o[i], s)]

LEMMA ChainsExist == ASSUME NEW n \in Nat, NEW o, NEW start, NEW s
                     PROVE  \E f : Chain(f, n, o, start, s)
<1> DEFINE B == {m \in Nat : ~\E f : Chain(f, m, o, start, s)}
<1> SUFFICES ASSUME n \in B PROVE FALSE
  OBVIOUS
<1>1. PICK m \in B : \A l \in B : m <= l
  <2> HIDE DEF B
  <2>1. B \subseteq Nat
    BY DEF B
  <2> QED BY <2>1, LeastNumber
<1>2. m \in Nat /\ ~\E f : Chain(f, m, o, start, s)
  OBVIOUS
<1>3. CASE m = 0
  <2> DEFINE g == [i \in 0 .. 0 |-> start]
  <2>1. g = [i \in 0 .. 0 |-> IF i = 0 THEN start ELSE Redone(g[i-1], o[i], s)]
    OBVIOUS
  <2> QED BY <1>2, <1>3, <2>1 DEF Chain
<1>4. CASE m # 0
  <2>1. m - 1 \in Nat /\ m - 1 \notin B
    BY <1>1, <1>2, <1>4
  <2>2. PICK f : Chain(f, m - 1, o, start, s)
    BY <2>1
  <2> DEFINE g == [i \in 0 .. m |-> IF i = m THEN Redone(f[m-1], o[m], s) ELSE f[i]]
  <2>3. ASSUME NEW i \in 0 .. m
        PROVE  g[i] = IF i = 0 THEN start ELSE Redone(g[i-1], o[i], s)
    <3>1. CASE i = m
      BY <1>2, <1>4, <3>1
    <3>2. CASE i # m
      <4>1. i \in 0 .. m - 1
        BY <1>2, <3>2
      <4>2. g[i] = f[i] /\ (i # 0 => g[i-1] = f[i-1])
        BY <1>2, <4>1
      <4>3. f[i] = IF i = 0 THEN start ELSE Redone(f[i-1], o[i], s)
        BY <2>2, <4>1 DEF Chain
      <4> HIDE DEF g
      <4> QED BY <4>2, <4>3
    <3> QED BY <3>1, <3>2
  <2>4. g = [i \in 0 .. m |-> IF i = 0 THEN start ELSE Redone(g[i-1], o[i], s)]
    <3>1. g = [i \in 0 .. m |-> g[i]]
      OBVIOUS
    <3> HIDE DEF g
    <3> QED BY <2>3, <3>1
  <2> HIDE DEF g
  <2> QED BY <1>2, <2>4 DEF Chain
<1> QED BY <1>3, <1>4

LEMMA ReplayedIsAChain ==
  ASSUME NEW n \in Nat, NEW o, Len(o) = n, NEW start, NEW s
  PROVE  Chain(Replayed(o, start, s), n, o, start, s)
<1>1. \E f : f = [i \in 0 .. Len(o) |-> IF i = 0 THEN start ELSE Redone(f[i-1], o[i], s)]
  <2>1. PICK f : Chain(f, n, o, start, s)
    BY ChainsExist
  <2>2. f = [i \in 0 .. Len(o) |-> IF i = 0 THEN start ELSE Redone(f[i-1], o[i], s)]
    BY <2>1, Zenon DEF Chain
  <2> QED BY <2>2, Zenon
<1>2. LET R == Replayed(o, start, s)
      IN R = [i \in 0 .. Len(o) |-> IF i = 0 THEN start ELSE Redone(R[i-1], o[i], s)]
  BY <1>1, Zenon DEF Replayed
<1> QED BY <1>2 DEF Chain

\* Replays that do not drift leave sound tables sound.
LEMMA ReplaySound ==
  ASSUME NEW n \in Nat, NEW o, Len(o) = n, NEW s,
         NEW start, Sound(start, {e \in evidence : e[2] # s}),
         \A i \in 1 .. n : /\ GoodResolution(o[i]) /\ GoodDecision(o[i].decision)
                           /\ ~Drifts(Replayed(o, start, s)[i-1], o[i], s)
  PROVE  \A i \in 0 .. n :
           /\ Sound(Replayed(o, start, s)[i], {e \in evidence : e[2] # s})
           /\ Keeps(start.versions, Replayed(o, start, s)[i].versions)
<1> DEFINE ev == {e \in evidence : e[2] # s}
           R == Replayed(o, start, s)
           Ok(i) == Sound(R[i], ev) /\ Keeps(start.versions, R[i].versions)
           B == {i \in 0 .. n : ~Ok(i)}
<1>1. /\ R[0] = start
      /\ \A i \in 1 .. n : R[i] = Redone(R[i-1], o[i], s)
  <2>1. R = [i \in 0 .. n |-> IF i = 0 THEN start ELSE Redone(R[i-1], o[i], s)]
    <3>1. Chain(R, n, o, start, s)
      BY ReplayedIsAChain
    <3> HIDE DEF R
    <3> QED BY <3>1 DEF Chain
  <2> HIDE DEF R
  <2> QED BY <2>1
<1>2. start.versions \subseteq Version
  BY DEF Sound, Fits
<1>3. Ok(0)
  BY <1>1, <1>2, KeepsItself
<1>4. ASSUME NEW i \in 1 .. n, Ok(i-1) PROVE Ok(i)
  <2> DEFINE db == R[i-1]
             r == o[i]
  <2>1. Sound(db, ev) /\ Keeps(start.versions, db.versions)
    BY <1>4
  <2>2. GoodResolution(r) /\ GoodDecision(r.decision) /\ ~Drifts(db, r, s)
    OBVIOUS
  <2>3. R[i] = Redone(db, r, s)
    BY <1>1
  <2> HIDE DEF db, r, R
  <2>4. Sound(Redone(db, r, s), ev) /\ Keeps(db.versions, Redone(db, r, s).versions)
    BY <2>1, <2>2, RedoneSound
  <2>5. Keeps(start.versions, Redone(db, r, s).versions)
    BY <1>2, <2>1, <2>4, KeepsKeeps
  <2> QED BY <2>3, <2>4, <2>5
<1> HIDE DEF Ok
<1>5. B = {}
  <2> SUFFICES ASSUME B # {} PROVE FALSE
    OBVIOUS
  <2>1. B \subseteq Nat
    OBVIOUS
  <2>2. PICK i \in B : \A j \in B : i <= j
    <3> HIDE DEF B
    <3> QED BY <2>1, LeastNumber
  <2>3. i \in 0 .. n /\ ~Ok(i)
    OBVIOUS
  <2>4. i \in 1 .. n /\ i - 1 \in 0 .. n
    BY <1>3, <2>3
  <2>5. Ok(i-1)
    BY <2>2, <2>4
  <2> QED BY <1>4, <2>3, <2>4, <2>5
<1>6. \A i \in 0 .. n : Ok(i)
  BY <1>5
<1> QED BY <1>6 DEF Ok

-----------------------------------------------------------------------------
\* delete_source: what is undone although it does not rest on the source, and the
\* versions from which it is replayed.
Spared(s) == {r \in Undone(s) : r.decision \notin Direct(s)}
Remains(s) == Outside(Uncovered(versions, Unmade(Undone(s))), Retired(s))

\* It rewinds and clears into sound tables, from which it replays the spared in order.
ReplaysInto(s, db, start, o, n) ==
  /\ n = Cardinality(Spared(s)) /\ n \in Nat /\ Len(o) = n
  /\ o \in [1 .. n -> Spared(s)] /\ o \in Orders(Spared(s))
  /\ Sound(start, {e \in evidence : e[2] # s})
  /\ start.versions = Remains(s) /\ start.resolutions = resolutions \ Undone(s)
  /\ db = Replayed(o, start, s)[n]
  /\ \A i \in 1 .. n : /\ GoodResolution(o[i]) /\ GoodDecision(o[i].decision)
                        /\ ~Drifts(Replayed(o, start, s)[i-1], o[i], s)

LEMMA DeletionReplays ==
  ASSUME TypeOK, Sound(tables, evidence), NEW s \in Sources, NEW db \in Outcomes(s)
  PROVE  /\ \E start, o, n : ReplaysInto(s, db, start, o, n)
         /\ \A v \in versions \ Unmade(Undone(s)) :
              \/ \E z \in Remains(s) : z = [v EXCEPT !.to = z.to]
              \/ \A e \in {e \in evidence : e[2] # s} : e[1] # v.claim
<1> DEFINE undone == Undone(s)
           off == Unmade(undone)
           K == decisions \ Dropped(s, undone)
           Q == resolutions \ undone
           fewer == {e \in evidence : e[2] # s}
           gone == Retired(s)
           rest == {r \in undone : r.decision \notin Direct(s)}
           start == Cleared(Rewound(s, undone), gone)
           S1 == Uncovered(versions, off)
           T1 == Unrelated(transitions, off)
           N1 == Unrelated(announced, off)
           S2 == Outside(S1, gone)
           T2 == NotNaming(T1, gone)
           N2 == NotNaming(N1, gone)
<1>1. /\ MayRewind(s, undone)
      /\ \E o \in Orders(rest) :
           /\ db = Replayed(o, start, s)[Len(o)]
           /\ \A i \in 1 .. Len(o) : ~Drifts(Replayed(o, start, s)[i-1], o[i], s)
  <2>1. gone \cup {} = gone
    OBVIOUS
  <2>2. db \in OutcomesWith(s, {})
    BY DEF Outcomes
  <2> QED BY <2>1, <2>2 DEF OutcomesWith
<1>2. /\ Fits(versions, transitions, announced)
      /\ Founded(versions, decisions, resolutions, evidence)
  BY FieldsOfTables DEF Sound, tables, Tables
<1>3. undone \subseteq resolutions /\ off = {v \in versions : \E r \in undone : Made(r, v)}
  BY DEF Undone, Unmade
<1>4. /\ \A v \in off, u \in versions : u.claim = v.claim /\ v.from <= u.from => u \in off
      /\ \A d \in K : Basis(tables, d) \cap off = {}
      /\ \A r \in Q : r.decision \in K
  BY <1>1 DEF MayRewind
<1>5. \A d \in K : \A v \in BasisIn(versions, d) : v \notin off
  <2>1. \A d : Basis(tables, d) = BasisIn(versions, d)
    BY DEF Basis, BasisIn, tables
  <2> QED BY <1>4, <2>1
<1>6. \A d \in K : d.cites \subseteq fewer
  <2> SUFFICES ASSUME NEW d \in K, NEW e \in d.cites PROVE e \in fewer
    OBVIOUS
  <2>1. d \in decisions /\ d \notin Direct(s)
    BY DEF Dropped
  <2>2. e \in evidence /\ e[2] # s
    BY <1>2, <2>1 DEF Founded, Based, Direct
  <2> QED BY <2>2
<1>7. Rewound(s, undone) = Tables(S1, T1, N1, K, Q)
  BY DEF Rewound, Uncovered, Below, Unrelated, Tables
<1> HIDE DEF undone, off, fewer, start
<1>8. /\ Fits(S1, T1, N1) /\ Founded(S1, K, Q, fewer)
      /\ \A v \in versions : v \in off \/ \E z \in S1 : z = [v EXCEPT !.to = z.to]
  <2>1. /\ K \subseteq decisions /\ Q \subseteq resolutions /\ off \subseteq versions
        /\ \A v \in versions : v \in off <=> \E r \in resolutions : r \notin Q /\ Made(r, v)
    BY <1>3
  <2> HIDE DEF K, Q
  <2>2. TakesBack(versions, decisions, resolutions, off, K, Q, fewer)
    BY <1>4, <1>5, <1>6, <2>1 DEF TakesBack
  <2> QED BY <1>2, <2>2, RewindFounded
<1> HIDE DEF S1, T1, N1, K, Q
<1>9. gone \subseteq ClaimIds /\ NoClaim \notin gone /\ \A e \in fewer : e[1] \notin gone
  BY LifecycleAssumption DEF Retired, fewer
<1>10. \A d \in K : \A c \in Pair(d) : c \notin gone
  <2> SUFFICES ASSUME NEW d \in K, NEW c \in Pair(d) PROVE c \notin gone
    OBVIOUS
  <2>1. Based(S1, d, fewer)
    BY <1>8 DEF Founded
  <2>2. PICK e \in d.cites : e[1] = c
    BY <2>1 DEF Based
  <2> QED BY <1>6, <1>9, <2>2
<1> HIDE DEF gone
<1>11. Fits(S2, T2, N2) /\ Founded(S2, K, Q, fewer)
  BY <1>8, <1>9, <1>10, ClearFits, ClearFounded
<1>12. start = Tables(S2, T2, N2, K, Q)
  <2>1. start = Cleared(Tables(S1, T1, N1, K, Q), gone)
    BY <1>7 DEF start
  <2> QED BY <2>1, ClearedTables
<1> HIDE DEF S2, T2, N2
<1>13. Sound(start, fewer) /\ start.versions = S2
  BY <1>11, <1>12, SoundTables, FieldsOfTables
<1>14. IsFiniteSet(rest) /\ rest \subseteq resolutions
  <2>1. IsFiniteSet(resolutions)
    BY <1>2 DEF Founded
  <2> QED BY <1>3, <2>1, FS_Subset
<1> HIDE DEF rest
<1>15. PICK o \in Orders(rest) :
         /\ db = Replayed(o, start, s)[Len(o)]
         /\ \A i \in 1 .. Len(o) : ~Drifts(Replayed(o, start, s)[i-1], o[i], s)
  BY <1>1
<1> DEFINE n == Cardinality(rest)
<1>16. n \in Nat
  BY <1>14, FS_CardinalityType
<1> HIDE DEF n
<1>17. o \in [1 .. n -> rest]
  BY DEF Orders, n
<1>18. Len(o) = n
  BY <1>16, <1>17
<1>19. \A i \in 1 .. n : GoodResolution(o[i]) /\ GoodDecision(o[i].decision)
  BY <1>2, <1>14, <1>17 DEF Founded
<1>20. ReplaysInto(s, db, start, o, n)
  <2>1. Spared(s) = rest
    BY DEF Spared, rest, undone
  <2>2. Remains(s) = S2 /\ start.resolutions = resolutions \ Undone(s)
    <3>1. Remains(s) = S2
      BY DEF Remains, S2, S1, off, undone, gone
    <3>2. start.resolutions = Q
      BY <1>12, FieldsOfTables
    <3> QED BY <3>1, <3>2 DEF Q, undone
  <2>3. Sound(start, {e \in evidence : e[2] # s})
    BY <1>13 DEF fewer
  <2>4. db = Replayed(o, start, s)[n]
    BY <1>15, <1>18
  <2>5. n = Cardinality(rest)
    BY DEF n
  <2> QED BY <1>13, <1>15, <1>16, <1>17, <1>18, <1>19, <2>1, <2>2, <2>3, <2>4, <2>5 DEF ReplaysInto
<1>21. ASSUME NEW v \in versions \ off
       PROVE  \/ \E z \in S2 : z = [v EXCEPT !.to = z.to]
              \/ \A e \in fewer : e[1] # v.claim
  <2>1. v \in Version
    BY <1>2 DEF Fits
  <2>2. PICK z \in S1 : z = [v EXCEPT !.to = z.to]
    BY <1>8
  <2>3. z.claim = v.claim
    <3>1. \A x : [v EXCEPT !.to = x].claim = v.claim
      BY <2>1 DEF Version
    <3> QED BY <2>2, <3>1
  <2> QED BY <1>9, <2>2, <2>3 DEF S2, Outside
<1>22. Remains(s) = S2
  BY DEF Remains, S2, S1, off, undone, gone
<1> QED BY <1>20, <1>21, <1>22 DEF fewer, off, undone

LEMMA ReplaysAreSound ==
  ASSUME NEW s, NEW db, NEW start, NEW o, NEW n, ReplaysInto(s, db, start, o, n), NEW i \in 0 .. n
  PROVE  /\ Sound(Replayed(o, start, s)[i], {e \in evidence : e[2] # s})
         /\ Keeps(start.versions, Replayed(o, start, s)[i].versions)
<1>1. /\ n \in Nat /\ Len(o) = n /\ Sound(start, {e \in evidence : e[2] # s})
      /\ \A j \in 1 .. n : /\ GoodResolution(o[j]) /\ GoodDecision(o[j].decision)
                            /\ ~Drifts(Replayed(o, start, s)[j-1], o[j], s)
  BY DEF ReplaysInto
<1>2. \A j \in 0 .. n : /\ Sound(Replayed(o, start, s)[j], {e \in evidence : e[2] # s})
                        /\ Keeps(start.versions, Replayed(o, start, s)[j].versions)
  BY <1>1, ReplaySound
<1> QED BY <1>2

\* The tables of any of its outcomes are sound, and hold what is not taken back and
\* still has evidence.
LEMMA DeletionSound ==
  ASSUME TypeOK, Sound(tables, evidence), NEW s \in Sources, NEW db \in Outcomes(s)
  PROVE  /\ Sound(db, {e \in evidence : e[2] # s})
         /\ \A v \in versions \ Unmade(Undone(s)) :
              \/ \E w \in db.versions : w = [v EXCEPT !.to = w.to]
              \/ \A e \in {e \in evidence : e[2] # s} : e[1] # v.claim
<1>1. PICK start, o, n : ReplaysInto(s, db, start, o, n)
  BY DeletionReplays
<1>2. Sound(db, {e \in evidence : e[2] # s}) /\ Keeps(Remains(s), db.versions)
  <2>1. n \in 0 .. n /\ start.versions = Remains(s) /\ db = Replayed(o, start, s)[n]
    BY <1>1 DEF ReplaysInto
  <2> QED BY <1>1, <2>1, ReplaysAreSound
<1>3. ASSUME NEW v \in versions \ Unmade(Undone(s)),
             NEW z \in Remains(s), z = [v EXCEPT !.to = z.to]
      PROVE  \E w \in db.versions : w = [v EXCEPT !.to = w.to]
  <2>1. v \in Version
    BY DEF TypeOK
  <2>2. PICK w \in db.versions : w = [z EXCEPT !.to = w.to]
    BY <1>2 DEF Keeps
  <2>3. \A x, y : [[v EXCEPT !.to = x] EXCEPT !.to = y] = [v EXCEPT !.to = y]
    BY <2>1 DEF Version
  <2>4. w = [v EXCEPT !.to = w.to]
    BY <1>3, <2>2, <2>3
  <2> QED BY <2>4
<1>4. \A v \in versions \ Unmade(Undone(s)) :
        \/ \E z \in Remains(s) : z = [v EXCEPT !.to = z.to]
        \/ \A e \in {e \in evidence : e[2] # s} : e[1] # v.claim
  BY DeletionReplays
<1> QED BY <1>2, <1>3, <1>4

-----------------------------------------------------------------------------
\* Names: what replays write has the names, and the beginnings, that it had before.

Alike(u, v) == u.claim = v.claim /\ u.key = v.key /\ u.from = v.from
WrittenBy(r, v) == Made(r, v) /\ v.from = r.at

\* A resolution that is replayed writes under its own key at its own time.
LEMMA RedoneNames ==
  ASSUME NEW db, NEW ev, Sound(db, ev), NEW r, NEW s
  PROVE  /\ db.resolutions \subseteq Redone(db, r, s).resolutions
         /\ Redone(db, r, s).resolutions \subseteq db.resolutions \cup {r}
         /\ Eligible(db, r, s) => r \in Redone(db, r, s).resolutions
         /\ \A v \in Redone(db, r, s).versions :
              WrittenBy(r, v) \/ \E u \in db.versions : Alike(u, v)
<1> DEFINE S == db.versions
           A == ActedOn(S, r)
           R == MovedVersions(S, A, r.key, r.acts, r.at)
<1>1. CASE ~Eligible(db, r, s)
  <2>1. Redone(db, r, s) = db
    BY <1>1 DEF Redone
  <2> QED BY <1>1, <2>1 DEF Alike
<1>2. CASE Eligible(db, r, s)
  <2> DEFINE T == db.transitions
             N == db.announced
             E == db.decisions \cup {r.decision}
             Q == db.resolutions
             U == T \cup MovedRows(A, r.key, r.acts, r.at)
             M == N \cup MovedEvents(A, r.key)
  <2>1. db = Tables(S, T, N, db.decisions, Q) /\ S \subseteq Version
    BY DEF Sound, Fits
  <2>2. Redone(db, r, s) = Enact(Reinstated(db, r), r)
    BY <1>2 DEF Redone
  <2> HIDE DEF S, T, N, Q
  <2>3. Reinstated(db, r) = Tables(S, T, N, E, Q)
    BY <2>1, ReinstatedTables
  <2> HIDE DEF E
  <2>4. Enact(Tables(S, T, N, E, Q), r) = TablesEnacted(S, T, N, E, Q, r)
    BY EnactedTables
  <2>5. TablesEnacted(S, T, N, E, Q, r) = Tables(R, U, M, E, Q \cup {r})
    BY DEF TablesEnacted
  <2> HIDE DEF R, U, M
  <2>6. Redone(db, r, s).versions = R /\ Redone(db, r, s).resolutions = Q \cup {r}
    BY <2>2, <2>3, <2>4, <2>5, FieldsOfTables
  <2>7. ASSUME NEW v \in R PROVE WrittenBy(r, v) \/ \E u \in S : Alike(u, v)
    <3>1. CASE v \in S
      BY <3>1 DEF Alike
    <3>2. ASSUME NEW u \in A, v = Closed(u, r.at) PROVE \E y \in S : Alike(y, v)
      <4>1. u \in S /\ u \in Version
        BY <2>1 DEF ActedOn, BasisIn
      <4>2. Alike(u, v)
        BY <3>2, <4>1 DEF Alike, Closed, Version
      <4> QED BY <4>1, <4>2
    <3>3. ASSUME NEW u \in A, v = Opened(u, KeyOf(r.key, u), r.acts[u.claim], r.at)
          PROVE WrittenBy(r, v)
      <4>1. u.claim \in Acted(r)
        BY DEF ActedOn
      <4> QED BY <3>3, <4>1 DEF WrittenBy, Made, Opened, KeyOf
    <3>4. \/ v \in S
          \/ \E u \in A : v = Closed(u, r.at)
          \/ \E u \in A : v = Opened(u, KeyOf(r.key, u), r.acts[u.claim], r.at)
      BY DEF R, MovedVersions
    <3> QED BY <3>1, <3>2, <3>3, <3>4
  <2> QED BY <2>6, <2>7 DEF S, Q
<1> QED BY <1>1, <1>2

\* From the tables after m replays on, resolutions are only added, and every version
\* was there or is written by a later replay.
LEMMA ReplayNames ==
  ASSUME NEW s, NEW db, NEW start, NEW o, NEW n, ReplaysInto(s, db, start, o, n), NEW m \in 0 .. n
  PROVE  LET R == Replayed(o, start, s)
         IN \A i \in m .. n :
              /\ R[m].resolutions \subseteq R[i].resolutions
              /\ R[i].resolutions \subseteq R[m].resolutions \cup {o[j] : j \in m+1 .. i}
              /\ \A v \in R[i].versions :
                   \/ \E u \in R[m].versions : Alike(u, v)
                   \/ \E j \in m+1 .. i : WrittenBy(o[j], v)
<1> DEFINE R == Replayed(o, start, s)
           ev == {e \in evidence : e[2] # s}
           Ok(i) == /\ R[m].resolutions \subseteq R[i].resolutions
                    /\ R[i].resolutions \subseteq R[m].resolutions \cup {o[j] : j \in m+1 .. i}
                    /\ \A v \in R[i].versions :
                         \/ \E u \in R[m].versions : Alike(u, v)
                         \/ \E j \in m+1 .. i : WrittenBy(o[j], v)
           B == {i \in m .. n : ~Ok(i)}
<1>1. /\ n \in Nat /\ Len(o) = n /\ Sound(start, ev)
      /\ \A i \in 1 .. n : /\ GoodResolution(o[i]) /\ GoodDecision(o[i].decision)
                            /\ ~Drifts(R[i-1], o[i], s)
  BY DEF ReplaysInto
<1>2. \A i \in 1 .. n : R[i] = Redone(R[i-1], o[i], s)
  <2>1. R = [i \in 0 .. n |-> IF i = 0 THEN start ELSE Redone(R[i-1], o[i], s)]
    <3>1. Chain(R, n, o, start, s)
      BY <1>1, ReplayedIsAChain
    <3> HIDE DEF R
    <3> QED BY <3>1 DEF Chain
  <2>2. 1 .. n \subseteq 0 .. n /\ 0 \notin 1 .. n
    BY <1>1
  <2> HIDE DEF R
  <2> QED BY <2>1, <2>2
<1>3. ASSUME NEW i \in 0 .. n PROVE Sound(R[i], ev)
  <2>1. /\ Sound(Replayed(o, start, s)[i], {e \in evidence : e[2] # s})
        /\ Keeps(start.versions, Replayed(o, start, s)[i].versions)
    BY ReplaysAreSound
  <2> QED BY <2>1
<1> HIDE DEF R, ev
<1>4. Ok(m)
  BY DEF Alike
<1>5. ASSUME NEW i \in m+1 .. n, Ok(i-1) PROVE Ok(i)
  <2>1. i \in 1 .. n /\ i-1 \in 0 .. n /\ m \in Nat
    BY <1>1
  <2>2. R[i] = Redone(R[i-1], o[i], s) /\ Sound(R[i-1], ev)
    BY <1>2, <1>3, <2>1
  <2>3. /\ R[i-1].resolutions \subseteq R[i].resolutions
        /\ R[i].resolutions \subseteq R[i-1].resolutions \cup {o[i]}
        /\ \A v \in R[i].versions : WrittenBy(o[i], v) \/ \E u \in R[i-1].versions : Alike(u, v)
    BY <2>2, RedoneNames
  <2>4. m+1 .. i-1 \subseteq m+1 .. i /\ i \in m+1 .. i
    BY <2>1
  <2>5. ASSUME NEW v \in R[i].versions
        PROVE  \/ \E u \in R[m].versions : Alike(u, v)
               \/ \E j \in m+1 .. i : WrittenBy(o[j], v)
    <3>1. ASSUME NEW u \in R[i-1].versions, Alike(u, v)
          PROVE  \/ \E y \in R[m].versions : Alike(y, v)
                 \/ \E j \in m+1 .. i : WrittenBy(o[j], v)
      <4>1. \A j : WrittenBy(o[j], u) => WrittenBy(o[j], v)
        BY <3>1 DEF Alike, WrittenBy, Made
      <4>2. \A y : Alike(y, u) => Alike(y, v)
        BY <3>1 DEF Alike
      <4> QED BY <1>5, <2>4, <4>1, <4>2
    <3> QED BY <2>3, <2>4, <3>1
  <2> QED BY <1>5, <2>3, <2>4, <2>5
<1> HIDE DEF Ok
<1>6. B = {}
  <2> SUFFICES ASSUME B # {} PROVE FALSE
    OBVIOUS
  <2>1. B \subseteq Nat
    BY <1>1
  <2>2. PICK i \in B : \A j \in B : i <= j
    <3> HIDE DEF B
    <3> QED BY <2>1, LeastNumber
  <2>3. i \in m .. n /\ ~Ok(i)
    OBVIOUS
  <2>4. i \in m+1 .. n /\ i - 1 \in m .. n
    BY <1>1, <1>4, <2>3
  <2>5. Ok(i-1)
    BY <2>2, <2>4
  <2> QED BY <1>5, <2>3, <2>4, <2>5
<1>7. \A i \in m .. n : Ok(i)
  BY <1>6
<1> QED BY <1>7 DEF Ok, R

\* What a resolution of sound tables has written there is still told by name.
LEMMA WrittenIsThere ==
  ASSUME NEW S, NEW D, NEW Q, NEW ev, Founded(S, D, Q, ev), NEW r \in Q, NEW v, WrittenBy(r, v)
  PROVE  \E w \in S : Alike(w, v)
<1>1. v.claim \in Acted(r)
  BY DEF WrittenBy, Made
<1>2. PICK w \in S : w.claim = v.claim /\ Made(r, w) /\ w.from = r.at
  BY <1>1 DEF Founded, Enacted
<1> QED BY <1>2 DEF Alike, WrittenBy, Made

-----------------------------------------------------------------------------
\* The inductive invariant, and what a step may do to it.

BInv ==
  /\ TypeOK
  /\ Fits(versions, transitions, announced)
  /\ Founded(versions, decisions, resolutions, evidence)
  /\ \A e \in requeued : e.pair \subseteq ClaimIds /\ e.source \in Sources

\* BInv of new versions S, audit rows T, ...
After(S, T, N, D, Q, ev, f, q) ==
  /\ ev \subseteq ClaimIds \X Sources /\ f \subseteq Sources
  /\ Fits(S, T, N) /\ Founded(S, D, Q, ev)
  /\ \A e \in q : e.pair \subseteq ClaimIds /\ e.source \in Sources

LEMMA BInvAfter ==
  BInv <=> After(versions, transitions, announced, decisions, resolutions,
                 evidence, forgotten, requeued)
BY DEF BInv, After, TypeOK, Fits

\* No version goes between deletions.
AllKept == Keeps(versions, versions') /\ UNCHANGED <<evidence, forgotten, requeued>>

\* The body of CallersHistoryStays, for new versions S and evidence ev.
Stays(S, ev) ==
  \A v \in versions : ~ResolverMade(v) =>
    \/ \E w \in S : w = [v EXCEPT !.to = w.to]
    \/ \A e \in ev : e[1] # v.claim

LEMMA KeptStays == ASSUME NEW S, Keeps(versions, S), NEW ev PROVE Stays(S, ev)
BY DEF Keeps, Stays

\* resolve_belief: every plan aims at statuses.
LEMMA PlansAreTyped ==
  ASSUME NEW d, d.verdict \in Verdicts, NEW plan \in Plans(d)
  PROVE  \A c \in DOMAIN plan : plan[c] \in Statuses
<1> DEFINE source == d.verdict.source
           Aims(x, y) == [c \in Pair(d) |-> IF c = source THEN x ELSE y]
           Both(x) == [c \in Pair(d) |-> x]
<1>1. d.verdict.label \in Labels
  BY BeliefsAssumption
<1>2. \A x, y \in Statuses : \A c \in DOMAIN Aims(x, y) : Aims(x, y)[c] \in Statuses
  OBVIOUS
<1>3. /\ \A x \in Statuses : \A c \in DOMAIN Both(x) : Both(x)[c] \in Statuses
      /\ \A x, y \in Statuses : \A e : \A c \in DOMAIN [Both(x) EXCEPT ![e] = y] :
           [Both(x) EXCEPT ![e] = y][c] \in Statuses
  OBVIOUS
<1>4. \A c : Appropriate(c) \subseteq Statuses
  BY DEF Appropriate, Statuses
<1>5. {"superseded", "disputed", "excluded", "current", "historical", "confirmed"} \subseteq Statuses
  BY DEF Statuses
<1>6. CASE Pair(d) \cap Barred # {}
  <2>1. plan \in {[c \in Pair(d) \cap Barred |-> "excluded"]}
    BY <1>6, Zenon DEF Plans
  <2> QED BY <1>5, <2>1
<1>7. CASE Pair(d) \cap Barred = {} /\ d.verdict.label = "unrelated"
  <2>1. plan \in {[c \in {} |-> "excluded"]}
    BY <1>7, Zenon DEF Plans
  <2> QED BY <1>5, <2>1
<1>8. CASE Pair(d) \cap Barred = {} /\ d.verdict.label = "temporal_change"
  <2>1. plan \in {Aims(x, "historical") : x \in Appropriate(source)}
    BY <1>8, Zenon DEF Plans
  <2> HIDE DEF Aims, source
  <2> QED BY <1>2, <1>4, <1>5, <2>1
<1>9. CASE Pair(d) \cap Barred = {} /\ d.verdict.label \in {"correction", "refinement"}
  <2>1. plan \in {Aims(x, "superseded") : x \in Appropriate(source)}
    BY <1>9, Zenon DEF Plans
  <2> HIDE DEF Aims, source
  <2> QED BY <1>2, <1>4, <1>5, <2>1
<1>10. CASE Pair(d) \cap Barred = {} /\ d.verdict.label = "retraction"
  <2>1. plan \in {Aims("confirmed", "superseded")}
    BY <1>10, Zenon DEF Plans
  <2> HIDE DEF Aims, source
  <2> QED BY <1>2, <1>5, <2>1
<1>11. CASE Pair(d) \cap Barred = {} /\ d.verdict.label = "contradiction"
  <2>1. plan \in {Both("disputed")} \cup
                  {[Both("disputed") EXCEPT ![c] = "current"] : c \in Decisive(d)}
    BY <1>11, Zenon DEF Plans
  <2> HIDE DEF Both
  <2> QED BY <1>3, <1>5, <2>1
<1>12. CASE Pair(d) \cap Barred = {} /\ d.verdict.label = "ambiguity"
  <2>1. plan \in {Both("disputed")}
    BY <1>12, Zenon DEF Plans
  <2> QED BY <1>5, <2>1
<1> QED BY <1>1, <1>6, <1>7, <1>8, <1>9, <1>10, <1>11, <1>12 DEF Labels

LEMMA PersistStep ==
  ASSUME BInv, NEW verdict \in Verdicts, NEW asOf \in Times, NEW at \in Times,
         Persist(verdict, asOf, at)
  PROVE  BInv' /\ AllKept
<1>1. PICK v \in versions, w \in versions :
        LET cites == {e \in evidence : e[1] \in {v.claim, w.claim} /\ IngestedAt[e[2]] <= asOf}
        IN  /\ v.claim = verdict.source /\ w.claim = verdict.target
            /\ {e[1] : e \in cites} = {v.claim, w.claim}
            /\ decisions' = decisions \cup
                 {[verdict |-> verdict, asOf |-> asOf, classifiedAt |-> at, cites |-> cites,
                   basis |-> [c \in {v.claim, w.claim} |-> IF c = v.claim THEN v.key ELSE w.key]]}
  BY DEF Persist
<1> DEFINE cites == {e \in evidence : e[1] \in {v.claim, w.claim} /\ IngestedAt[e[2]] <= asOf}
           basis == [c \in {v.claim, w.claim} |-> IF c = v.claim THEN v.key ELSE w.key]
           d == [verdict |-> verdict, asOf |-> asOf, classifiedAt |-> at, cites |-> cites, basis |-> basis]
<1>2. /\ v.claim = verdict.source /\ w.claim = verdict.target
      /\ {e[1] : e \in cites} = {v.claim, w.claim} /\ decisions' = decisions \cup {d}
  BY <1>1
<1>3. v \in Version /\ w \in Version /\ evidence \subseteq ClaimIds \X Sources
  BY DEF BInv, TypeOK
<1>4. v.claim # w.claim
  BY <1>2, BeliefsAssumption
<1>5. cites \subseteq {v.claim, w.claim} \X Sources /\ cites \subseteq evidence
  BY <1>3
<1>6. /\ basis \in [{v.claim, w.claim} -> AuditKeys \cup {Initial}]
      /\ basis[v.claim] = v.key /\ basis[w.claim] = w.key
  BY <1>3, <1>4 DEF Version
<1> HIDE DEF cites, basis
<1>7. /\ d.verdict = verdict /\ d.asOf = asOf /\ d.classifiedAt = at /\ d.cites = cites /\ d.basis = basis
      /\ Pair(d) = {v.claim, w.claim}
  BY <1>2 DEF Pair
<1> HIDE DEF d
<1>8. GoodDecision(d)
  BY <1>5, <1>6, <1>7 DEF GoodDecision
<1>9. Based(versions, d, evidence)
  <2>1. v \in BasisIn(versions, d) /\ w \in BasisIn(versions, d)
    BY <1>6, <1>7 DEF BasisIn
  <2>2. \A u \in BasisIn(versions, d) : u.claim \in {v.claim, w.claim}
    BY <1>7 DEF BasisIn
  <2>3. {u.claim : u \in BasisIn(versions, d)} = {v.claim, w.claim}
    BY <2>1, <2>2
  <2> QED BY <1>2, <1>5, <1>7, <2>3 DEF Based
<1>10. Founded(versions, decisions', resolutions, evidence)
  BY <1>2, <1>8, <1>9 DEF BInv, Founded
<1>11. UNCHANGED <<versions, transitions, announced, resolutions, evidence, forgotten, requeued>>
  BY DEF Persist, vars
<1>12. BInv'
  BY <1>10, <1>11 DEF BInv, TypeOK
<1>13. AllKept
  <2>1. versions \in SUBSET Version
    BY DEF BInv, TypeOK
  <2> QED BY <1>11, <2>1, KeepsItself DEF AllKept
<1> QED BY <1>12, <1>13

LEMMA SoundNow == BInv => /\ tables = Tables(versions, transitions, announced, decisions, resolutions)
                          /\ Sound(tables, evidence) /\ tables.versions = versions
BY SoundTables, FieldsOfTables DEF BInv, tables, Tables

\* What is written from sound tables meets the invariant again.
LEMMA WriteStep ==
  ASSUME NEW db, Write(db), Sound(db, evidence'),
         evidence' \subseteq ClaimIds \X Sources, forgotten' \subseteq Sources,
         \A e \in requeued' : e.pair \subseteq ClaimIds /\ e.source \in Sources
  PROVE  BInv'
<1>1. /\ versions' = db.versions /\ transitions' = db.transitions /\ announced' = db.announced
      /\ decisions' = db.decisions /\ resolutions' = db.resolutions
  BY DEF Write
<1>2. /\ Fits(versions', transitions', announced')
      /\ Founded(versions', decisions', resolutions', evidence')
  BY <1>1 DEF Sound
<1>3. TypeOK'
  BY <1>2 DEF TypeOK, Fits
<1> QED BY <1>2, <1>3 DEF BInv

LEMMA ResolveStep ==
  ASSUME BInv, NEW d \in decisions, NEW k \in ResolutionKeys, NEW asOf \in Times, NEW t \in Times,
         NEW plan \in Plans(d), Resolve(d, k, plan, asOf, t)
  PROVE  BInv' /\ AllKept
<1> DEFINE acts == Moves(d, plan)
           seen == Snapshot(tables, [decision |-> d, acts |-> acts])
           r == [key |-> k, decision |-> d, acts |-> acts, at |-> t, seen |-> seen]
<1>1. /\ MayAct(tables, r) /\ Write(Enact(tables, r))
      /\ UNCHANGED <<evidence, forgotten, requeued>>
  BY DEF Resolve
<1>2. /\ tables = Tables(versions, transitions, announced, decisions, resolutions)
      /\ Sound(tables, evidence) /\ tables.versions = versions
  BY SoundNow
<1>3. GoodDecision(d) /\ Based(versions, d, evidence)
  BY DEF BInv, Founded
<1>4. \A x : Basis(tables, x) = BasisIn(versions, x)
  BY <1>2 DEF Basis, BasisIn
<1>5. acts \in [DOMAIN acts -> Statuses] /\ DOMAIN acts \subseteq Pair(d)
  <2> DEFINE C == {v.claim : v \in {u \in BasisIn(versions, d) :
                     /\ u.claim \in DOMAIN plan
                     /\ u.status \notin {"superseded", "excluded"}
                     /\ u.status # plan[u.claim]}}
  <2>1. acts = [c \in C |-> plan[c]]
    BY <1>4 DEF Moves
  <2>2. C \subseteq Pair(d) /\ C \subseteq DOMAIN plan
    BY DEF BasisIn
  <2>3. \A c \in DOMAIN plan : plan[c] \in Statuses
    BY <1>3, PlansAreTyped DEF GoodDecision
  <2> HIDE DEF C, acts
  <2> QED BY <2>1, <2>2, <2>3
<1> HIDE DEF acts
<1>6. seen \subseteq Pair(d) \X (Times \cup {Open})
  <2> DEFINE q == [decision |-> d, acts |-> acts]
  <2>1. q.decision = d
    OBVIOUS
  <2>2. versions \subseteq Version
    BY DEF BInv, TypeOK
  <2>3. \A v \in BasisIn(versions, d) : v.claim \in Pair(d) /\ v.to \in Times \cup {Open}
    BY <2>2 DEF BasisIn, Version
  <2> HIDE DEF q
  <2>4. Snapshot(tables, q) \subseteq Pair(d) \X (Times \cup {Open})
    BY <1>4, <2>1, <2>3 DEF Snapshot
  <2> QED BY <2>4 DEF q
<1> HIDE DEF seen
<1>7. /\ r.key = k /\ r.decision = d /\ r.acts = acts /\ r.at = t /\ r.seen = seen
  OBVIOUS
<1> HIDE DEF r
<1>8. GoodResolution(r)
  BY <1>5, <1>6, <1>7 DEF GoodResolution, Acted
<1>9. Reinstated(tables, r) = tables
  <2>1. decisions \cup {r.decision} = decisions
    BY <1>7
  <2> QED BY <1>2, <2>1, ReinstatedTables
<1>10. Sound(Enact(tables, r), evidence) /\ Keeps(versions, Enact(tables, r).versions)
  <2>1. GoodDecision(r.decision) /\ Based(tables.versions, r.decision, evidence)
    BY <1>2, <1>3, <1>7
  <2> QED BY <1>1, <1>2, <1>8, <1>9, <2>1, EnactSound
<1>11. /\ evidence' \subseteq ClaimIds \X Sources /\ forgotten' \subseteq Sources
       /\ \A e \in requeued' : e.pair \subseteq ClaimIds /\ e.source \in Sources
  BY <1>1 DEF BInv, TypeOK
<1>12. BInv'
  <2>1. Sound(Enact(tables, r), evidence')
    BY <1>1, <1>10
  <2> QED BY <1>1, <1>11, <2>1, WriteStep
<1>13. AllKept
  BY <1>1, <1>10 DEF Write, AllKept
<1> QED BY <1>12, <1>13

LEMMA DeleteStep ==
  ASSUME BInv, NEW s \in Sources, DeleteSource(s)
  PROVE  /\ BInv'
         /\ evidence' = {e \in evidence : e[2] # s} /\ forgotten' = forgotten \cup {s}
         /\ \A v \in versions \ Unmade(Undone(s)) :
              \/ \E w \in versions' : w = [v EXCEPT !.to = w.to]
              \/ \A e \in evidence' : e[1] # v.claim
<1>1. /\ \E db \in Outcomes(s) : Write(db)
      /\ evidence' = {e \in evidence : e[2] # s}
      /\ forgotten' = forgotten \cup {s}
      /\ requeued' = requeued \cup
           {[pair |-> Pair(d), source |-> s] : d \in {e \in Direct(s) : Pair(e) \cap Retired(s) = {}}}
  <2>1. {e \in evidence : e[2] # s /\ e[1] \notin {}} = {e \in evidence : e[2] # s}
    OBVIOUS
  <2> QED BY <2>1 DEF DeleteSource, DeleteSourceWith, Outcomes
<1>2. PICK db \in Outcomes(s) : Write(db)
  BY <1>1
<1>3. /\ Sound(db, {e \in evidence : e[2] # s})
      /\ \A v \in versions \ Unmade(Undone(s)) :
           \/ \E w \in db.versions : w = [v EXCEPT !.to = w.to]
           \/ \A e \in {e \in evidence : e[2] # s} : e[1] # v.claim
  BY SoundNow, DeletionSound DEF BInv
<1>4. \A v \in versions \ Unmade(Undone(s)) :
        \/ \E w \in versions' : w = [v EXCEPT !.to = w.to]
        \/ \A e \in evidence' : e[1] # v.claim
  BY <1>1, <1>2, <1>3 DEF Write
<1>5. evidence' \subseteq ClaimIds \X Sources /\ forgotten' \subseteq Sources
  BY <1>1 DEF BInv, TypeOK
<1>6. \A e \in requeued' : e.pair \subseteq ClaimIds /\ e.source \in Sources
  <2>1. \A d \in Direct(s) : Pair(d) \subseteq ClaimIds
    <3> SUFFICES ASSUME NEW d \in Direct(s) PROVE Pair(d) \subseteq ClaimIds
      OBVIOUS
    <3>1. d.verdict \in Verdicts
      BY DEF Direct, BInv, Founded, GoodDecision
    <3> QED BY <3>1, PairOfTwo
  <2> QED BY <1>1, <2>1 DEF BInv
<1>7. BInv'
  <2>1. Sound(db, evidence')
    BY <1>1, <1>3
  <2> QED BY <1>2, <1>5, <1>6, <2>1, WriteStep
<1> QED BY <1>1, <1>4, <1>7

-----------------------------------------------------------------------------
\* Callers: what they write bears none of the keys of resolutions.

CallersOwn(S, R) ==
  \A z \in R : \/ \E v \in S : v.claim = z.claim /\ v.key = z.key
               \/ z.key \in CallerKeys \cup {ReplacementKey[x] : x \in CallerKeys}

LEMMA CallsRest ==
  ASSUME NEW S \in SUBSET Version, NEW D, NEW Q, NEW ev, Founded(S, D, Q, ev),
         NEW R, Keeps(S, R), CallersOwn(S, R)
  PROVE  Founded(R, D, Q, ev)
<1>1. Carries(S, R)
  BY KeptNames
<1>2. \A d \in D : GoodDecision(d) /\ Based(R, d, ev)
  BY <1>1, CarriesBased DEF Founded
<1>3. \A r \in Q : GoodResolution(r) /\ r.decision \in D /\ Enacted(R, r)
  BY <1>1, CarriesEnacted DEF Founded
<1>4. ASSUME NEW z \in R, NEW k \in ResolutionKeys, NEW c \in ClaimIds, z.key = ActionKey[<<k, c>>]
      PROVE  \E r \in Q : Made(r, z)
  <2>1. z.key \notin CallerKeys \cup {ReplacementKey[x] : x \in CallerKeys}
    <3>1. \A x \in CallerKeys :
            ActionKey[<<k, c>>] # x /\ ActionKey[<<k, c>>] # ReplacementKey[x]
      BY KeyFacts, Zenon
    <3> QED BY <1>4, <3>1
  <2>2. PICK v \in S : v.claim = z.claim /\ v.key = z.key
    BY <2>1 DEF CallersOwn
  <2>3. \E x \in ResolutionKeys \X ClaimIds : v.key = ActionKey[x]
    BY <1>4, <2>2
  <2>4. PICK r \in Q : Made(r, v)
    BY <2>3 DEF Founded
  <2> QED BY <2>2, <2>4 DEF Made
<1>5. \A z \in R : (\E x \in ResolutionKeys \X ClaimIds : z.key = ActionKey[x]) =>
        \E r \in Q : Made(r, z)
  BY <1>4
<1>6. /\ \A q, r \in Q : q.key = r.key => q = r
      /\ IsFiniteSet(Q)
  BY DEF Founded
<1> QED BY <1>2, <1>3, <1>5, <1>6 DEF Founded

LEMMA CallStep ==
  ASSUME BInv, Fits(versions', transitions', announced'),
         Keeps(versions, versions'), CallersOwn(versions, versions'),
         UNCHANGED <<evidence, forgotten, decisions, resolutions, requeued>>
  PROVE  BInv' /\ AllKept
<1>1. versions \in SUBSET Version
  BY DEF BInv, TypeOK
<1>2. Founded(versions', decisions, resolutions, evidence)
  BY <1>1, CallsRest DEF BInv
<1>3. TypeOK'
  BY DEF BInv, TypeOK, Fits
<1>4. BInv'
  BY <1>2, <1>3 DEF BInv
<1> QED BY <1>4 DEF AllKept

LEMMA TransitionStep ==
  ASSUME BInv, NEW c \in ClaimIds, NEW k \in CallerKeys, NEW t \in Times,
         NEW target \in Statuses \ {"candidate"}, Transition(c, k, target, t),
         UNCHANGED <<decisions, resolutions, requeued>>
  PROVE  BInv' /\ AllKept
<1>1. PICK v \in Current(c) :
        /\ MayBecome(c, v.status, target) /\ Follows(v, t)
        /\ versions' = (versions \ {v}) \cup {Closed(v, t), Opened(v, k, target, t)}
        /\ transitions' = transitions \cup {AuditOf(v, k, target, t, NoClaim)}
  BY DEF Transition
<1>2. v \in versions /\ v.claim = c /\ v.to = Open /\ v.from < t /\ v \in Version
  BY <1>1 DEF Current, Follows, BInv, TypeOK
<1>3. k \in Keys /\ k \in AuditKeys
  BY KeyFacts
<1>4. ~Used(k) /\ announced' = announced \cup {[key |-> k, claim |-> v.claim, replacement |-> NoClaim]}
      /\ UNCHANGED <<evidence, forgotten>>
  BY <1>2 DEF Transition
<1>5. TypeOK /\ Timelines /\ HistoriesAreLegal /\ AuditTrail
  BY FittingTables DEF BInv
<1>6. \A u \in versions : ~(u.claim = v.claim /\ u.key = k)
  BY <1>1, <1>2, <1>3, <1>4, <1>5, UnusedKeyIsNew
<1>7. \A a \in transitions : a.key # k
  BY <1>4 DEF Used
<1>8. Fits(versions', transitions', announced') /\ Keeps(versions, versions')
  <2>1. target \in Statuses /\ MayBecome(v.claim, v.status, target)
        /\ Fits(versions, transitions, announced)
    BY <1>1, <1>2 DEF BInv
  <2> QED BY <1>1, <1>2, <1>3, <1>4, <1>6, <1>7, <2>1, MoveFits
<1>9. CallersOwn(versions, versions')
  <2>1. /\ Closed(v, t).claim = v.claim /\ Closed(v, t).key = v.key
        /\ Opened(v, k, target, t).key = k
    BY <1>2 DEF Closed, Opened, Version
  <2> QED BY <1>1, <1>2, <2>1 DEF CallersOwn
<1> QED BY <1>4, <1>8, <1>9, CallStep

LEMMA CorrectStep ==
  ASSUME BInv, NEW c \in ClaimIds, NEW d \in ClaimIds, NEW k \in CallerKeys, NEW t \in Times,
         NEW target \in {"confirmed", "current"}, Correct(c, d, k, target, t),
         UNCHANGED <<decisions, resolutions, requeued>>
  PROVE  BInv' /\ AllKept
<1> DEFINE l == ReplacementKey[k]
<1>1. PICK v \in Current(c), w \in Current(d) :
        /\ w.status = "candidate"
        /\ versions' = (versions \ {v, w}) \cup
             {Closed(v, t), Opened(v, k, "superseded", t), Closed(w, t), Opened(w, l, target, t)}
        /\ transitions' = transitions \cup
             {AuditOf(v, k, "superseded", t, d), AuditOf(w, l, target, t, NoClaim)}
  BY DEF Correct
<1>2. /\ v \in versions /\ v.claim = c /\ v.to = Open /\ v \in Version
      /\ w \in versions /\ w.claim = d /\ w.to = Open /\ w \in Version
  BY <1>1 DEF Current, BInv, TypeOK
<1>3. k \in Keys /\ UNCHANGED <<evidence, forgotten>>
  BY KeyFacts DEF Correct
<1>4. Next
  BY <1>3 DEF Next
<1>5. /\ TypeOK /\ Timelines /\ HistoriesAreLegal /\ AuditTrail /\ Named(versions)
      /\ Paired(transitions)
  BY FittingTables DEF BInv, Fits
<1>6. TypeOK' /\ Timelines' /\ HistoriesAreLegal' /\ AuditTrail' /\ Named(versions')
  BY <1>4, <1>5, TypeStep, TimelinesStep, HistoriesStep, AuditStep
<1>7. /\ versions' \subseteq Version /\ transitions' \subseteq Audit /\ announced' \subseteq Event
      /\ Partitions(versions') /\ Legal(versions')
  BY <1>6 DEF TypeOK, Timelines, Partitions, HistoriesAreLegal, Legal
<1>8. Joins(versions', transitions') /\ Explained(versions', transitions')
      /\ AuditRows(transitions', announced')
  BY <1>6 DEF AuditTrail, Joins, Explained, AuditRows
<1>9. w.key = Initial
  BY <1>1, <1>2, <1>5 DEF Named
<1> DEFINE a == AuditOf(v, k, "superseded", t, d)
           b == AuditOf(w, l, target, t, NoClaim)
<1>10. /\ a.target = "superseded" /\ a.key = k /\ a.replacement = d /\ a.at = t
       /\ b.key = l /\ b.claim = d /\ b.before = Initial /\ b.at = t /\ b.target = target
       /\ b.replacement = NoClaim
  BY <1>2, <1>9 DEF AuditOf
<1>11. transitions' = transitions \cup {a, b}
  BY <1>1
<1> HIDE DEF a, b
<1>12. Paired(transitions')
  BY <1>5, <1>10, <1>11 DEF Paired
<1>13. Fits(versions', transitions', announced')
  BY <1>7, <1>8, <1>12, <1>6 DEF Fits
<1>14. /\ Closed(v, t).claim = v.claim /\ Closed(v, t).key = v.key
       /\ Closed(w, t).claim = w.claim /\ Closed(w, t).key = w.key
       /\ Opened(v, k, "superseded", t).key = k /\ Opened(w, l, target, t).key = l
  BY <1>2 DEF Closed, Opened, Version
<1>15. CallersOwn(versions, versions')
  BY <1>1, <1>2, <1>14 DEF CallersOwn
<1>16. Keeps(versions, versions')
  <2> SUFFICES ASSUME NEW u \in versions
               PROVE  \E z \in versions' : z = [u EXCEPT !.to = z.to] /\ (u.to # Open => z = u)
    BY DEF Keeps
  <2>1. u \in Version
    BY <1>5 DEF TypeOK
  <2>2. u = [u EXCEPT !.to = u.to] /\ Closed(u, t) = [u EXCEPT !.to = Closed(u, t).to]
    BY <2>1 DEF Closed, Version
  <2>3. CASE u \in {v, w}
    <3>1. Closed(u, t) \in versions' /\ u.to = Open
      BY <1>1, <1>2, <2>3
    <3> QED BY <2>2, <3>1
  <2>4. CASE u \notin {v, w}
    <3>1. u \in versions'
      BY <1>1, <2>4
    <3> QED BY <2>2, <3>1
  <2> QED BY <2>3, <2>4
<1> QED BY <1>3, <1>13, <1>15, <1>16, CallStep

-----------------------------------------------------------------------------
\* The claims that are extracted begin at an instant.
LEMMA EarliestIsATime == \A e \in Evidence : Earliest(e[1]) \in Times
<1> SUFFICES ASSUME NEW x \in Evidence PROVE Earliest(x[1]) \in Times
  OBVIOUS
<1> DEFINE c == x[1]
           B == {t \in Times : \E e \in Evidence : e[1] = c /\ IngestedAt[e[2]] = t}
<1>1. Evidence \subseteq ClaimIds \X Sources /\ IngestedAt \in [Sources -> Times]
  BY BeliefsAssumption, LifecycleAssumption
<1>2. B \subseteq Nat /\ B # {}
  BY <1>1, TimesAreNat
<1>3. PICK t \in B : \A y \in B : t <= y
  <2> HIDE DEF B
  <2> QED BY <1>2, LeastNumber
<1>4. /\ t \in Times /\ \E e \in Evidence : e[1] = c /\ IngestedAt[e[2]] = t
      /\ \A e \in Evidence : e[1] = c => t <= IngestedAt[e[2]]
  <2>1. \A e \in Evidence : e[1] = c => IngestedAt[e[2]] \in B
    BY <1>1
  <2> QED BY <1>3, <2>1
<1> QED BY <1>4 DEF Earliest

\* Each claim of the evidence begins with a candidate.
LEMMA BInvInit == BeliefInit => BInv
<1> SUFFICES ASSUME BeliefInit PROVE BInv
  OBVIOUS
<1> DEFINE First(c) == [claim |-> c, key |-> Initial, status |-> "candidate",
                        from |-> Earliest(c), to |-> Open]
           C == {e[1] : e \in Evidence}
<1>1. Evidence \subseteq ClaimIds \X Sources /\ IngestedAt \in [Sources -> Times]
  BY BeliefsAssumption, LifecycleAssumption
<1>2. C \subseteq ClaimIds
  BY <1>1
<1>3. \A c \in C : Earliest(c) \in Times
  BY EarliestIsATime
<1>4. \A c \in C : /\ First(c) \in Version /\ First(c).claim = c /\ First(c).key = Initial
                   /\ First(c).status = "candidate" /\ First(c).from = Earliest(c)
                   /\ First(c).to = Open
  BY <1>2, <1>3 DEF Version, Statuses
<1>5. versions = {First(c) : c \in C}
  BY DEF BeliefInit
<1> HIDE DEF First, C
<1>6. versions \subseteq Version
  BY <1>4, <1>5
<1>7. Partitions(versions)
  <2>1. \A c \in C : Earliest(c) < Open
    BY <1>3, TimesAreNat
  <2> QED BY <1>4, <1>5, <2>1 DEF Partitions
<1>8. Legal(versions)
  <2>1. \A c \in C : Earliest(c) <= Earliest(c) /\ Earliest(c) # Open
    BY <1>3, TimesAreNat
  <2> QED BY <1>4, <1>5, <2>1 DEF Legal
<1>9. Named(versions)
  BY <1>4, <1>5 DEF Named
<1>10. transitions = {} /\ announced = {} /\ decisions = {} /\ resolutions = {} /\ requeued = {}
       /\ forgotten = {} /\ evidence = Evidence
  BY DEF BeliefInit
<1>11. Fits(versions, transitions, announced)
  BY <1>4, <1>5, <1>6, <1>7, <1>8, <1>9, <1>10 DEF Fits, Joins, Explained, AuditRows, Paired
<1>12. Founded(versions, decisions, resolutions, evidence)
  <2>1. \A x \in ResolutionKeys \X ClaimIds : ActionKey[x] # Initial
    BY KeyFacts
  <2>2. IsFiniteSet({})
    BY FS_EmptySet
  <2> QED BY <1>4, <1>5, <1>10, <2>1, <2>2 DEF Founded
<1>13. TypeOK
  BY <1>1, <1>6, <1>10 DEF TypeOK
<1> QED BY <1>10, <1>11, <1>12, <1>13 DEF BInv

LEMMA DecideStep == BInv /\ Decide => BInv' /\ AllKept
<1> SUFFICES ASSUME BInv, Decide PROVE BInv' /\ AllKept
  OBVIOUS
<1>1. ASSUME NEW verdict \in Verdicts, NEW asOf \in Times, NEW at \in Times, Persist(verdict, asOf, at)
      PROVE  BInv' /\ AllKept
  BY <1>1, PersistStep
<1>2. ASSUME NEW d \in decisions, NEW k \in ResolutionKeys, NEW asOf \in Times, NEW t \in Times,
             NEW plan \in Plans(d), Resolve(d, k, plan, asOf, t)
      PROVE  BInv' /\ AllKept
  BY <1>2, ResolveStep
<1>3. ASSUME Call
      PROVE  BInv' /\ AllKept
  <2>1. ASSUME NEW c \in ClaimIds, NEW k \in CallerKeys, NEW t \in Times,
               NEW target \in Statuses \ {"candidate"}, Transition(c, k, target, t)
        PROVE  BInv' /\ AllKept
    BY <1>3, <2>1, TransitionStep DEF Call
  <2>2. ASSUME NEW c \in ClaimIds, NEW d \in ClaimIds, NEW k \in CallerKeys, NEW t \in Times,
               NEW target \in {"confirmed", "current"}, Correct(c, d, k, target, t)
        PROVE  BInv' /\ AllKept
    BY <1>3, <2>2, CorrectStep DEF Call
  <2> QED BY <1>3, <2>1, <2>2 DEF Call
<1>4. CASE Conclude
  BY <1>1, <1>2, <1>4 DEF Conclude
<1> QED BY <1>3, <1>4 DEF Decide

LEMMA BInvStep == BInv /\ [BeliefNext]_beliefVars => BInv' /\ Stays(versions', evidence')
<1> SUFFICES ASSUME BInv, [BeliefNext]_beliefVars
             PROVE  BInv' /\ Stays(versions', evidence')
  OBVIOUS
<1>1. CASE Decide
  BY <1>1, DecideStep, KeptStays DEF AllKept
<1>2. ASSUME NEW s \in Sources, DeleteSource(s)
      PROVE  BInv' /\ Stays(versions', evidence')
  <2>1. \A v \in Unmade(Undone(s)) : ResolverMade(v)
    BY DEF Unmade, Undone, ResolverMade
  <2> QED BY <1>2, <2>1, DeleteStep DEF Stays
<1>3. CASE UNCHANGED beliefVars
  <2>1. UNCHANGED <<versions, transitions, announced, decisions, resolutions, evidence,
                    forgotten, requeued>>
    BY <1>3 DEF beliefVars, vars
  <2>2. versions \in SUBSET Version
    BY DEF BInv, TypeOK
  <2>3. BInv'
    BY <2>1 DEF BInv, TypeOK
  <2> QED BY <2>1, <2>2, <2>3, KeepsItself, KeptStays
<1> QED BY <1>1, <1>2, <1>3 DEF BeliefNext

-----------------------------------------------------------------------------
\* What a deletion loses.

\* A resolution reads versions that began before it.
ReadBefore == \A r \in resolutions : \A v \in BasisIn(versions, r.decision) : v.from <= r.at

LEMMA OneName == ASSUME NEW S, NEW T, NEW N, Fits(S, T, N), NEW v \in S, NEW w \in S,
                        v.claim = w.claim, v.key = w.key
                 PROVE  v = w
BY DEF Fits, Named

\* While versions only stay, what a resolution reads began when it did.
LEMMA KeptReads ==
  ASSUME BInv, BInv', AllKept, NEW d \in decisions, NEW v \in BasisIn(versions', d)
  PROVE  \E u \in BasisIn(versions, d) : Alike(u, v)
<1>1. Based(versions, d, evidence) /\ versions \in SUBSET Version
  BY DEF BInv, Founded, TypeOK
<1>2. PICK u \in BasisIn(versions, d) : u.claim = v.claim
  BY <1>1 DEF Based, BasisIn
<1>3. u.key = v.key
  BY <1>2 DEF BasisIn
<1>4. Carries(versions, versions')
  BY <1>1, KeptNames DEF AllKept
<1>5. PICK z \in versions' : z.claim = u.claim /\ z.key = u.key /\ z.from = u.from
  BY <1>4 DEF Carries, BasisIn
<1>6. z = v
  BY <1>2, <1>3, <1>5, OneName DEF BInv, BasisIn
<1> QED BY <1>2, <1>5, <1>6 DEF Alike

LEMMA DecideReadsBefore == BInv /\ ReadBefore /\ Decide => ReadBefore'
<1> SUFFICES ASSUME BInv, ReadBefore, Decide, NEW r \in resolutions', NEW v \in BasisIn(versions', r.decision)
             PROVE  v.from <= r.at
  BY DEF ReadBefore, BasisIn, Pair
<1>1. BInv' /\ AllKept
  BY DecideStep
<1>2. CASE r \in resolutions
  <2>1. r.decision \in decisions
    BY <1>2 DEF BInv, Founded
  <2>2. PICK u \in BasisIn(versions, r.decision) : Alike(u, v)
    BY <1>1, <2>1, KeptReads
  <2> QED BY <1>2, <2>2 DEF ReadBefore, Alike
<1>3. ASSUME NEW d \in decisions, NEW k \in ResolutionKeys, NEW asOf \in Times, NEW t \in Times,
             NEW plan \in Plans(d), Resolve(d, k, plan, asOf, t), r \notin resolutions
      PROVE  v.from <= r.at
  <2> DEFINE q == [key |-> k, decision |-> d, acts |-> Moves(d, plan), at |-> t,
                   seen |-> Snapshot(tables, [decision |-> d, acts |-> Moves(d, plan)])]
  <2>1. asOf <= t /\ (\A u \in Basis(tables, d) : Recorded(u, asOf)) /\ Write(Enact(tables, q))
    BY <1>3 DEF Resolve
  <2>2. q.decision = d /\ q.at = t
    OBVIOUS
  <2> HIDE DEF q
  <2>3. resolutions' \subseteq resolutions \cup {q}
    <3>1. tables = Tables(versions, transitions, announced, decisions, resolutions)
      BY SoundNow
    <3>2. Enact(tables, q) = TablesEnacted(versions, transitions, announced, decisions, resolutions, q)
      BY <3>1, EnactedTables
    <3>3. Enact(tables, q).resolutions = resolutions \cup {q}
      BY <3>2, FieldsOfTables DEF TablesEnacted
    <3> QED BY <2>1, <3>3 DEF Write
  <2>4. r.decision = d /\ r.at = t
    BY <1>3, <2>2, <2>3
  <2>5. PICK u \in BasisIn(versions, d) : Alike(u, v)
    BY <1>1, <2>4, KeptReads
  <2>6. u \in Basis(tables, d)
    BY SoundNow DEF Basis, BasisIn
  <2>7. u.from <= asOf
    BY <2>1, <2>6 DEF Recorded
  <2>8. v.from = u.from /\ u.from \in Nat
    BY <2>5, TimesAreNat DEF BInv, TypeOK, Version, BasisIn, Alike
  <2>9. asOf \in Nat /\ t \in Nat
    BY TimesAreNat
  <2> QED BY <2>1, <2>4, <2>7, <2>8, <2>9
<1>4. ASSUME NEW verdict \in Verdicts, NEW asOf \in Times, NEW at \in Times, Persist(verdict, asOf, at)
      PROVE  resolutions' = resolutions
  BY <1>4 DEF Persist
<1>5. Call => resolutions' = resolutions
  BY DEF Call
<1> QED BY <1>2, <1>3, <1>4, <1>5 DEF Decide, Conclude

\* What a deletion leaves was there under the same name, and began when it did.
LEMMA DeletionReads ==
  ASSUME BInv, NEW s \in Sources, NEW db, NEW start, NEW o, NEW n, ReplaysInto(s, db, start, o, n)
  PROVE  /\ db.resolutions \subseteq resolutions
         /\ \A v \in db.versions : \E u \in versions : Alike(u, v)
<1>1. /\ n \in Nat /\ 0 \in 0 .. n /\ n \in 0 .. n
      /\ db = Replayed(o, start, s)[n] /\ Replayed(o, start, s)[0] = start
      /\ start.versions = Remains(s) /\ start.resolutions = resolutions \ Undone(s)
      /\ \A j \in 1 .. n : o[j] \in resolutions
  <2>1. n \in Nat /\ Len(o) = n /\ o \in [1 .. n -> Spared(s)]
    BY DEF ReplaysInto
  <2>2. Chain(Replayed(o, start, s), n, o, start, s)
    BY <2>1, ReplayedIsAChain
  <2>3. Replayed(o, start, s)[0] = start
    BY <2>1, <2>2 DEF Chain
  <2> QED BY <2>1, <2>3 DEF ReplaysInto, Spared, Undone
<1>2. /\ db.resolutions \subseteq start.resolutions \cup {o[j] : j \in 1 .. n}
      /\ \A v \in db.versions :
           (\E u \in start.versions : Alike(u, v)) \/ \E j \in 1 .. n : WrittenBy(o[j], v)
  <2>1. n \in 0 .. n /\ 0 + 1 = 1
    BY <1>1
  <2> QED BY <1>1, <2>1, ReplayNames
<1>3. \A u \in start.versions : \E y \in versions : Alike(y, u)
  <2>1. ASSUME NEW u \in Remains(s) PROVE \E y \in versions : Alike(y, u)
    <3>1. CASE u \in versions
      BY <3>1 DEF Alike
    <3>2. ASSUME NEW y \in versions, u = Closed(y, Open) PROVE \E x \in versions : Alike(x, u)
      <4>1. y \in Version
        BY DEF BInv, TypeOK
      <4>2. Alike(y, u)
        BY <3>2, <4>1 DEF Alike, Closed, Version
      <4> QED BY <4>2
    <3> QED BY <3>1, <3>2 DEF Remains, Outside, Uncovered, Below
  <2> QED BY <1>1, <2>1
<1>4. ASSUME NEW v \in db.versions PROVE \E u \in versions : Alike(u, v)
  <2>1. ASSUME NEW j \in 1 .. n, WrittenBy(o[j], v) PROVE \E u \in versions : Alike(u, v)
    <3>1. o[j] \in resolutions
      BY <1>1
    <3> QED BY <2>1, <3>1, WrittenIsThere DEF BInv
  <2>2. ASSUME NEW u \in start.versions, Alike(u, v) PROVE \E y \in versions : Alike(y, v)
    BY <1>3, <2>2 DEF Alike
  <2> QED BY <1>2, <2>1, <2>2
<1> QED BY <1>1, <1>2, <1>4

LEMMA DecideAdds == Decide => decisions \subseteq decisions' /\ resolutions \subseteq resolutions'
<1> SUFFICES ASSUME Decide PROVE decisions \subseteq decisions' /\ resolutions \subseteq resolutions'
  OBVIOUS
<1>1. ASSUME NEW verdict, NEW asOf, NEW at, Persist(verdict, asOf, at)
      PROVE  decisions \subseteq decisions' /\ resolutions \subseteq resolutions'
  BY <1>1 DEF Persist
<1>2. ASSUME NEW d, NEW k, NEW plan, NEW asOf, NEW t, Resolve(d, k, plan, asOf, t)
      PROVE  decisions \subseteq decisions' /\ resolutions \subseteq resolutions'
  <2> DEFINE acts == Moves(d, plan)
             r == [key |-> k, decision |-> d, acts |-> acts, at |-> t,
                   seen |-> Snapshot(tables, [decision |-> d, acts |-> acts])]
             db == Enact(tables, r)
  <2>1. decisions' = db.decisions /\ resolutions' = db.resolutions
    BY <1>2 DEF Resolve, Write
  <2> HIDE DEF r
  <2>2. tables = Tables(versions, transitions, announced, decisions, resolutions)
    BY DEF tables, Tables
  <2>3. db = TablesEnacted(versions, transitions, announced, decisions, resolutions, r)
    BY <2>2, EnactedTables
  <2> DEFINE R == MovedVersions(versions, ActedOn(versions, r), r.key, r.acts, r.at)
             U == transitions \cup MovedRows(ActedOn(versions, r), r.key, r.acts, r.at)
             M == announced \cup MovedEvents(ActedOn(versions, r), r.key)
             W == resolutions \cup {r}
  <2>4. TablesEnacted(versions, transitions, announced, decisions, resolutions, r) =
          Tables(R, U, M, decisions, W)
    BY DEF TablesEnacted
  <2> HIDE DEF db, R, U, M, W
  <2>5. db.decisions = decisions /\ db.resolutions = W
    BY <2>3, <2>4, FieldsOfTables
  <2> QED BY <2>1, <2>5 DEF W
<1>3. CASE Call
  BY <1>3 DEF Call
<1> QED BY <1>1, <1>2, <1>3 DEF Decide, Conclude

LEMMA SparedAreReplayed ==
  ASSUME BInv, NEW s \in Sources, NEW db, NEW start, NEW o, NEW n, ReplaysInto(s, db, start, o, n),
         NEW r \in Spared(s)
  PROVE  \E i \in 1 .. n : o[i] = r
<1>1. IsFiniteSet(Spared(s))
  <2>1. Spared(s) \subseteq resolutions
    BY DEF Spared, Undone
  <2> QED BY <2>1, FS_Subset DEF BInv, Founded
<1>2. /\ n = Cardinality(Spared(s)) /\ n \in Nat /\ o \in [1 .. n -> Spared(s)]
      /\ \A i, j \in 1 .. n : i < j => o[i] # o[j]
  BY DEF ReplaysInto, Orders
<1>3. o \in Injection(1 .. n, Spared(s))
  <2>1. \A i, j \in 1 .. n : o[i] = o[j] => i = j
    <3> SUFFICES ASSUME NEW i \in 1 .. n, NEW j \in 1 .. n, o[i] = o[j], i # j PROVE FALSE
      OBVIOUS
    <3>1. i < j \/ j < i
      BY <1>2
    <3> QED BY <1>2, <3>1
  <2> QED BY <1>2, <2>1 DEF Injection, IsInjective
<1>4. Cardinality(1 .. n) = n
  BY <1>2, FS_Interval
<1>5. o \in Surjection(1 .. n, Spared(s))
  BY <1>1, <1>2, <1>3, <1>4, FS_Injection
<1> QED BY <1>5 DEF Surjection

\* A spared resolution that is lost waited for a version that another one of its
\* instant wrote after its turn.
LEMMA LostIsTied ==
  ASSUME BInv, ReadBefore, NEW s \in Sources, NEW db, NEW start, NEW o, NEW n,
         ReplaysInto(s, db, start, o, n), NEW r \in resolutions, r \notin db.resolutions,
         r.decision \notin Direct(s),
         \A v \in BasisIn(versions, r.decision) :
           \E w \in db.versions : w.claim = v.claim /\ w.key = v.key
  PROVE  \E q \in resolutions \ {r} : q.at = r.at
<1> DEFINE R == Replayed(o, start, s)
           d == r.decision
<1>1. /\ n \in Nat /\ db = R[n] /\ R[0] = start
      /\ start.resolutions = resolutions \ Undone(s)
      /\ \A j \in 1 .. n : o[j] \in resolutions /\ R[j] = Redone(R[j-1], o[j], s)
      /\ \A i, j \in 1 .. n : i < j => o[i] # o[j] /\ o[i].at <= o[j].at
  <2>1. n \in Nat /\ Len(o) = n /\ o \in [1 .. n -> Spared(s)] /\ n = Cardinality(Spared(s))
    BY DEF ReplaysInto
  <2>2. R = [i \in 0 .. n |-> IF i = 0 THEN start ELSE Redone(R[i-1], o[i], s)]
    <3>1. Chain(R, n, o, start, s)
      BY <2>1, ReplayedIsAChain
    <3> HIDE DEF R
    <3> QED BY <3>1 DEF Chain
  <2>3. R[0] = start /\ \A j \in 1 .. n : R[j] = Redone(R[j-1], o[j], s)
    <3> HIDE DEF R
    <3>1. 1 .. n \subseteq 0 .. n /\ 0 \notin 1 .. n /\ 0 \in 0 .. n
      BY <2>1
    <3> QED BY <2>2, <3>1
  <2>4. /\ db = R[n] /\ start.resolutions = resolutions \ Undone(s)
        /\ \A i, j \in 1 .. n : i < j => o[i] # o[j] /\ o[i].at <= o[j].at
    BY DEF ReplaysInto, Orders
  <2>5. Spared(s) \subseteq resolutions
    BY DEF Spared, Undone
  <2> QED BY <2>1, <2>3, <2>4, <2>5
<1> HIDE DEF R
<1>2. \A m \in 0 .. n :
        /\ R[m].resolutions \subseteq db.resolutions
        /\ \A v \in db.versions :
             \/ \E u \in R[m].versions : Alike(u, v)
             \/ \E j \in m+1 .. n : WrittenBy(o[j], v)
  <2> SUFFICES ASSUME NEW m \in 0 .. n
               PROVE  /\ R[m].resolutions \subseteq R[n].resolutions
                      /\ \A v \in R[n].versions :
                           \/ \E u \in R[m].versions : Alike(u, v)
                           \/ \E j \in m+1 .. n : WrittenBy(o[j], v)
    BY <1>1
  <2>1. n \in m .. n
    BY <1>1
  <2> QED BY <2>1, ReplayNames DEF R
<1>3. r \in Spared(s)
  <2>1. 0 \in 0 .. n
    BY <1>1
  <2>2. r \notin resolutions \ Undone(s)
    BY <1>1, <1>2, <2>1
  <2> QED BY <2>2 DEF Spared
<1>4. PICK i \in 1 .. n : o[i] = r
  BY <1>3, SparedAreReplayed
<1>5. i \in 0 .. n /\ i-1 \in 0 .. n
  BY <1>1
<1>6. ~Eligible(R[i-1], r, s)
  <2>1. Sound(R[i-1], {e \in evidence : e[2] # s})
    BY <1>5, ReplaysAreSound DEF R
  <2>2. R[i] = Redone(R[i-1], r, s)
    BY <1>1, <1>4
  <2>3. Eligible(R[i-1], r, s) => r \in R[i].resolutions
    BY <2>1, <2>2, RedoneNames
  <2> QED BY <1>2, <1>5, <2>3
<1>7. R[i] = R[i-1]
  BY <1>1, <1>4, <1>6 DEF Redone
<1>8. Based(versions, d, evidence) /\ d \in decisions
  BY DEF BInv, Founded
<1>9. PICK c \in Pair(d) : \A u \in R[i].versions : ~(u.claim = c /\ u.key = d.basis[c])
  <2>1. d.cites \subseteq {e \in evidence : e[2] # s} /\ {e[1] : e \in d.cites} = Pair(d)
    BY <1>8 DEF Based, Direct
  <2>2. {v.claim : v \in Basis(R[i], d)} # Pair(d)
    BY <1>6, <1>7, <2>1 DEF Eligible
  <2>3. \A v \in Basis(R[i], d) : v.claim \in Pair(d)
    BY DEF Basis
  <2>4. PICK c \in Pair(d) : \A v \in Basis(R[i], d) : v.claim # c
    BY <2>2, <2>3
  <2> QED BY <2>4 DEF Basis
<1>10. PICK v \in BasisIn(versions, d) : v.claim = c
  BY <1>8 DEF Based
<1>11. PICK w \in db.versions : w.claim = c /\ w.key = d.basis[c]
  <2>1. v.key = d.basis[c]
    BY <1>10 DEF BasisIn
  <2> QED BY <1>10, <2>1
<1>12. PICK j \in i+1 .. n : WrittenBy(o[j], w)
  BY <1>2, <1>5, <1>9, <1>11 DEF Alike
<1>13. j \in 1 .. n /\ i < j
  BY <1>1
<1>14. o[j] \in resolutions /\ o[j] # r /\ r.at <= o[j].at
  BY <1>1, <1>4, <1>13
<1>15. PICK u \in versions : Alike(u, w)
  BY <1>11, DeletionReads
<1>16. u \in BasisIn(versions, d)
  BY <1>9, <1>11, <1>15 DEF Alike, BasisIn
<1>17. u.from = o[j].at
  BY <1>12, <1>15 DEF WrittenBy, Alike
<1>18. o[j].at <= r.at
  BY <1>16, <1>17 DEF ReadBefore
<1>19. o[j].at \in Nat /\ r.at \in Nat
  BY <1>14, TimesAreNat DEF BInv, Founded, GoodResolution
<1>20. o[j].at = r.at
  BY <1>14, <1>18, <1>19
<1> QED BY <1>14, <1>20

LEMMA DeleteReadsBefore ==
  ASSUME BInv, ReadBefore, NEW s \in Sources, DeleteSource(s)
  PROVE  /\ ReadBefore'
         /\ \A r \in resolutions : Lost(r) => \E q \in resolutions \ {r} : q.at = r.at
<1>1. PICK db \in Outcomes(s) : Write(db)
  BY DEF DeleteSource, DeleteSourceWith, Outcomes
<1>2. PICK start, o, n : ReplaysInto(s, db, start, o, n)
  BY SoundNow, DeletionReplays DEF BInv
<1>3. versions' = db.versions /\ resolutions' = db.resolutions
  BY <1>1 DEF Write
<1>4. ASSUME NEW r \in resolutions', NEW v \in BasisIn(versions', r.decision)
      PROVE  v.from <= r.at
  <2>1. r \in resolutions /\ v \in db.versions
    BY <1>2, <1>3, <1>4, DeletionReads DEF BasisIn
  <2>2. PICK u \in versions : Alike(u, v)
    BY <1>2, <2>1, DeletionReads
  <2>3. u \in BasisIn(versions, r.decision)
    BY <1>4, <2>2 DEF BasisIn, Alike
  <2> QED BY <2>1, <2>2, <2>3 DEF ReadBefore, Alike
<1>5. ASSUME NEW r \in resolutions, Lost(r)
      PROVE  \E q \in resolutions \ {r} : q.at = r.at
  <2>1. /\ r \notin db.resolutions
        /\ \A e \in r.decision.cites : e[2] \notin forgotten'
        /\ \A v \in Basis(tables, r.decision) : \E w \in versions' : w.claim = v.claim /\ w.key = v.key
    BY <1>3, <1>5 DEF Lost
  <2>2. s \in forgotten'
    BY DEF DeleteSource, DeleteSourceWith
  <2>3. r.decision \notin Direct(s)
    BY <2>1, <2>2 DEF Direct
  <2>4. Basis(tables, r.decision) = BasisIn(versions, r.decision)
    BY SoundNow DEF Basis, BasisIn
  <2> QED BY <1>2, <1>3, <2>1, <2>3, <2>4, LostIsTied
<1> QED BY <1>4, <1>5 DEF ReadBefore, BasisIn, Pair

LEMMA OrderStep ==
  BInv /\ ReadBefore /\ [BeliefNext]_beliefVars =>
    /\ BInv' /\ ReadBefore'
    /\ [\A r \in resolutions : Lost(r) => \E q \in resolutions \ {r} : q.at = r.at]_beliefVars
<1> SUFFICES ASSUME BInv, ReadBefore, [BeliefNext]_beliefVars
             PROVE  /\ BInv' /\ ReadBefore'
                    /\ [\A r \in resolutions : Lost(r) => \E q \in resolutions \ {r} : q.at = r.at]_beliefVars
  OBVIOUS
<1>1. BInv'
  BY BInvStep
<1>2. CASE Decide
  <2>1. resolutions \subseteq resolutions'
    BY <1>2, DecideAdds
  <2> QED BY <1>1, <1>2, <2>1, DecideReadsBefore DEF Lost
<1>3. CASE UNCHANGED beliefVars
  <2>1. versions' = versions /\ resolutions' = resolutions
    BY <1>3 DEF beliefVars, vars
  <2>2. ReadBefore'
    BY <2>1 DEF ReadBefore, BasisIn, Pair
  <2> QED BY <1>1, <1>3, <2>2
<1>4. ASSUME NEW s \in Sources, DeleteSource(s)
      PROVE  /\ BInv' /\ ReadBefore'
             /\ [\A r \in resolutions : Lost(r) => \E q \in resolutions \ {r} : q.at = r.at]_beliefVars
  BY <1>1, <1>4, DeleteReadsBefore
<1> QED BY <1>2, <1>3, <1>4 DEF BeliefNext

LEMMA BInvSound == BInv => BeliefsStaySound /\ LineageIsLive
<1> SUFFICES ASSUME BInv PROVE BeliefsStaySound /\ LineageIsLive
  OBVIOUS
<1>1. TypeOK /\ Timelines /\ HistoriesAreLegal /\ AuditTrail
  BY FittingTables DEF BInv
<1>2. BeliefTypeOK
  BY DEF BInv, Founded, GoodDecision, GoodResolution, BeliefTypeOK
<1>3. \A d : Basis(tables, d) = BasisIn(versions, d)
  BY SoundNow DEF Basis, BasisIn
<1>4. LineageIsLive
  BY <1>3 DEF BInv, Founded, Based, Enacted, LineageIsLive, ResolverMade
<1> QED BY <1>1, <1>2, <1>4 DEF BeliefsStaySound

THEOREM BInvAlways == BeliefSpec => []BInv
<1>1. BInv /\ [BeliefNext]_beliefVars => BInv'
  BY BInvStep
<1> QED BY <1>1, BInvInit, PTL DEF BeliefSpec

\* Resolutions, rewinds and replays keep what Lifecycle promises of its tables: one
\* timeline for each claim, legal histories and an audit trail that fits them, also
\* after any number of deletions (BeliefResolutionService.resolve,
\* IngestionService.delete_source).
THEOREM BeliefsAlwaysSound == BeliefSpec => []BeliefsStaySound
BY BInvAlways, BInvSound, PTL

\* Nothing derived outlives what it was derived from: decisions have their evidence
\* and versions, resolutions their decisions and both ends of each act, and versions
\* under a resolution's key their resolution.
THEOREM LineageAlwaysLive == BeliefSpec => []LineageIsLive
BY BInvAlways, BInvSound, PTL

\* No deletion takes a version that ingestion or a caller made, while its claim has
\* evidence; only where it ends may change (_rewind_conflict_lineage).
THEOREM CallersHistoryAlwaysStays == BeliefSpec => CallersHistoryStays
<1>1. BInv /\ [BeliefNext]_beliefVars =>
        [\A v \in versions : ~ResolverMade(v) =>
           \/ \E w \in versions' : w = [v EXCEPT !.to = w.to]
           \/ \A e \in evidence' : e[1] # v.claim]_beliefVars
  BY BInvStep DEF Stays
<1> QED BY <1>1, BInvAlways, PTL DEF BeliefSpec, CallersHistoryStays

\* A deletion loses no resolution that it could carry out again, unless another one
\* has the same instant: the survivors are replayed in the order of their clocks, and
\* what one of them reads was written before it (_replay_surviving_resolutions).
THEOREM ReplayAlwaysKeepsOrder == BeliefSpec => ReplayKeepsOrder
<1>1. BeliefInit => BInv /\ ReadBefore
  BY BInvInit DEF BeliefInit, ReadBefore
<1>2. BInv /\ ReadBefore /\ [BeliefNext]_beliefVars => BInv' /\ ReadBefore'
  BY OrderStep
<1>3. BInv /\ ReadBefore /\ [BeliefNext]_beliefVars =>
        [\A r \in resolutions : Lost(r) => \E q \in resolutions \ {r} : q.at = r.at]_beliefVars
  BY OrderStep
<1> QED BY <1>1, <1>2, <1>3, PTL DEF BeliefSpec, ReplayKeepsOrder
=============================================================================
