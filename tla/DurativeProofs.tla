--------------------------- MODULE DurativeProofs ---------------------------
(***************************************************************************)
(* Theorems of module Durative, for any claims, propositions, validity and *)
(* clocks.                                                                 *)
(*                                                                         *)
(* Runs write versions without audit rows and deletions take derived       *)
(* claims along, so the invariant of BeliefsProofs does not hold here; all *)
(* that is needed of versions is that nobody ends a claim's timeline       *)
(* without opening the next version (Plain, Moved).                        *)
(***************************************************************************)
EXTENDS Durative, BeliefsProofs

ResolverKey(k) == \E x \in ResolutionKeys \X ClaimIds : k = ActionKey[x]

IsVersion(v) ==
  /\ v = [claim |-> v.claim, key |-> v.key, status |-> v.status, from |-> v.from, to |-> v.to]
  /\ v.claim \in ClaimIds /\ v.status \in Statuses
  /\ v.from \in Times /\ v.to \in Times \cup {Open}

\* Versions of which resolutions have written none that begins a claim or makes it a
\* candidate.
Plain(S) ==
  /\ \A v \in S : IsVersion(v)
  /\ \A v \in S : v.claim \in Extracted => v.key \in AuditKeys \cup {Initial}
  /\ \A v \in S : v.status = "candidate" => ~ResolverKey(v.key)
  /\ \A v \in S : ResolverKey(v.key) =>
       \E u \in S : u.claim = v.claim /\ u.to = v.from /\ u.from < v.from

Live(S) == {v.claim : v \in {u \in S : u.to = Open}}
ClaimsOf(S) == {v.claim : v \in S}
NamesOf(S) == {<<v.claim, v.key>> : v \in S}

\* What a move from S to R leaves of claims and names.
Moved(S, R) ==
  /\ NamesOf(S) \subseteq NamesOf(R)
  /\ Live(S) \subseteq Live(R)
  /\ ClaimsOf(R) \subseteq ClaimsOf(S)

LEMMA OpenIsNoTime == \A t \in Times : t # Open /\ t \in Nat
BY TimesAreNat

LEMMA ClosedFields ==
  ASSUME NEW v, IsVersion(v), NEW t, t \in Times \cup {Open}
  PROVE  /\ IsVersion(Closed(v, t))
         /\ Closed(v, t).claim = v.claim /\ Closed(v, t).key = v.key
         /\ Closed(v, t).status = v.status /\ Closed(v, t).from = v.from /\ Closed(v, t).to = t
<1> DEFINE c == v.claim
           k == v.key
           x == v.status
           f == v.from
           o == v.to
           w == [claim |-> c, key |-> k, status |-> x, from |-> f, to |-> o]
<1>1. v = w
  BY DEF IsVersion
<1>2. c \in ClaimIds /\ x \in Statuses /\ f \in Times
  BY DEF IsVersion
<1> HIDE DEF c, k, x, f, o
<1>3. Closed(w, t) = [claim |-> c, key |-> k, status |-> x, from |-> f, to |-> t]
  BY DEF Closed
<1> HIDE DEF w
<1>4. Closed(v, t) = [claim |-> c, key |-> k, status |-> x, from |-> f, to |-> t]
  BY <1>1, <1>3
<1>5. IsVersion(Closed(v, t))
  BY <1>2, <1>4 DEF IsVersion
<1> QED BY <1>4, <1>5 DEF c, k, x, f

LEMMA OpenedFields ==
  ASSUME NEW v, IsVersion(v), NEW k, NEW x \in Statuses, NEW t \in Times
  PROVE  LET w == Opened(v, k, x, t)
         IN /\ IsVersion(w) /\ w.claim = v.claim /\ w.key = k /\ w.status = x
            /\ w.from = t /\ w.to = Open
BY DEF Opened, IsVersion

\* Open versions A get successors: transitions, corrections and resolutions.
Succession(S, A, K, X, t) ==
  (S \ A) \cup {Closed(v, t) : v \in A} \cup {Opened(v, K[v], X[v], t) : v \in A}
LEMMA MovePlain ==
  ASSUME NEW S, Plain(S), NEW A \in SUBSET S, NEW t \in Times, NEW K, NEW X,
         \A v \in A : /\ v.to = Open /\ v.from < t
                      /\ K[v] \in AuditKeys /\ X[v] \in Statuses \ {"candidate"}
  PROVE  Plain(Succession(S, A, K, X, t)) /\ Moved(S, Succession(S, A, K, X, t))
<1> DEFINE cl(v) == Closed(v, t)
           op(v) == Opened(v, K[v], X[v], t)
           R == Succession(S, A, K, X, t)
<1>1. \A v \in A : /\ IsVersion(cl(v)) /\ cl(v).claim = v.claim /\ cl(v).key = v.key
                   /\ cl(v).status = v.status /\ cl(v).from = v.from /\ cl(v).to = t
  BY ClosedFields DEF Plain
<1>2. \A v \in A : /\ IsVersion(op(v)) /\ op(v).claim = v.claim /\ op(v).key = K[v]
                   /\ op(v).status = X[v] /\ op(v).from = t /\ op(v).to = Open
  BY OpenedFields DEF Plain
<1>3. \A v \in S : IsVersion(v) /\ v.from \in Times
  BY DEF Plain, IsVersion
<1>4. \A v \in A : v \in S /\ cl(v) \in R /\ op(v) \in R
  BY DEF Succession
<1>5. S \ A \subseteq R /\ \A w \in R : w \in S \ A \/ \E v \in A : w = cl(v) \/ w = op(v)
  BY DEF Succession
<1> HIDE DEF cl, op, R
<1>6. ASSUME NEW v \in S, ResolverKey(v.key)
      PROVE  \E u \in R : u.claim = v.claim /\ u.to = v.from /\ u.from < v.from
  <2>1. PICK u \in S : u.claim = v.claim /\ u.to = v.from /\ u.from < v.from
    BY <1>6 DEF Plain
  <2>2. u \notin A
    BY <1>3, <2>1, OpenIsNoTime
  <2> QED BY <1>5, <2>1, <2>2
<1>7. ASSUME NEW w \in R, ResolverKey(w.key)
      PROVE  \E u \in R : u.claim = w.claim /\ u.to = w.from /\ u.from < w.from
  <2>1. CASE w \in S \ A
    BY <1>6, <1>7, <2>1
  <2>2. ASSUME NEW v \in A, w = cl(v) PROVE \E u \in R : u.claim = w.claim /\ u.to = w.from /\ u.from < w.from
    BY <1>1, <1>4, <1>6, <1>7, <2>2
  <2>3. ASSUME NEW v \in A, w = op(v) PROVE \E u \in R : u.claim = w.claim /\ u.to = w.from /\ u.from < w.from
    BY <1>1, <1>2, <1>4, <2>3
  <2> QED BY <1>5, <2>1, <2>2, <2>3
<1>8. ASSUME NEW w \in R
      PROVE  /\ IsVersion(w) /\ w.claim \in ClaimsOf(S)
             /\ w.claim \in Extracted => w.key \in AuditKeys \cup {Initial}
             /\ w.status = "candidate" => ~ResolverKey(w.key)
  <2>1. CASE w \in S \ A
    BY <2>1 DEF Plain, ClaimsOf
  <2>2. ASSUME NEW v \in A, w = cl(v)
        PROVE  /\ IsVersion(w) /\ w.claim \in ClaimsOf(S)
               /\ w.claim \in Extracted => w.key \in AuditKeys \cup {Initial}
               /\ w.status = "candidate" => ~ResolverKey(w.key)
    BY <1>1, <1>4, <2>2 DEF Plain, ClaimsOf
  <2>3. ASSUME NEW v \in A, w = op(v)
        PROVE  /\ IsVersion(w) /\ w.claim \in ClaimsOf(S)
               /\ w.claim \in Extracted => w.key \in AuditKeys \cup {Initial}
               /\ w.status = "candidate" => ~ResolverKey(w.key)
    BY <1>2, <1>4, <2>3 DEF ClaimsOf
  <2> QED BY <1>5, <2>1, <2>2, <2>3
<1>9. ASSUME NEW v \in S PROVE <<v.claim, v.key>> \in NamesOf(R) /\ (v.to = Open => v.claim \in Live(R))
  <2>1. CASE v \in A
    BY <1>1, <1>2, <1>4, <2>1 DEF NamesOf, Live
  <2>2. CASE v \notin A
    BY <1>5, <2>2 DEF NamesOf, Live
  <2> QED BY <2>1, <2>2
<1>10. Plain(R)
  BY <1>7, <1>8 DEF Plain
<1>11. ClaimsOf(R) \subseteq ClaimsOf(S)
  BY <1>8 DEF ClaimsOf
<1>12. NamesOf(S) \subseteq NamesOf(R) /\ Live(S) \subseteq Live(R)
  BY <1>9 DEF NamesOf, Live
<1> QED BY <1>10, <1>11, <1>12 DEF Moved, R, cl, op

-----------------------------------------------------------------------------
\* What is derived, in claims D and runs Q, from versions S and evidence E.

Ids(D) == {d.claim : d \in D}

Housed(S, E, D) ==
  /\ E \subseteq ClaimIds \X Sources
  /\ \A x \in E : x[1] \in Live(S)
  /\ ClaimsOf(S) \subseteq {x[1] : x \in Evidence} \cup Ids(D)

Identified(D) ==
  \A d \in D :
    /\ d.proposition \in Propositions /\ <<d.proposition, d.time>> \in DOMAIN ReplacementId
    /\ d.claim \in {RootId[d.proposition], ReplacementId[<<d.proposition, d.time>>]}
    /\ \A e \in D : e.claim = d.claim => e = d

Supported(E, D) ==
  \A d \in D :
    /\ \E x \in E : x[1] = d.claim
    /\ \A x \in E : x[1] = d.claim =>
         \E y \in E : y[2] = x[2] /\ y[1] \in DOMAIN About /\ About[y[1]] = d.proposition

\* An inference i cites episodes, and its claim is stored with their sources.
Stands(i, S, E, D) ==
  /\ i = [proposition |-> i.proposition, cited |-> i.cited, claim |-> i.claim, version |-> i.version]
  /\ i.proposition \in Propositions
  /\ i.cited \subseteq ClaimIds \X (AuditKeys \cup {Initial}) \X Sources
  /\ \A x \in i.cited : x[1] \in DOMAIN About /\ <<x[1], x[3]>> \in E /\ <<x[1], x[2]>> \in NamesOf(S)
  /\ i.claim # NoClaim =>
       /\ \A x \in i.cited : <<i.claim, x[3]>> \in E
       /\ \E d \in D : d.claim = i.claim /\ d.proposition = i.proposition
       /\ <<i.claim, i.version>> \in NamesOf(S) /\ ~ResolverKey(i.version)

Justified(S, E, D, Q) ==
  \A r \in Q :
    /\ r = [event |-> r.event, at |-> r.at, input |-> r.input, inferences |-> r.inferences]
    /\ r.at \in Times
    /\ \A i \in r.inferences : Stands(i, S, E, D)

Good(S, E, D, Q) ==
  Plain(S) /\ Housed(S, E, D) /\ Identified(D) /\ Supported(E, D) /\ Justified(S, E, D, Q)

\* The resolutions and the instants that events are read from.
Filed(Q) == IsFiniteSet(Q) /\ \A r \in Q : r.key \in ResolutionKeys /\ r.at \in Times
Dated ==
  /\ \A a \in transitions : a.at \in Times
  /\ \A i \in inferred : i.claim \in ClaimIds /\ i.at \in Times
  /\ forgotten \subseteq Sources /\ deletedAt \in [Sources -> Times \cup {Open}]
  /\ \A s \in forgotten : deletedAt[s] \in Times
  /\ \A q \in requeued : q.source \in forgotten

DInv == Good(versions, evidence, derived, runs) /\ Filed(resolutions) /\ Dated

-----------------------------------------------------------------------------
\* Versions on their way through a deletion.

\* What the rewind leaves of versions, when it takes back the versions off.
LEMMA RewindPlain ==
  ASSUME NEW S, Plain(S), NEW off \in SUBSET S, \A v \in off : ResolverKey(v.key),
         \A v \in off, u \in S : u.claim = v.claim /\ v.from <= u.from => u \in off
  PROVE  /\ Plain(Uncovered(S, off)) /\ Live(S) \subseteq Live(Uncovered(S, off))
         /\ ClaimsOf(Uncovered(S, off)) \subseteq ClaimsOf(S)
         /\ NamesOf(S \ off) \subseteq NamesOf(Uncovered(S, off))
<1> DEFINE B == Below(S, off)
           a(v) == Closed(v, Open)
           R == Uncovered(S, off)
<1>1. \A v \in S : IsVersion(v) /\ v.from \in Nat /\ v.from # Open /\ v.claim \in ClaimsOf(S)
  BY OpenIsNoTime DEF Plain, IsVersion, ClaimsOf
<1>2. \A v \in B : v \in S /\ v \notin off /\ \E u \in off : u.claim = v.claim /\ u.from = v.to
  BY DEF Below
<1>3. \A v \in B : /\ IsVersion(a(v)) /\ a(v).claim = v.claim /\ a(v).key = v.key
                   /\ a(v).status = v.status /\ a(v).from = v.from /\ a(v).to = Open
  BY <1>1, <1>2, ClosedFields
<1>4. /\ \A v \in S : v \notin off /\ v \notin B => v \in R
      /\ \A v \in B : a(v) \in R
      /\ \A w \in R : (w \in S /\ w \notin off /\ w \notin B) \/ \E v \in B : w = a(v)
  BY DEF Uncovered
<1> HIDE DEF B, a, R
<1>5. ASSUME NEW v \in S, v \notin off, ResolverKey(v.key)
      PROVE  \E u \in R : u.claim = v.claim /\ u.to = v.from /\ u.from < v.from
  <2>1. PICK u \in S : u.claim = v.claim /\ u.to = v.from /\ u.from < v.from
    BY <1>5 DEF Plain
  <2>2. v.from \in Nat /\ u.from \in Nat
    BY <1>1
  <2>3. u.from <= v.from
    BY <2>1, <2>2
  <2>4. u \notin off
    BY <1>5, <2>1, <2>3
  <2>5. u \notin B
    <3> SUFFICES ASSUME u \in B PROVE FALSE
      OBVIOUS
    <3>1. PICK w \in off : w.claim = u.claim /\ w.from = u.to
      BY <1>2
    <3>2. w.from <= v.from
      BY <2>1, <2>2, <3>1
    <3> QED BY <1>5, <2>1, <3>1, <3>2
  <2> QED BY <1>4, <2>1, <2>4, <2>5
<1>6. ASSUME NEW w \in R
      PROVE  /\ IsVersion(w) /\ w.claim \in ClaimsOf(S)
             /\ w.claim \in Extracted => w.key \in AuditKeys \cup {Initial}
             /\ w.status = "candidate" => ~ResolverKey(w.key)
             /\ ResolverKey(w.key) => \E u \in R : u.claim = w.claim /\ u.to = w.from /\ u.from < w.from
  <2>1. PICK v \in S : /\ v \notin off /\ IsVersion(w) /\ w.claim = v.claim /\ w.key = v.key
                       /\ w.status = v.status /\ w.from = v.from
    BY <1>1, <1>2, <1>3, <1>4
  <2>2. /\ v.claim \in Extracted => v.key \in AuditKeys \cup {Initial}
        /\ v.status = "candidate" => ~ResolverKey(v.key)
    BY DEF Plain
  <2> QED BY <1>1, <1>5, <2>1, <2>2
<1>7. ASSUME NEW v \in S, v.to = Open PROVE v.claim \in Live(R)
  <2>1. CASE v \notin off
    <3>1. v \notin B
      BY <1>1, <1>2, <1>7
    <3> QED BY <1>4, <1>7, <2>1, <3>1 DEF Live
  <2>2. CASE v \in off
    <3> DEFINE N == {u.from : u \in {x \in off : x.claim = v.claim}}
    <3>1. N \subseteq Nat /\ N # {}
      BY <1>1, <2>2
    <3>2. PICK n \in N : \A m \in N : n <= m
      <4> HIDE DEF N
      <4> QED BY <3>1, LeastNumber
    <3>3. PICK w \in off : w.claim = v.claim /\ w.from = n
      BY <3>2
    <3>4. PICK u \in S : u.claim = w.claim /\ u.to = w.from /\ u.from < w.from
      BY <3>3 DEF Plain
    <3>5. u \notin off
      <4> SUFFICES ASSUME u \in off PROVE FALSE
        OBVIOUS
      <4>1. u.from \in N
        BY <3>3, <3>4
      <4>2. n <= u.from /\ n \in Nat /\ u.from \in Nat
        BY <1>1, <3>1, <3>2, <4>1
      <4> QED BY <3>3, <3>4, <4>2
    <3>6. u \in B
      BY <3>3, <3>4, <3>5 DEF B, Below
    <3>7. a(u) \in R /\ a(u).claim = v.claim /\ a(u).to = Open
      BY <1>3, <1>4, <3>3, <3>4, <3>6
    <3> QED BY <3>7 DEF Live
  <2> QED BY <2>1, <2>2
<1>8. ASSUME NEW v \in S, v \notin off PROVE <<v.claim, v.key>> \in NamesOf(R)
  BY <1>3, <1>4, <1>8 DEF NamesOf
<1>9. Plain(R)
  BY <1>6 DEF Plain
<1>10. Live(S) \subseteq Live(R)
  <2>1. \A c \in Live(S) : \E v \in S : v.to = Open /\ c = v.claim
    BY DEF Live
  <2> QED BY <1>7, <2>1
<1>11. ClaimsOf(R) \subseteq ClaimsOf(S)
  <2>1. \A c \in ClaimsOf(R) : \E w \in R : c = w.claim
    BY DEF ClaimsOf
  <2> QED BY <1>6, <2>1
<1>12. NamesOf(S \ off) \subseteq NamesOf(R)
  <2>1. \A n \in NamesOf(S \ off) : \E v \in S \ off : n = <<v.claim, v.key>>
    BY DEF NamesOf
  <2> QED BY <1>8, <2>1
<1> QED BY <1>9, <1>10, <1>11, <1>12 DEF R

\* The claims gone go with all their versions.
LEMMA OutsidePlain ==
  ASSUME NEW S, Plain(S), NEW gone
  PROVE  /\ Plain(Outside(S, gone))
         /\ ClaimsOf(Outside(S, gone)) = ClaimsOf(S) \ gone
         /\ Live(Outside(S, gone)) = Live(S) \ gone
         /\ \A v \in S : v.claim \notin gone => <<v.claim, v.key>> \in NamesOf(Outside(S, gone))
<1> DEFINE R == Outside(S, gone)
<1>1. R = {v \in S : v.claim \notin gone}
  BY DEF Outside
<1> HIDE DEF R
<1>2. Plain(R)
  BY <1>1 DEF Plain
<1>3. ClaimsOf(R) = ClaimsOf(S) \ gone /\ Live(R) = Live(S) \ gone
  BY <1>1 DEF ClaimsOf, Live
<1>4. \A v \in S : v.claim \notin gone => <<v.claim, v.key>> \in NamesOf(R)
  BY <1>1 DEF NamesOf
<1> QED BY <1>2, <1>3, <1>4 DEF R

LEMMA MovedChain ==
  /\ \A S : Moved(S, S)
  /\ \A S, R, U : Moved(S, R) /\ Moved(R, U) => Moved(S, U)
BY DEF Moved

\* Tables on their way, of which the resolutions are among Q.
Travels(db, Q) ==
  /\ db = Tables(db.versions, db.transitions, db.announced, db.decisions, db.resolutions)
  /\ Plain(db.versions) /\ db.resolutions \subseteq Q
  /\ \A a \in db.transitions : a.at \in Times

LEMMA TargetsAreTyped ==
  ASSUME NEW c, NEW x \in Statuses, NEW y, MayBecome(c, x, y)
  PROVE  y \in Statuses \ {"candidate"}
<1>1. y \in Successors[x]
  BY DEF MayBecome
<1> QED BY <1>1 DEF Statuses, Successors

\* A resolution that is carried out, stored or again.
LEMMA EnactPlain ==
  ASSUME NEW db, NEW Q, Travels(db, Q), NEW r \in Q,
         r.key \in ResolutionKeys, r.at \in Times, MayAct(db, r)
  PROVE  /\ Travels(Enact(db, r), Q) /\ Moved(db.versions, Enact(db, r).versions)
         /\ Enact(db, r).decisions = db.decisions /\ Enact(db, r).resolutions = db.resolutions \cup {r}
<1> DEFINE S == db.versions
           T == db.transitions
           N == db.announced
           D == db.decisions
           P == db.resolutions
           A == ActedOn(S, r)
           R == MovedVersions(S, A, r.key, r.acts, r.at)
           U == T \cup MovedRows(A, r.key, r.acts, r.at)
           M == N \cup MovedEvents(A, r.key)
           K == [v \in A |-> KeyOf(r.key, v)]
           X == [v \in A |-> r.acts[v.claim]]
<1>1. db = Tables(S, T, N, D, P) /\ Plain(S) /\ P \subseteq Q /\ \A a \in T : a.at \in Times
  BY DEF Travels
<1>2. \A v \in A : v.to = Open /\ v.from < r.at /\ MayBecome(v.claim, v.status, r.acts[v.claim])
  <2>1. A = {u \in Basis(db, r.decision) : u.claim \in Acted(r)}
    BY DEF Basis, BasisIn, ActedOn
  <2>2. \A v \in {u \in Basis(db, r.decision) : u.claim \in Acted(r)} :
          v.to = Open /\ MayBecome(v.claim, v.status, r.acts[v.claim]) /\ Follows(v, r.at)
    BY DEF MayAct
  <2> HIDE DEF A
  <2> QED BY <2>1, <2>2 DEF Follows
<1> HIDE DEF S, T, N, D, P
<1>3. A \in SUBSET S
  BY DEF ActedOn, BasisIn
<1> HIDE DEF A
<1>4. \A v \in A : v.claim \in ClaimIds /\ v.status \in Statuses
  BY <1>1, <1>3 DEF Plain, IsVersion
<1>5. \A v \in A : KeyOf(r.key, v) \in AuditKeys
  BY <1>4, KeyFacts DEF KeyOf
<1>6. \A v \in A : r.acts[v.claim] \in Statuses \ {"candidate"}
  BY <1>2, <1>4, TargetsAreTyped
<1>7. \A v \in A : K[v] = KeyOf(r.key, v) /\ X[v] = r.acts[v.claim]
  OBVIOUS
<1> HIDE DEF K, X
<1>8. \A v \in A : v.to = Open /\ v.from < r.at /\ K[v] \in AuditKeys /\ X[v] \in Statuses \ {"candidate"}
  BY <1>2, <1>5, <1>6, <1>7
<1>9. R = Succession(S, A, K, X, r.at)
  BY <1>7 DEF MovedVersions, Succession
<1> HIDE DEF R
<1>10. Plain(R) /\ Moved(S, R)
  <2> DEFINE t == r.at
  <2>1. t \in Times /\ \A v \in A : /\ v.to = Open /\ v.from < t
                                  /\ K[v] \in AuditKeys /\ X[v] \in Statuses \ {"candidate"}
    BY <1>8
  <2>2. R = Succession(S, A, K, X, t)
    BY <1>9
  <2> HIDE DEF t
  <2> QED BY <1>1, <1>3, <2>1, <2>2, MovePlain
<1>11. \A a \in U : a.at \in Times
  BY <1>1 DEF MovedRows, AuditOf
<1>12. Enact(db, r) = TablesEnacted(S, T, N, D, P, r)
  BY <1>1, EnactedTables
<1>13. TablesEnacted(S, T, N, D, P, r) = Tables(R, U, M, D, P \cup {r})
  BY DEF TablesEnacted, R, A
<1> HIDE DEF U, M
<1>14. LET db2 == Enact(db, r)
       IN /\ db2.versions = R /\ db2.transitions = U /\ db2.announced = M
          /\ db2.decisions = D /\ db2.resolutions = P \cup {r}
  BY <1>12, <1>13, FieldsOfTables
<1>15. Travels(Enact(db, r), Q)
  BY <1>1, <1>10, <1>11, <1>12, <1>13, <1>14 DEF Travels
<1> QED BY <1>10, <1>14, <1>15 DEF S, D, P

LEMMA RedonePlain ==
  ASSUME NEW db, NEW Q, Travels(db, Q), NEW r \in Q, NEW s,
         r.key \in ResolutionKeys, r.at \in Times, ~Drifts(db, r, s)
  PROVE  Travels(Redone(db, r, s), Q) /\ Moved(db.versions, Redone(db, r, s).versions)
<1>1. CASE ~Eligible(db, r, s)
  BY <1>1, MovedChain DEF Redone
<1>2. CASE Eligible(db, r, s)
  <2> DEFINE dc == Reinstated(db, r)
  <2>1. MayAct(db, r) /\ Redone(db, r, s) = Enact(dc, r)
    BY <1>2 DEF Drifts, Redone
  <2>2. db = Tables(db.versions, db.transitions, db.announced, db.decisions, db.resolutions)
    BY DEF Travels
  <2>3. dc = Tables(db.versions, db.transitions, db.announced, db.decisions \cup {r.decision}, db.resolutions)
    BY <2>2, ReinstatedTables
  <2>4. /\ dc.versions = db.versions /\ dc.transitions = db.transitions /\ dc.announced = db.announced
        /\ dc.decisions = db.decisions \cup {r.decision} /\ dc.resolutions = db.resolutions
    BY <2>3, FieldsOfTables
  <2> HIDE DEF dc
  <2>5. Travels(dc, Q)
    BY <2>3, <2>4 DEF Travels
  <2>6. MayAct(dc, r)
    BY <2>1, <2>4 DEF MayAct, Basis
  <2>7. Travels(Enact(dc, r), Q) /\ Moved(dc.versions, Enact(dc, r).versions)
    BY <2>5, <2>6, EnactPlain
  <2> QED BY <2>1, <2>4, <2>7
<1> QED BY <1>1, <1>2

LEMMA ReplayPlain ==
  ASSUME NEW n \in Nat, NEW o, Len(o) = n, NEW s, NEW start, NEW Q, Travels(start, Q),
         \A i \in 1 .. n : /\ o[i] \in Q /\ o[i].key \in ResolutionKeys /\ o[i].at \in Times
                           /\ ~Drifts(Replayed(o, start, s)[i-1], o[i], s)
  PROVE  /\ Travels(Replayed(o, start, s)[n], Q)
         /\ Moved(start.versions, Replayed(o, start, s)[n].versions)
<1> DEFINE R == Replayed(o, start, s)
           Ok(i) == Travels(R[i], Q) /\ Moved(start.versions, R[i].versions)
           B == {i \in 0 .. n : ~Ok(i)}
<1>1. /\ R[0] = start
      /\ \A i \in 1 .. n : R[i] = Redone(R[i-1], o[i], s)
  <2>1. R = [i \in 0 .. n |-> IF i = 0 THEN start ELSE Redone(R[i-1], o[i], s)]
    <3>1. Chain(R, n, o, start, s)
      BY ReplayedIsAChain
    <3> HIDE DEF R
    <3> QED BY <3>1 DEF Chain
  <2> HIDE DEF R
  <2> QED BY <2>1
<1>2. Ok(0)
  BY <1>1, MovedChain
<1>3. ASSUME NEW i \in 1 .. n, Ok(i-1) PROVE Ok(i)
  <2> DEFINE db == R[i-1]
             r == o[i]
  <2>1. Travels(db, Q) /\ Moved(start.versions, db.versions)
    BY <1>3
  <2>2. r \in Q /\ r.key \in ResolutionKeys /\ r.at \in Times /\ ~Drifts(db, r, s)
    OBVIOUS
  <2>3. R[i] = Redone(db, r, s)
    BY <1>1
  <2> HIDE DEF db, r, R
  <2>4. Travels(Redone(db, r, s), Q) /\ Moved(db.versions, Redone(db, r, s).versions)
    BY <2>1, <2>2, RedonePlain
  <2>5. Moved(start.versions, Redone(db, r, s).versions)
    BY <2>1, <2>4, MovedChain
  <2> QED BY <2>3, <2>4, <2>5
<1> HIDE DEF Ok
<1>4. B = {}
  <2> SUFFICES ASSUME B # {} PROVE FALSE
    OBVIOUS
  <2>1. B \subseteq Nat
    OBVIOUS
  <2>2. PICK i \in B : \A j \in B : i <= j
    <3> HIDE DEF B
    <3> QED BY <2>1, LeastNumber
  <2>3. i \in 0 .. n /\ ~Ok(i)
    OBVIOUS
  <2>4. i \in 1 .. n /\ i - 1 \in 0 .. n
    BY <1>2, <2>3
  <2>5. Ok(i-1)
    BY <2>2, <2>4
  <2> QED BY <1>3, <2>3, <2>4, <2>5
<1>5. n \in 0 .. n
  OBVIOUS
<1>6. Ok(n)
  BY <1>4, <1>5
<1> QED BY <1>6 DEF Ok

LEMMA UndoneAreResolvers ==
  ASSUME Plain(versions), Filed(resolutions), NEW s
  PROVE  /\ Undone(s) \subseteq resolutions /\ Unmade(Undone(s)) \subseteq versions
         /\ \A v \in Unmade(Undone(s)) : ResolverKey(v.key)
<1>1. Undone(s) \subseteq resolutions
  BY DEF Undone
<1>2. Unmade(Undone(s)) \subseteq versions
  BY DEF Unmade
<1>3. ASSUME NEW v \in Unmade(Undone(s)) PROVE ResolverKey(v.key)
  <2>1. v.claim \in ClaimIds
    BY <1>2 DEF Plain, IsVersion
  <2>2. PICK r \in resolutions : Made(r, v)
    BY <1>1 DEF Unmade
  <2>3. <<r.key, v.claim>> \in ResolutionKeys \X ClaimIds
    BY <2>1 DEF Filed
  <2>4. v.key = ActionKey[<<r.key, v.claim>>]
    BY <2>2 DEF Made
  <2> QED BY <2>3, <2>4 DEF ResolverKey
<1> QED BY <1>1, <1>2, <1>3

\* delete_source, with the claims also that the triggers of migration 0007 take.
LEMMA DeletionLeavesPlain ==
  ASSUME Plain(versions), Filed(resolutions), \A a \in transitions : a.at \in Times,
         NEW s, NEW also, NEW db \in OutcomesWith(s, also)
  PROVE  /\ Travels(db, resolutions)
         /\ Live(versions) \ (Retired(s) \cup also) \subseteq Live(db.versions)
         /\ ClaimsOf(db.versions) \subseteq ClaimsOf(versions) \ (Retired(s) \cup also)
         /\ \A v \in versions \ Unmade(Undone(s)) :
              v.claim \notin Retired(s) \cup also => <<v.claim, v.key>> \in NamesOf(db.versions)
<1> DEFINE undone == Undone(s)
           off == Unmade(undone)
           gone == Retired(s) \cup also
           rest == {r \in undone : r.decision \notin Direct(s)}
           start == Cleared(Rewound(s, undone), gone)
           K == decisions \ Dropped(s, undone)
           Q == resolutions \ undone
           S1 == Uncovered(versions, off)
           T1 == Unrelated(transitions, off)
           N1 == Unrelated(announced, off)
           S2 == Outside(S1, gone)
           T2 == NotNaming(T1, gone)
           N2 == NotNaming(N1, gone)
<1>1. /\ MayRewind(s, undone)
      /\ \E o \in Orders(rest) :
           /\ db = Replayed(o, start, s)[Len(o)]
           /\ \A i \in 1 .. Len(o) : ~Drifts(Replayed(o, start, s)[i-1], o[i], s)
  BY DEF OutcomesWith
<1>2. undone \subseteq resolutions /\ off \subseteq versions /\ \A v \in off : ResolverKey(v.key)
  BY UndoneAreResolvers
<1>3. \A v \in off, u \in versions : u.claim = v.claim /\ v.from <= u.from => u \in off
  BY <1>1 DEF MayRewind
<1>4. Rewound(s, undone) = Tables(S1, T1, N1, K, Q)
  BY DEF Rewound, Uncovered, Below, Unrelated, Tables
<1>5. \A a \in T2 : a.at \in Times
  BY DEF NotNaming, Unrelated
<1> HIDE DEF undone, off, start
<1>6. /\ Plain(S1) /\ Live(versions) \subseteq Live(S1) /\ ClaimsOf(S1) \subseteq ClaimsOf(versions)
      /\ NamesOf(versions \ off) \subseteq NamesOf(S1)
  BY <1>2, <1>3, RewindPlain
<1> HIDE DEF S1, T1, N1, K, gone
<1>7. /\ Plain(S2) /\ ClaimsOf(S2) = ClaimsOf(S1) \ gone /\ Live(S2) = Live(S1) \ gone
      /\ \A v \in S1 : v.claim \notin gone => <<v.claim, v.key>> \in NamesOf(S2)
  BY <1>6, OutsidePlain
<1>8. start = Tables(S2, T2, N2, K, Q)
  <2>1. start = Cleared(Tables(S1, T1, N1, K, Q), gone)
    BY <1>4 DEF start
  <2> HIDE DEF Q
  <2> QED BY <2>1, ClearedTables
<1> HIDE DEF S2, T2, N2
<1>9. /\ start.versions = S2 /\ start.transitions = T2 /\ start.announced = N2
      /\ start.decisions = K /\ start.resolutions = Q
  <2> HIDE DEF Q
  <2> QED BY <1>8, FieldsOfTables
<1>10. Travels(start, resolutions)
  BY <1>5, <1>7, <1>8, <1>9 DEF Travels
<1>11. IsFiniteSet(rest) /\ rest \subseteq resolutions
  <2>1. IsFiniteSet(resolutions)
    BY DEF Filed
  <2> QED BY <1>2, <2>1, FS_Subset
<1> HIDE DEF rest
<1>12. PICK o \in Orders(rest) :
         /\ db = Replayed(o, start, s)[Len(o)]
         /\ \A i \in 1 .. Len(o) : ~Drifts(Replayed(o, start, s)[i-1], o[i], s)
  BY <1>1
<1> DEFINE n == Cardinality(rest)
<1>13. n \in Nat
  BY <1>11, FS_CardinalityType
<1> HIDE DEF n
<1>14. o \in [1 .. n -> rest]
  BY DEF Orders, n
<1>15. Len(o) = n
  BY <1>13, <1>14
<1>16. \A i \in 1 .. n : /\ o[i] \in resolutions /\ o[i].key \in ResolutionKeys /\ o[i].at \in Times
                         /\ ~Drifts(Replayed(o, start, s)[i-1], o[i], s)
  BY <1>11, <1>12, <1>14, <1>15 DEF Filed
<1>17. Travels(db, resolutions) /\ Moved(start.versions, db.versions)
  BY <1>10, <1>12, <1>13, <1>15, <1>16, ReplayPlain
<1>18. ASSUME NEW v \in versions \ off, v.claim \notin gone
       PROVE  <<v.claim, v.key>> \in NamesOf(db.versions)
  <2>1. <<v.claim, v.key>> \in NamesOf(S1)
    BY <1>6 DEF NamesOf
  <2>2. PICK w \in S1 : <<v.claim, v.key>> = <<w.claim, w.key>>
    BY <2>1 DEF NamesOf
  <2>3. v.claim = w.claim /\ v.key = w.key
    BY <2>2
  <2>4. <<v.claim, v.key>> \in NamesOf(S2)
    BY <1>7, <1>18, <2>3
  <2> QED BY <1>9, <1>17, <2>4 DEF Moved
<1>19. Live(versions) \ gone \subseteq Live(db.versions)
  BY <1>6, <1>7, <1>9, <1>17 DEF Moved
<1>20. ClaimsOf(db.versions) \subseteq ClaimsOf(versions) \ gone
  BY <1>6, <1>7, <1>9, <1>17 DEF Moved
<1> QED BY <1>17, <1>18, <1>19, <1>20 DEF gone, off, undone

-----------------------------------------------------------------------------
\* What happens between deletions and runs.

LEMMA GoodAfterMoves ==
  ASSUME NEW S, NEW E, NEW D, NEW Q, Good(S, E, D, Q), NEW R, Plain(R), Moved(S, R)
  PROVE  Good(R, E, D, Q)
<1>1. Housed(R, E, D)
  BY DEF Good, Housed, Moved
<1>2. Justified(R, E, D, Q)
  <2> SUFFICES ASSUME NEW r \in Q, NEW i \in r.inferences PROVE Stands(i, R, E, D)
    BY DEF Good, Justified
  <2>1. Stands(i, S, E, D)
    BY DEF Good, Justified
  <2>2. NamesOf(S) \subseteq NamesOf(R)
    BY DEF Moved
  <2> QED BY <2>1, <2>2 DEF Stands
<1> QED BY <1>1, <1>2 DEF Good

\* Versions, resolutions and instants after a call.
MovesOn ==
  /\ Plain(versions') /\ Moved(versions, versions') /\ Filed(resolutions')
  /\ \A a \in transitions' : a.at \in Times
  /\ UNCHANGED <<evidence, forgotten, requeued>>

LEMMA ResolveMoves ==
  ASSUME DInv, NEW d \in decisions, NEW k \in ResolutionKeys, NEW asOf \in Times, NEW t \in Times,
         NEW plan, Resolve(d, k, plan, asOf, t)
  PROVE  MovesOn
<1> DEFINE acts == Moves(d, plan)
           r == [key |-> k, decision |-> d, acts |-> acts, at |-> t,
                 seen |-> Snapshot(tables, [decision |-> d, acts |-> acts])]
           Q == resolutions \cup {r}
<1>1. /\ MayAct(tables, r) /\ Write(Enact(tables, r))
      /\ UNCHANGED <<evidence, forgotten, requeued>>
  BY DEF Resolve
<1>2. r.key = k /\ r.at = t /\ r \in Q
  OBVIOUS
<1> HIDE DEF r
<1>3. /\ tables = Tables(versions, transitions, announced, decisions, resolutions)
      /\ tables.versions = versions /\ tables.transitions = transitions
      /\ tables.announced = announced /\ tables.decisions = decisions
      /\ tables.resolutions = resolutions
  BY DEF tables, Tables
<1>4. Travels(tables, Q)
  BY <1>3 DEF Travels, DInv, Good, Dated
<1>5. /\ Travels(Enact(tables, r), Q) /\ Moved(tables.versions, Enact(tables, r).versions)
      /\ Enact(tables, r).resolutions = tables.resolutions \cup {r}
  BY <1>1, <1>2, <1>4, EnactPlain
<1>6. Filed(resolutions')
  <2>1. resolutions' = resolutions \cup {r}
    BY <1>1, <1>3, <1>5 DEF Write
  <2>2. IsFiniteSet(resolutions')
    BY <2>1, FS_AddElement DEF DInv, Filed
  <2> QED BY <1>2, <2>1, <2>2 DEF DInv, Filed
<1> QED BY <1>1, <1>3, <1>5, <1>6 DEF Write, Travels, MovesOn

LEMMA TransitionMoves ==
  ASSUME DInv, NEW c \in ClaimIds, NEW k \in CallerKeys, NEW t \in Times,
         NEW target \in Statuses \ {"candidate"}, Transition(c, k, target, t),
         UNCHANGED <<decisions, resolutions, requeued>>
  PROVE  MovesOn
<1>1. PICK v \in Current(c) :
        /\ Follows(v, t)
        /\ versions' = (versions \ {v}) \cup {Closed(v, t), Opened(v, k, target, t)}
        /\ transitions' = transitions \cup {AuditOf(v, k, target, t, NoClaim)}
  BY DEF Transition
<1> DEFINE A == {v}
           K == [u \in A |-> k]
           X == [u \in A |-> target]
<1>2. v \in versions /\ v.to = Open /\ v.from < t
  BY <1>1 DEF Current, Follows
<1>3. k \in AuditKeys
  BY KeyFacts
<1>4. K[v] = k /\ X[v] = target
  OBVIOUS
<1> HIDE DEF K, X
<1>5. versions' = Succession(versions, A, K, X, t)
  BY <1>1, <1>4 DEF Succession
<1>6. \A u \in A : /\ u.to = Open /\ u.from < t /\ K[u] \in AuditKeys
                   /\ X[u] \in Statuses \ {"candidate"}
  BY <1>2, <1>3, <1>4
<1>7. A \in SUBSET versions /\ Plain(versions)
  BY <1>2 DEF DInv, Good
<1> HIDE DEF A
<1>8. Plain(versions') /\ Moved(versions, versions')
  BY <1>5, <1>6, <1>7, MovePlain
<1>9. \A a \in transitions' : a.at \in Times
  BY <1>1 DEF AuditOf, DInv, Dated
<1>10. UNCHANGED <<evidence, forgotten>>
  BY DEF Transition
<1> QED BY <1>8, <1>9, <1>10 DEF MovesOn, DInv, Filed

LEMMA CorrectMoves ==
  ASSUME DInv, NEW c \in ClaimIds, NEW d \in ClaimIds, NEW k \in CallerKeys, NEW t \in Times,
         NEW target \in {"confirmed", "current"}, Correct(c, d, k, target, t),
         UNCHANGED <<decisions, resolutions, requeued>>
  PROVE  MovesOn
<1> DEFINE l == ReplacementKey[k]
<1>1. PICK v \in Current(c), w \in Current(d) :
        /\ Follows(v, t) /\ Follows(w, t)
        /\ versions' = (versions \ {v, w}) \cup
             {Closed(v, t), Opened(v, k, "superseded", t), Closed(w, t), Opened(w, l, target, t)}
        /\ transitions' = transitions \cup
             {AuditOf(v, k, "superseded", t, d), AuditOf(w, l, target, t, NoClaim)}
  BY DEF Correct
<1> DEFINE A == {v, w}
           K == [u \in A |-> IF u = v THEN k ELSE l]
           X == [u \in A |-> IF u = v THEN "superseded" ELSE target]
<1>2. /\ v \in versions /\ v.claim = c /\ v.to = Open /\ v.from < t
      /\ w \in versions /\ w.claim = d /\ w.to = Open /\ w.from < t
  BY <1>1 DEF Current, Follows
<1>3. v # w
  BY <1>2 DEF Correct
<1>4. k \in AuditKeys /\ l \in AuditKeys
  BY KeyFacts
<1>5. K[v] = k /\ X[v] = "superseded" /\ K[w] = l /\ X[w] = target
  BY <1>3
<1> HIDE DEF K, X, l
<1>6. versions' = Succession(versions, A, K, X, t)
  BY <1>1, <1>5 DEF Succession
<1>7. \A u \in A : /\ u.to = Open /\ u.from < t /\ K[u] \in AuditKeys
                   /\ X[u] \in Statuses \ {"candidate"}
  BY <1>2, <1>4, <1>5 DEF Statuses
<1>8. A \in SUBSET versions /\ Plain(versions)
  BY <1>2 DEF DInv, Good
<1> HIDE DEF A
<1>9. Plain(versions') /\ Moved(versions, versions')
  BY <1>6, <1>7, <1>8, MovePlain
<1>10. \A a \in transitions' : a.at \in Times
  BY <1>1 DEF AuditOf, DInv, Dated
<1>11. UNCHANGED <<evidence, forgotten>>
  BY DEF Correct
<1> QED BY <1>9, <1>10, <1>11 DEF MovesOn, DInv, Filed

LEMMA DecideMoves == DInv /\ Decide => MovesOn
<1> SUFFICES ASSUME DInv, Decide PROVE MovesOn
  OBVIOUS
<1>1. ASSUME NEW verdict, NEW asOf, NEW at, Persist(verdict, asOf, at) PROVE MovesOn
  <2>1. UNCHANGED <<vars, resolutions, requeued>>
    BY <1>1 DEF Persist
  <2> QED BY <2>1, MovedChain DEF vars, MovesOn, DInv, Good, Filed, Dated
<1>2. ASSUME NEW d \in decisions, NEW k \in ResolutionKeys, NEW asOf \in Times, NEW t \in Times,
             NEW plan \in Plans(d), Resolve(d, k, plan, asOf, t)
      PROVE  MovesOn
  BY <1>2, ResolveMoves
<1>3. CASE Call
  <2>1. ASSUME NEW c \in ClaimIds, NEW k \in CallerKeys, NEW t \in Times,
               NEW target \in Statuses \ {"candidate"}, Transition(c, k, target, t)
        PROVE  MovesOn
    BY <1>3, <2>1, TransitionMoves DEF Call
  <2>2. ASSUME NEW c \in ClaimIds, NEW d \in ClaimIds, NEW k \in CallerKeys, NEW t \in Times,
               NEW target \in {"confirmed", "current"}, Correct(c, d, k, target, t)
        PROVE  MovesOn
    BY <1>3, <2>2, CorrectMoves DEF Call
  <2> QED BY <1>3, <2>1, <2>2 DEF Call
<1>4. CASE Conclude
  BY <1>1, <1>2, <1>4 DEF Conclude
<1> QED BY <1>3, <1>4 DEF Decide

LEMMA DecideKeepsDInv ==
  DInv /\ Decide /\ UNCHANGED <<deletedAt, derived, runs, inferred>> => DInv'
<1> SUFFICES ASSUME DInv, Decide, UNCHANGED <<deletedAt, derived, runs, inferred>> PROVE DInv'
  OBVIOUS
<1>1. MovesOn
  BY DecideMoves
<1>2. Good(versions', evidence, derived, runs)
  BY <1>1, GoodAfterMoves DEF MovesOn, DInv
<1>3. Dated'
  BY <1>1 DEF MovesOn, DInv, Dated
<1> QED BY <1>1, <1>2, <1>3 DEF MovesOn, DInv

-----------------------------------------------------------------------------
\* Ids: a derived claim has its own, and is found by it.

LEMMA IdFacts ==
  /\ \A p, q \in Propositions :
       RootId[p] \in ClaimIds \ Extracted /\ (RootId[p] = RootId[q] => p = q)
  /\ \A p \in Propositions, x \in DOMAIN ReplacementId : RootId[p] # ReplacementId[x]
  /\ \A x, y \in DOMAIN ReplacementId : ReplacementId[x] = ReplacementId[y] => x = y
  /\ \A x \in DOMAIN ReplacementId : ReplacementId[x] \in ClaimIds \ Extracted
BY DurativeAssumption

LEMMA DerivedIds ==
  ASSUME NEW D, Identified(D)
  PROVE  \A d \in D : d.claim \in ClaimIds /\ d.claim \notin Extracted /\ d.claim # NoClaim
<1> SUFFICES ASSUME NEW d \in D
             PROVE  d.claim \in ClaimIds /\ d.claim \notin Extracted /\ d.claim # NoClaim
  OBVIOUS
<1>1. d.claim \in ClaimIds \ Extracted
  BY IdFacts DEF Identified
<1> QED BY <1>1, LifecycleAssumption

LEMMA IdsAreFound ==
  ASSUME Identified(derived), NEW p \in Propositions, NEW tm, <<p, tm>> \in DOMAIN ReplacementId
  PROVE  /\ IdOf(p, tm) \in {RootId[p], ReplacementId[<<p, tm>>]}
         /\ IdOf(p, tm) \in ClaimIds \ Extracted
         /\ \A d \in derived : d.claim = IdOf(p, tm) => d.proposition = p /\ d.time = tm
<1>1. CASE \A d \in derived : d.claim = RootId[p] => d.time = tm
  <2>1. IdOf(p, tm) = RootId[p]
    BY <1>1 DEF IdOf
  <2>2. ASSUME NEW d \in derived, d.claim = RootId[p] PROVE d.proposition = p
    <3>1. d.proposition \in Propositions /\ <<d.proposition, d.time>> \in DOMAIN ReplacementId
          /\ d.claim \in {RootId[d.proposition], ReplacementId[<<d.proposition, d.time>>]}
      BY DEF Identified
    <3> QED BY <2>2, <3>1, IdFacts
  <2> QED BY <1>1, <2>1, <2>2, IdFacts
<1>2. CASE ~(\A d \in derived : d.claim = RootId[p] => d.time = tm)
  <2>1. IdOf(p, tm) = ReplacementId[<<p, tm>>]
    BY <1>2 DEF IdOf
  <2>2. ASSUME NEW d \in derived, d.claim = ReplacementId[<<p, tm>>]
        PROVE  d.proposition = p /\ d.time = tm
    <3>1. d.proposition \in Propositions /\ <<d.proposition, d.time>> \in DOMAIN ReplacementId
          /\ d.claim \in {RootId[d.proposition], ReplacementId[<<d.proposition, d.time>>]}
      BY DEF Identified
    <3>2. <<d.proposition, d.time>> = <<p, tm>>
      BY <2>2, <3>1, IdFacts
    <3> QED BY <3>2
  <2> QED BY <2>1, <2>2, IdFacts
<1> QED BY <1>1, <1>2

\* What an episode is.
LEMMA EpisodesAreStored ==
  ASSUME DInv, NEW at, NEW x \in Relevant(at)
  PROVE  /\ x[1] \in versions /\ x[2] \in Sources
         /\ x[1].claim \in DOMAIN About /\ x[1].claim \in Extracted /\ x[1].claim \in ClaimIds
         /\ x[1].key \in AuditKeys \cup {Initial}
         /\ <<x[1].claim, x[2]>> \in evidence
<1>1. x \in versions \X Visible(at) /\ <<x[1].claim, x[2]>> \in evidence /\ x[1].claim \in DOMAIN About
  BY DEF Relevant, Episodes
<1>2. x[1] \in versions /\ x[2] \in Sources
  BY <1>1 DEF Visible
<1>3. x[1].claim \in Extracted
  BY <1>1 DEF Extracted
<1> QED BY <1>1, <1>2, <1>3 DEF DInv, Good, Plain, IsVersion

\* What an accepted proposition becomes.
LEMMA AcceptedFacts ==
  ASSUME DInv, NEW at, NEW p \in Accepted(at)
  PROVE  LET xs == Supports(p, at)
             n == Derivation(p, at)
         IN /\ p \in Propositions /\ xs # {} /\ Counters(p, at) = {}
            /\ \A x \in xs : x \in Relevant(at) /\ About[x[1].claim] = p
            /\ n = [claim |-> n.claim, proposition |-> p, time |-> Time(xs)]
            /\ <<p, Time(xs)>> \in DOMAIN ReplacementId
            /\ n.claim \in {RootId[p], ReplacementId[<<p, Time(xs)>>]}
            /\ n.claim \in ClaimIds \ Extracted
            /\ \A d \in derived : d.claim = n.claim => d.proposition = p /\ d.time = Time(xs)
<1> DEFINE xs == Supports(p, at)
           n == Derivation(p, at)
           cs == {x[1].claim : x \in xs}
           tm == Time(xs)
<1>1. p \in Propositions /\ Accepts(p, at)
  BY DEF Accepted, Candidates
<1>2. Counters(p, at) = {} /\ (Repeated(xs, at) \/ xs # {})
  BY <1>1 DEF Accepts
<1>3. \A x \in xs : x \in Relevant(at) /\ About[x[1].claim] = p
  BY DEF Supports, Saying
<1>4. n = [claim |-> IdOf(p, tm), proposition |-> p, time |-> tm]
  BY DEF Derivation
<1> HIDE DEF xs, n
<1>5. xs # {}
  <2> SUFFICES ASSUME xs = {} PROVE FALSE
    OBVIOUS
  <2>1. {x[2] : x \in xs} = {}
    OBVIOUS
  <2>2. Cardinality({x[2] : x \in xs}) = 0
    BY <2>1, FS_EmptySet
  <2> QED BY <1>2, <2>2 DEF Repeated
<1>6. <<p, tm>> \in DOMAIN ReplacementId
  <2> DEFINE single == (Cardinality(xs) = 1)
  <2>1. single \in BOOLEAN
    OBVIOUS
  <2>2. cs # {} /\ cs \in SUBSET {c \in DOMAIN About : About[c] = p}
    BY <1>3, <1>5, EpisodesAreStored
  <2>3. tm = Span(cs, single)
    BY DEF Time
  <2> HIDE DEF cs, single, tm
  <2>4. \A q \in Propositions, b \in BOOLEAN : \A es \in SUBSET {c \in DOMAIN About : About[c] = q} :
          es # {} => <<q, Span(es, b)>> \in DOMAIN ReplacementId
    BY DurativeAssumption
  <2> QED BY <1>1, <2>1, <2>2, <2>3, <2>4
<1> HIDE DEF tm
<1>7. Identified(derived)
  BY DEF DInv, Good
<1>8. /\ IdOf(p, tm) \in {RootId[p], ReplacementId[<<p, tm>>]}
      /\ IdOf(p, tm) \in ClaimIds \ Extracted
      /\ \A d \in derived : d.claim = IdOf(p, tm) => d.proposition = p /\ d.time = tm
  BY <1>1, <1>6, <1>7, IdsAreFound
<1>9. n.claim = IdOf(p, tm)
  BY <1>4
<1> QED BY <1>1, <1>2, <1>3, <1>4, <1>5, <1>6, <1>8, <1>9 DEF n, xs, tm

LEMMA OneDerivation ==
  ASSUME DInv, NEW at, NEW p \in Accepted(at), NEW q \in Accepted(at),
         Derivation(p, at).claim = Derivation(q, at).claim
  PROVE  p = q
<1> DEFINE x == Time(Supports(p, at))
           y == Time(Supports(q, at))
           c == Derivation(p, at).claim
<1>1. p \in Propositions /\ <<p, x>> \in DOMAIN ReplacementId /\ c \in {RootId[p], ReplacementId[<<p, x>>]}
  BY AcceptedFacts
<1>2. q \in Propositions /\ <<q, y>> \in DOMAIN ReplacementId /\ c \in {RootId[q], ReplacementId[<<q, y>>]}
  BY AcceptedFacts
<1> HIDE DEF x, y, c
<1>3. RootId[p] = RootId[q] \/ ReplacementId[<<p, x>>] = ReplacementId[<<q, y>>]
  BY <1>1, <1>2, IdFacts
<1>4. CASE RootId[p] = RootId[q]
  BY <1>1, <1>2, <1>4, IdFacts
<1>5. CASE ReplacementId[<<p, x>>] = ReplacementId[<<q, y>>]
  <2>1. <<p, x>> = <<q, y>>
    BY <1>1, <1>2, <1>5, IdFacts
  <2> QED BY <2>1
<1> QED BY <1>3, <1>4, <1>5

-----------------------------------------------------------------------------
\* What a run writes before it purges.

LEMMA ChangesAreDated == ASSUME DInv, NEW e \in Changes PROVE e.at \in Times
<1>1. IngestedAt \in [Sources -> Times]
  BY LifecycleAssumption
<1>2. /\ \A a \in transitions : a.at \in Times
      /\ \A i \in inferred : i.at \in Times
      /\ \A s \in forgotten : deletedAt[s] \in Times
      /\ \A q \in requeued : deletedAt[q.source] \in Times
      /\ \A r \in resolutions : r.at \in Times
  BY DEF DInv, Dated, Filed
<1>3. CASE e \in Outbox
  <2>1. CASE \E s \in Sources \ forgotten : e = [id |-> <<"ingested", s>>, at |-> IngestedAt[s]]
    BY <1>1, <2>1
  <2>2. CASE \E s \in forgotten : e = [id |-> <<"deleted", s>>, at |-> deletedAt[s]]
    BY <1>2, <2>2
  <2>3. CASE \E q \in requeued : e = [id |-> <<"conflict", q>>, at |-> deletedAt[q.source]]
    BY <1>2, <2>3
  <2>4. CASE \E a \in transitions : e = [id |-> <<"moved", a.key>>, at |-> a.at]
    BY <1>2, <2>4
  <2>5. CASE \E r \in resolutions : e = [id |-> <<"resolved", r.key>>, at |-> r.at]
    BY <1>2, <2>5
  <2> QED BY <1>3, <2>1, <2>2, <2>3, <2>4, <2>5 DEF Outbox
<1>4. CASE \E i \in inferred : e = [id |-> <<"inferred", i.event, i.claim>>, at |-> i.at]
  BY <1>2, <1>4
<1> QED BY <1>3, <1>4 DEF Changes

LEMMA RunsOwnTheirKeys == ASSUME NEW id PROVE ~ResolverKey(<<"inferred", id>>)
<1> SUFFICES ASSUME NEW x \in ResolutionKeys \X ClaimIds, <<"inferred", id>> = ActionKey[x] PROVE FALSE
  BY DEF ResolverKey
<1>1. ActionKey[x][1] # "inferred"
  BY DurativeAssumption
<1>2. <<"inferred", id>>[1] = "inferred"
  OBVIOUS
<1> QED BY <1>1, <1>2

NewVersion(p, e) ==
  [claim |-> Derivation(p, e.at).claim, key |-> <<"inferred", e.id>>,
   status |-> "candidate", from |-> e.at, to |-> Open]

LEMMA InferredFields ==
  ASSUME NEW e
  PROVE  LET closed == Succeeded(Changing(e.at), e.at)
             db == Inferred(e)
         IN /\ db.derived = derived \cup NewClaims(e.at)
            /\ db.runs = runs \cup {Run(e)}
            /\ db.versions = (versions \ closed) \cup {Closed(v, e.at) : v \in closed} \cup
                              {NewVersion(p, e) : p \in Changing(e.at)}
            /\ db.evidence = evidence \cup UNION {Spans(p, e.at) : p \in Accepted(e.at)}
            /\ db.inferred = inferred \cup
                 {[event |-> e.id, claim |-> Derivation(p, e.at).claim, at |-> e.at] : p \in Changing(e.at)}
BY DEF Inferred, NewVersion

LEMMA VersionsInferred ==
  ASSUME NEW e
  PROVE  Inferred(e).versions =
           (versions \ Succeeded(Changing(e.at), e.at))
           \cup {Closed(v, e.at) : v \in Succeeded(Changing(e.at), e.at)}
           \cup {NewVersion(p, e) : p \in Changing(e.at)}
BY DEF Inferred, NewVersion

LEMMA InferredVersions ==
  ASSUME DInv, NEW e, e.at \in Times
  PROVE  LET S == Inferred(e).versions
         IN /\ Plain(S) /\ NamesOf(versions) \subseteq NamesOf(S) /\ Live(versions) \subseteq Live(S)
            /\ ClaimsOf(S) \subseteq ClaimsOf(versions) \cup {Derivation(p, e.at).claim : p \in Changing(e.at)}
            /\ \A p \in Changing(e.at) :
                 /\ Derivation(p, e.at).claim \in Live(S)
                 /\ <<Derivation(p, e.at).claim, <<"inferred", e.id>>>> \in NamesOf(S)
<1> DEFINE A == Succeeded(Changing(e.at), e.at)
           S == Inferred(e).versions
           c(p) == Derivation(p, e.at).claim
           n(p) == NewVersion(p, e)
           a(v) == Closed(v, e.at)
           P == Changing(e.at)
<1>1. S = (versions \ A) \cup {a(v) : v \in A} \cup {n(p) : p \in P}
  BY VersionsInferred
<1>2. P \subseteq Accepted(e.at)
  BY DEF Changing
<1>3. \A p \in P : c(p) \in ClaimIds /\ c(p) \notin Extracted
  BY <1>2, AcceptedFacts
<1>4. \A v \in A : v \in versions /\ v.to = Open /\ \E p \in P : v.claim = c(p)
  BY DEF Succeeded
<1>5. /\ Plain(versions)
      /\ \A v \in versions : IsVersion(v) /\ v.from \in Times /\ v.from # Open
  BY OpenIsNoTime DEF DInv, Good, Plain, IsVersion
<1>6. \A v \in A : /\ IsVersion(a(v)) /\ a(v).claim = v.claim /\ a(v).key = v.key
                   /\ a(v).status = v.status /\ a(v).from = v.from
  BY <1>4, <1>5, ClosedFields
<1> HIDE DEF A, P, c
<1>7. \A p \in P : /\ IsVersion(n(p)) /\ n(p).claim = c(p) /\ n(p).key = <<"inferred", e.id>>
                   /\ n(p).to = Open
  BY <1>3 DEF NewVersion, IsVersion, Statuses, c
<1> HIDE DEF n, a, S
<1>8. ~ResolverKey(<<"inferred", e.id>>)
  BY RunsOwnTheirKeys
<1>9. ASSUME NEW v \in versions, ResolverKey(v.key)
      PROVE  \E u \in S : u.claim = v.claim /\ u.to = v.from /\ u.from < v.from
  <2>1. PICK u \in versions : u.claim = v.claim /\ u.to = v.from /\ u.from < v.from
    BY <1>5, <1>9 DEF Plain
  <2>2. u \notin A
    BY <1>4, <1>5, <2>1
  <2> QED BY <1>1, <2>1, <2>2
<1>10. ASSUME NEW w \in S
       PROVE  /\ IsVersion(w)
              /\ w.claim \in Extracted => w.key \in AuditKeys \cup {Initial}
              /\ w.status = "candidate" => ~ResolverKey(w.key)
              /\ ResolverKey(w.key) => \E u \in S : u.claim = w.claim /\ u.to = w.from /\ u.from < w.from
              /\ w.claim \in ClaimsOf(versions) \cup {c(p) : p \in P}
  <2>1. ASSUME NEW v \in versions, /\ IsVersion(w) /\ w.claim = v.claim /\ w.key = v.key
                                  /\ w.status = v.status /\ w.from = v.from
        PROVE  /\ w.claim \in Extracted => w.key \in AuditKeys \cup {Initial}
               /\ w.status = "candidate" => ~ResolverKey(w.key)
               /\ ResolverKey(w.key) => \E u \in S : u.claim = w.claim /\ u.to = w.from /\ u.from < w.from
               /\ w.claim \in ClaimsOf(versions)
    BY <1>5, <1>9, <2>1 DEF Plain, ClaimsOf
  <2>2. CASE w \in versions
    BY <1>5, <2>1, <2>2
  <2>3. ASSUME NEW v \in A, w = a(v)
        PROVE  v \in versions /\ IsVersion(w) /\ w.claim = v.claim /\ w.key = v.key
               /\ w.status = v.status /\ w.from = v.from
    BY <1>4, <1>6, <2>3
  <2>4. ASSUME NEW p \in P, w = n(p)
        PROVE  IsVersion(w) /\ w.claim = c(p) /\ w.claim \notin Extracted /\ ~ResolverKey(w.key)
    BY <1>3, <1>7, <1>8, <2>4
  <2>5. w \in versions \/ (\E v \in A : w = a(v)) \/ \E p \in P : w = n(p)
    BY <1>1
  <2>6. CASE \E v \in A : w = a(v)
    BY <2>1, <2>3, <2>6
  <2>7. CASE \E p \in P : w = n(p)
    BY <2>4, <2>7
  <2> QED BY <2>2, <2>5, <2>6, <2>7
<1>11. Plain(S)
  BY <1>10 DEF Plain
<1>12. ClaimsOf(S) \subseteq ClaimsOf(versions) \cup {c(p) : p \in P}
  <2>1. \A x \in ClaimsOf(S) : \E w \in S : x = w.claim
    BY DEF ClaimsOf
  <2> QED BY <1>10, <2>1
<1>13. \A p \in P : c(p) \in Live(S) /\ <<c(p), <<"inferred", e.id>>>> \in NamesOf(S)
  <2> SUFFICES ASSUME NEW p \in P
               PROVE  c(p) \in Live(S) /\ <<c(p), <<"inferred", e.id>>>> \in NamesOf(S)
    OBVIOUS
  <2>1. n(p) \in S /\ n(p).claim = c(p) /\ n(p).key = <<"inferred", e.id>> /\ n(p).to = Open
    BY <1>1, <1>7
  <2> QED BY <2>1 DEF Live, NamesOf
<1>14. ASSUME NEW v \in versions
       PROVE  <<v.claim, v.key>> \in NamesOf(S) /\ (v.to = Open => v.claim \in Live(S))
  <2>1. CASE v \in A
    <3>1. a(v) \in S /\ a(v).claim = v.claim /\ a(v).key = v.key
      BY <1>1, <1>6, <2>1
    <3>2. v.claim \in Live(S)
      BY <1>4, <1>13, <2>1
    <3> QED BY <3>1, <3>2 DEF NamesOf
  <2>2. CASE v \notin A
    <3>1. v \in S
      BY <1>1, <2>2
    <3> QED BY <3>1 DEF NamesOf, Live
  <2> QED BY <2>1, <2>2
<1>15. NamesOf(versions) \subseteq NamesOf(S)
  <2>1. \A x \in NamesOf(versions) : \E v \in versions : x = <<v.claim, v.key>>
    BY DEF NamesOf
  <2> QED BY <1>14, <2>1
<1>16. Live(versions) \subseteq Live(S)
  <2>1. \A x \in Live(versions) : \E v \in versions : v.to = Open /\ x = v.claim
    BY DEF Live
  <2> QED BY <1>14, <2>1
<1> QED BY <1>11, <1>12, <1>13, <1>15, <1>16 DEF S, P, c

\* The run stores, or finds, the claim of each proposition that it accepts.
LEMMA InferredClaims ==
  ASSUME DInv, NEW e
  PROVE  LET D == Inferred(e).derived
             E == Inferred(e).evidence
             n(p) == Derivation(p, e.at)
         IN /\ derived \subseteq D /\ evidence \subseteq E
            /\ \A p \in Accepted(e.at) :
                 /\ \E d \in D : d.claim = n(p).claim /\ d.proposition = p /\ d.time = Time(Supports(p, e.at))
                 /\ Spans(p, e.at) \subseteq E
            /\ \A d \in D, p \in Accepted(e.at) : d.claim = n(p).claim => d.proposition = p
            /\ \A d \in D : d \in derived \/ \E p \in Accepted(e.at) :
                 d = n(p) /\ \A f \in derived : f.claim # n(p).claim
            /\ \A x \in E : x \in evidence \/ \E p \in Accepted(e.at) : \E z \in Supports(p, e.at) :
                 x = <<n(p).claim, z[2]>>
<1> DEFINE D == Inferred(e).derived
           E == Inferred(e).evidence
           n(p) == Derivation(p, e.at)
           P == Accepted(e.at)
<1>1. D = derived \cup NewClaims(e.at) /\ E = evidence \cup UNION {Spans(p, e.at) : p \in P}
  BY InferredFields
<1>2. NewClaims(e.at) = {m \in {n(p) : p \in P} : \A d \in derived : d.claim # m.claim}
  BY DEF NewClaims
<1>3. \A p \in P : /\ n(p) = [claim |-> n(p).claim, proposition |-> p, time |-> Time(Supports(p, e.at))]
                   /\ \A d \in derived : d.claim = n(p).claim =>
                        d.proposition = p /\ d.time = Time(Supports(p, e.at))
  BY AcceptedFacts
<1>4. \A p \in P, q \in P : n(p).claim = n(q).claim => p = q
  BY OneDerivation
<1>5. \A p \in P : Spans(p, e.at) = {n(p).claim} \X {x[2] : x \in Supports(p, e.at)}
  BY DEF Spans
<1> HIDE DEF D, E, n, P
<1>6. ASSUME NEW p \in P
      PROVE  \E d \in D : d.claim = n(p).claim /\ d.proposition = p /\ d.time = Time(Supports(p, e.at))
  <2>1. CASE \E d \in derived : d.claim = n(p).claim
    BY <1>1, <1>3, <2>1
  <2>2. CASE \A d \in derived : d.claim # n(p).claim
    <3>1. n(p) \in D
      BY <1>1, <1>2, <2>2
    <3>2. n(p).proposition = p /\ n(p).time = Time(Supports(p, e.at))
      BY <1>3
    <3> QED BY <3>1, <3>2
  <2> QED BY <2>1, <2>2
<1>7. ASSUME NEW d \in D
      PROVE  d \in derived \/ \E p \in P : d = n(p) /\ \A f \in derived : f.claim # n(p).claim
  BY <1>1, <1>2
<1>8. ASSUME NEW d \in D, NEW p \in P, d.claim = n(p).claim PROVE d.proposition = p
  <2>1. CASE d \in derived
    BY <1>3, <1>8, <2>1
  <2>2. ASSUME NEW q \in P, d = n(q) PROVE d.proposition = p
    <3>1. q = p
      BY <1>4, <1>8, <2>2
    <3> QED BY <1>3, <2>2, <3>1
  <2> QED BY <1>7, <2>1, <2>2
<1>9. ASSUME NEW x \in E
      PROVE  x \in evidence \/ \E p \in P : \E z \in Supports(p, e.at) : x = <<n(p).claim, z[2]>>
  <2>1. ASSUME NEW p \in P, x \in Spans(p, e.at)
        PROVE  \E z \in Supports(p, e.at) : x = <<n(p).claim, z[2]>>
    BY <1>5, <2>1
  <2> QED BY <1>1, <2>1
<1>10. \A p \in P : Spans(p, e.at) \subseteq E
  BY <1>1
<1>11. derived \subseteq D /\ evidence \subseteq E
  BY <1>1
<1> QED BY <1>6, <1>7, <1>8, <1>9, <1>10, <1>11 DEF D, E, n, P

LEMMA InferredHoused ==
  ASSUME DInv, NEW e, e.at \in Times
  PROVE  Housed(Inferred(e).versions, Inferred(e).evidence, Inferred(e).derived)
<1> DEFINE S == Inferred(e).versions
           D == Inferred(e).derived
           E == Inferred(e).evidence
           c(p) == Derivation(p, e.at).claim
           P == Accepted(e.at)
<1>1. /\ Live(versions) \subseteq Live(S)
      /\ ClaimsOf(S) \subseteq ClaimsOf(versions) \cup {c(p) : p \in Changing(e.at)}
      /\ \A p \in Changing(e.at) : c(p) \in Live(S)
  BY InferredVersions
<1>2. /\ derived \subseteq D /\ evidence \subseteq E
      /\ \A p \in P : \E d \in D : d.claim = c(p)
      /\ \A x \in E : x \in evidence \/ \E p \in P : \E z \in Supports(p, e.at) : x = <<c(p), z[2]>>
  BY InferredClaims
<1>3. Housed(versions, evidence, derived)
  BY DEF DInv, Good
<1>4. /\ \A p \in P : c(p) \in ClaimIds
      /\ \A p \in P : \A z \in Supports(p, e.at) : z \in Relevant(e.at)
  BY AcceptedFacts
<1>5. /\ Changing(e.at) \subseteq P
      /\ \A p \in P : p \notin Changing(e.at) => Spans(p, e.at) \subseteq evidence
  BY DEF Changing, Gains
<1>6. \A p \in P : \A z \in Supports(p, e.at) : <<c(p), z[2]>> \in Spans(p, e.at)
  BY DEF Spans
<1> HIDE DEF S, D, E, c, P
<1>7. ASSUME NEW x \in E PROVE x \in ClaimIds \X Sources /\ x[1] \in Live(S)
  <2>1. CASE x \in evidence
    BY <1>1, <1>3, <2>1 DEF Housed
  <2>2. ASSUME NEW p \in P, NEW z \in Supports(p, e.at), x = <<c(p), z[2]>>
        PROVE  x \in ClaimIds \X Sources /\ x[1] \in Live(S)
    <3>1. z[2] \in Sources
      BY <1>4, EpisodesAreStored
    <3>2. c(p) \in Live(S)
      <4>1. CASE p \in Changing(e.at)
        BY <1>1, <4>1
      <4>2. CASE p \notin Changing(e.at)
        <5>1. <<c(p), z[2]>> \in evidence
          BY <1>5, <1>6, <4>2
        <5> QED BY <1>1, <1>3, <5>1 DEF Housed
      <4> QED BY <4>1, <4>2
    <3> QED BY <1>4, <2>2, <3>1, <3>2
  <2> QED BY <1>2, <2>1, <2>2
<1>8. ClaimsOf(S) \subseteq {x[1] : x \in Evidence} \cup Ids(D)
  <2>1. Ids(derived) \subseteq Ids(D)
    BY <1>2 DEF Ids
  <2>2. \A p \in P : c(p) \in Ids(D)
    BY <1>2 DEF Ids
  <2> QED BY <1>1, <1>3, <1>5, <2>1, <2>2 DEF Housed
<1> QED BY <1>7, <1>8 DEF Housed, S, D, E

LEMMA InferredIdentified == ASSUME DInv, NEW e PROVE Identified(Inferred(e).derived)
<1> DEFINE D == Inferred(e).derived
           n(p) == Derivation(p, e.at)
           P == Accepted(e.at)
<1>1. \A d \in D : d \in derived \/ \E p \in P : d = n(p) /\ \A f \in derived : f.claim # n(p).claim
  BY InferredClaims
<1>2. \A p \in P : /\ p \in Propositions /\ n(p).proposition = p
                   /\ <<p, n(p).time>> \in DOMAIN ReplacementId
                   /\ n(p).claim \in {RootId[p], ReplacementId[<<p, n(p).time>>]}
  <2> SUFFICES ASSUME NEW p \in P
               PROVE  /\ p \in Propositions /\ n(p).proposition = p
                      /\ <<p, n(p).time>> \in DOMAIN ReplacementId
                      /\ n(p).claim \in {RootId[p], ReplacementId[<<p, n(p).time>>]}
    OBVIOUS
  <2> DEFINE tm == Time(Supports(p, e.at))
  <2>1. /\ p \in Propositions /\ n(p) = [claim |-> n(p).claim, proposition |-> p, time |-> tm]
        /\ <<p, tm>> \in DOMAIN ReplacementId /\ n(p).claim \in {RootId[p], ReplacementId[<<p, tm>>]}
    BY AcceptedFacts
  <2> HIDE DEF tm, n
  <2>2. n(p).proposition = p /\ n(p).time = tm
    BY <2>1
  <2> QED BY <2>1, <2>2
<1>3. \A p \in P, q \in P : n(p).claim = n(q).claim => p = q
  BY OneDerivation
<1>4. Identified(derived)
  BY DEF DInv, Good
<1> HIDE DEF D, n, P
<1>5. ASSUME NEW d \in D
      PROVE  /\ d.proposition \in Propositions /\ <<d.proposition, d.time>> \in DOMAIN ReplacementId
             /\ d.claim \in {RootId[d.proposition], ReplacementId[<<d.proposition, d.time>>]}
  <2>1. CASE d \in derived
    BY <1>4, <2>1 DEF Identified
  <2>2. ASSUME NEW p \in P, d = n(p)
        PROVE  /\ d.proposition \in Propositions /\ <<d.proposition, d.time>> \in DOMAIN ReplacementId
               /\ d.claim \in {RootId[d.proposition], ReplacementId[<<d.proposition, d.time>>]}
    <3>1. d.proposition = p
      BY <1>2, <2>2
    <3> QED BY <1>2, <2>2, <3>1
  <2> QED BY <1>1, <2>1, <2>2
<1>6. ASSUME NEW d \in D, NEW f \in D, f.claim = d.claim PROVE f = d
  <2>1. CASE d \in derived /\ f \in derived
    BY <1>4, <1>6, <2>1 DEF Identified
  <2>2. CASE d \notin derived /\ f \notin derived
    BY <1>1, <1>3, <1>6, <2>2
  <2>3. CASE d \in derived /\ f \notin derived
    BY <1>1, <1>6, <2>3
  <2>4. CASE d \notin derived /\ f \in derived
    BY <1>1, <1>6, <2>4
  <2> QED BY <2>1, <2>2, <2>3, <2>4
<1> QED BY <1>5, <1>6 DEF Identified, D

LEMMA InferredSupported ==
  ASSUME DInv, NEW e PROVE Supported(Inferred(e).evidence, Inferred(e).derived)
<1> DEFINE D == Inferred(e).derived
           E == Inferred(e).evidence
           n(p) == Derivation(p, e.at)
           P == Accepted(e.at)
<1>1. /\ evidence \subseteq E
      /\ \A p \in P : Spans(p, e.at) \subseteq E
      /\ \A d \in D, p \in P : d.claim = n(p).claim => d.proposition = p
      /\ \A d \in D : d \in derived \/ \E p \in P : d = n(p) /\ \A f \in derived : f.claim # n(p).claim
      /\ \A x \in E : x \in evidence \/ \E p \in P : \E z \in Supports(p, e.at) : x = <<n(p).claim, z[2]>>
  BY InferredClaims
<1>2. \A p \in P : /\ Supports(p, e.at) # {} /\ n(p).claim \in ClaimIds \ Extracted
                   /\ \A z \in Supports(p, e.at) : z \in Relevant(e.at) /\ About[z[1].claim] = p
  BY AcceptedFacts
<1>3. \A p \in P : \A z \in Supports(p, e.at) : <<n(p).claim, z[2]>> \in Spans(p, e.at)
  BY DEF Spans
<1>4. Housed(versions, evidence, derived) /\ Supported(evidence, derived)
  BY DEF DInv, Good
<1> HIDE DEF D, E, n, P
<1>5. ASSUME NEW p \in P, NEW z \in Supports(p, e.at)
      PROVE  \E y \in E : y[2] = z[2] /\ y[1] \in DOMAIN About /\ About[y[1]] = p
  <2> DEFINE y == <<z[1].claim, z[2]>>
  <2>1. y \in evidence /\ z[1].claim \in DOMAIN About /\ About[z[1].claim] = p
    BY <1>2, EpisodesAreStored
  <2>2. y \in E /\ y[1] = z[1].claim /\ y[2] = z[2]
    BY <1>1, <2>1
  <2> QED BY <2>1, <2>2
<1>6. ASSUME NEW d \in D, NEW p \in P, NEW z \in Supports(p, e.at), NEW x \in E,
             x = <<n(p).claim, z[2]>>, x[1] = d.claim
      PROVE  \E y \in E : y[2] = x[2] /\ y[1] \in DOMAIN About /\ About[y[1]] = d.proposition
  <2>1. d.proposition = p
    BY <1>1, <1>6
  <2>2. x[2] = z[2]
    BY <1>6
  <2> QED BY <1>5, <2>1, <2>2
<1>7. ASSUME NEW d \in derived, d \in D
      PROVE  /\ \E x \in E : x[1] = d.claim
             /\ \A x \in E : x[1] = d.claim =>
                  \E y \in E : y[2] = x[2] /\ y[1] \in DOMAIN About /\ About[y[1]] = d.proposition
  <2>1. \E x \in E : x[1] = d.claim
    BY <1>1, <1>4 DEF Supported
  <2>2. ASSUME NEW x \in E, x[1] = d.claim
        PROVE  \E y \in E : y[2] = x[2] /\ y[1] \in DOMAIN About /\ About[y[1]] = d.proposition
    <3>1. CASE x \in evidence
      BY <1>1, <1>4, <2>2, <3>1 DEF Supported
    <3>2. CASE \E p \in P : \E z \in Supports(p, e.at) : x = <<n(p).claim, z[2]>>
      BY <1>6, <1>7, <2>2, <3>2
    <3> QED BY <1>1, <3>1, <3>2
  <2> QED BY <2>1, <2>2
<1>8. ASSUME NEW d \in D, NEW q \in P, d = n(q), \A f \in derived : f.claim # n(q).claim
      PROVE  /\ \E x \in E : x[1] = d.claim
             /\ \A x \in E : x[1] = d.claim =>
                  \E y \in E : y[2] = x[2] /\ y[1] \in DOMAIN About /\ About[y[1]] = d.proposition
  <2>1. \E x \in E : x[1] = d.claim
    <3>1. PICK z \in Supports(q, e.at) : TRUE
      BY <1>2
    <3>2. <<n(q).claim, z[2]>> \in E
      BY <1>1, <1>3
    <3>3. <<n(q).claim, z[2]>>[1] = d.claim
      BY <1>8
    <3> QED BY <3>2, <3>3
  <2>2. ASSUME NEW x \in E, x[1] = d.claim
        PROVE  \E y \in E : y[2] = x[2] /\ y[1] \in DOMAIN About /\ About[y[1]] = d.proposition
    <3>1. x \notin evidence
      <4> SUFFICES ASSUME x \in evidence PROVE FALSE
        OBVIOUS
      <4>1. d.claim \in Live(versions)
        BY <1>4, <2>2 DEF Housed
      <4>2. d.claim \in ClaimsOf(versions)
        BY <4>1 DEF Live, ClaimsOf
      <4>3. d.claim \notin {y[1] : y \in Evidence}
        BY <1>2, <1>8 DEF Extracted
      <4>4. d.claim \in Ids(derived)
        BY <1>4, <4>2, <4>3 DEF Housed
      <4> QED BY <1>8, <4>4 DEF Ids
    <3>2. \E p \in P : \E z \in Supports(p, e.at) : x = <<n(p).claim, z[2]>>
      BY <1>1, <3>1
    <3> QED BY <1>6, <2>2, <3>2
  <2> QED BY <2>1, <2>2
<1> QED BY <1>1, <1>7, <1>8 DEF Supported, D, E

\* What stood still stands when tables only grow.
LEMMA StandsOn ==
  ASSUME NEW i, NEW S, NEW E, NEW D, Stands(i, S, E, D),
         NEW R, NamesOf(S) \subseteq NamesOf(R), NEW W, E \subseteq W, NEW C, D \subseteq C
  PROVE  Stands(i, R, W, C)
BY DEF Stands

LEMMA InferenceStands ==
  ASSUME DInv, NEW e, e.at \in Times, MayInfer(e.at), NEW p \in Candidates(e.at)
  PROVE  Stands(Inference(p, e), Inferred(e).versions, Inferred(e).evidence, Inferred(e).derived)
<1> DEFINE S == Inferred(e).versions
           D == Inferred(e).derived
           E == Inferred(e).evidence
           c == Derivation(p, e.at).claim
           xs == Supports(p, e.at)
           ys == Counters(p, e.at)
           cited == Cited(p, e.at)
           i == Inference(p, e)
           k == VersionKey(p, e)
<1>1. /\ NamesOf(versions) \subseteq NamesOf(S)
      /\ p \in Changing(e.at) => <<c, <<"inferred", e.id>>>> \in NamesOf(S)
  BY InferredVersions
<1>2. evidence \subseteq E
  BY InferredClaims
<1>3. cited = {<<x[1].claim, x[1].key, x[2]>> : x \in xs \cup ys} /\ xs \cup ys \subseteq Relevant(e.at)
  BY DEF Cited, Supports, Saying, Counters
<1>4. p \in Propositions
  BY DEF Candidates
<1> HIDE DEF S, E, xs, ys, cited, i
<1>5. ASSUME NEW y \in cited
      PROVE  /\ y \in ClaimIds \X (AuditKeys \cup {Initial}) \X Sources
             /\ y[1] \in DOMAIN About /\ <<y[1], y[3]>> \in E /\ <<y[1], y[2]>> \in NamesOf(S)
             /\ \E x \in xs \cup ys : y[3] = x[2]
  <2>1. PICK x \in xs \cup ys : y = <<x[1].claim, x[1].key, x[2]>>
    BY <1>3
  <2>2. /\ x[1] \in versions /\ x[2] \in Sources
        /\ x[1].claim \in DOMAIN About /\ x[1].claim \in ClaimIds
        /\ x[1].key \in AuditKeys \cup {Initial}
        /\ <<x[1].claim, x[2]>> \in evidence
    BY <1>3, EpisodesAreStored
  <2>3. <<x[1].claim, x[1].key>> \in NamesOf(S)
    BY <1>1, <2>2 DEF NamesOf
  <2>4. y[1] = x[1].claim /\ y[2] = x[1].key /\ y[3] = x[2]
    BY <2>1
  <2>5. y \in ClaimIds \X (AuditKeys \cup {Initial}) \X Sources
    BY <2>1, <2>2
  <2> QED BY <1>2, <2>2, <2>3, <2>4, <2>5
<1>6. CASE ~Accepts(p, e.at)
  <2>1. i = [proposition |-> p, cited |-> cited, claim |-> NoClaim, version |-> Initial]
    BY <1>6 DEF Inference, i, cited
  <2>2. i.proposition = p /\ i.cited = cited /\ i.claim = NoClaim /\ i.version = Initial
    BY <2>1
  <2>3. i = [proposition |-> i.proposition, cited |-> i.cited, claim |-> i.claim, version |-> i.version]
    BY <2>1, <2>2
  <2>4. i.cited \subseteq ClaimIds \X (AuditKeys \cup {Initial}) \X Sources
    BY <1>5, <2>2
  <2>5. Stands(i, S, E, D)
    BY <1>4, <1>5, <2>2, <2>3, <2>4 DEF Stands
  <2> QED BY <2>5 DEF i, S, E
<1>7. CASE Accepts(p, e.at)
  <2>1. p \in Accepted(e.at)
    BY <1>7 DEF Accepted
  <2>2. i = [proposition |-> p, cited |-> cited, claim |-> c, version |-> k]
    BY <1>7 DEF Inference, i, cited
  <2>3. xs # {} /\ ys = {} /\ c \in ClaimIds
    BY <2>1, AcceptedFacts DEF xs, ys
  <2>4. /\ \E d \in D : d.claim = c /\ d.proposition = p
        /\ Spans(p, e.at) \subseteq E
    BY <2>1, InferredClaims DEF E
  <2>5. \A x \in xs : <<c, x[2]>> \in Spans(p, e.at)
    BY DEF Spans, xs
  <2>6. <<c, k>> \in NamesOf(S) /\ ~ResolverKey(k)
    <3>1. CASE Gains(p, e.at)
      <4>1. k = <<"inferred", e.id>> /\ p \in Changing(e.at)
        BY <2>1, <3>1 DEF VersionKey, Changing
      <4> QED BY <1>1, <4>1, RunsOwnTheirKeys
    <3>2. CASE ~Gains(p, e.at)
      <4> DEFINE vs == Succeeded({p}, e.at)
      <4>1. PICK x \in xs : TRUE
        BY <2>3
      <4>2. <<c, x[2]>> \in evidence
        BY <2>5, <3>2 DEF Gains
      <4>3. <<c, x[2]>>[1] \in Live(versions)
        BY <4>2 DEF DInv, Good, Housed
      <4>4. PICK u \in versions : u.to = Open /\ u.claim = c
        BY <4>3 DEF Live
      <4>5. u \in vs
        BY <4>4 DEF Succeeded
      <4> DEFINE v == CHOOSE w \in vs : TRUE
      <4>6. v \in vs
        <5> HIDE DEF vs
        <5> QED BY <4>5
      <4>7. k = v.key
        BY <3>2 DEF VersionKey
      <4>8. v \in versions /\ v.claim = c
        <5> HIDE DEF v
        <5> QED BY <4>6 DEF Succeeded
      <4>9. v.status = "candidate"
        <5>1. v \in Succeeded(Accepted(e.at), e.at)
          <6> HIDE DEF v
          <6> QED BY <2>1, <4>6 DEF Succeeded
        <5> HIDE DEF v
        <5> QED BY <5>1 DEF MayInfer
      <4> HIDE DEF v, k
      <4>10. ~ResolverKey(v.key)
        BY <4>8, <4>9 DEF DInv, Good, Plain
      <4>11. <<c, v.key>> \in NamesOf(S)
        BY <1>1, <4>8 DEF NamesOf
      <4> QED BY <4>7, <4>10, <4>11
    <3> QED BY <3>1, <3>2
  <2> HIDE DEF c, k, D
  <2>7. i.proposition = p /\ i.cited = cited /\ i.claim = c /\ i.version = k
    BY <2>2
  <2>8. i = [proposition |-> i.proposition, cited |-> i.cited, claim |-> i.claim, version |-> i.version]
    BY <2>2, <2>7
  <2>9. \A y \in i.cited : <<i.claim, y[3]>> \in E
    BY <1>5, <2>3, <2>4, <2>5, <2>7
  <2>10. i.cited \subseteq ClaimIds \X (AuditKeys \cup {Initial}) \X Sources
    BY <1>5, <2>7
  <2>11. \A y \in i.cited : y[1] \in DOMAIN About /\ <<y[1], y[3]>> \in E /\ <<y[1], y[2]>> \in NamesOf(S)
    BY <1>5, <2>7
  <2>12. Stands(i, S, E, D)
    BY <1>4, <2>4, <2>6, <2>7, <2>8, <2>9, <2>10, <2>11 DEF Stands
  <2> QED BY <2>12 DEF i, S, E, D
<1> QED BY <1>6, <1>7

LEMMA InferredJustified ==
  ASSUME DInv, NEW e, e.at \in Times, MayInfer(e.at)
  PROVE  Justified(Inferred(e).versions, Inferred(e).evidence, Inferred(e).derived, Inferred(e).runs)
<1> DEFINE S == Inferred(e).versions
           D == Inferred(e).derived
           E == Inferred(e).evidence
<1>1. Inferred(e).runs = runs \cup {Run(e)}
  BY InferredFields
<1>2. NamesOf(versions) \subseteq NamesOf(S)
  BY InferredVersions
<1>3. evidence \subseteq E /\ derived \subseteq D
  BY InferredClaims
<1>4. \A p \in Candidates(e.at) : Stands(Inference(p, e), S, E, D)
  BY InferenceStands
<1>5. Justified(versions, evidence, derived, runs)
  BY DEF DInv, Good
<1> HIDE DEF S, D, E
<1>6. ASSUME NEW r \in runs, NEW i \in r.inferences PROVE Stands(i, S, E, D)
  <2>1. Stands(i, versions, evidence, derived)
    BY <1>5 DEF Justified
  <2> QED BY <1>2, <1>3, <2>1, StandsOn
<1> DEFINE I == {Inference(p, e) : p \in Candidates(e.at)}
           input == InferenceInput(e.at)
           id == e.id
           r == Run(e)
<1>7. \A i \in I : Stands(i, S, E, D)
  BY <1>4
<1>8. r = [event |-> id, at |-> e.at, input |-> input, inferences |-> I]
  BY DEF Run
<1> HIDE DEF I, input, id, r
<1>9. r.event = id /\ r.at = e.at /\ r.input = input /\ r.inferences = I
  BY <1>8
<1>10. r = [event |-> r.event, at |-> r.at, input |-> r.input, inferences |-> r.inferences]
  BY <1>8, <1>9
<1>11. Justified(S, E, D, runs \cup {r})
  BY <1>5, <1>6, <1>7, <1>9, <1>10 DEF Justified
<1> QED BY <1>1, <1>11 DEF S, E, D, r

LEMMA InferredIsGood ==
  ASSUME DInv, NEW e, e.at \in Times, MayInfer(e.at)
  PROVE  Good(Inferred(e).versions, Inferred(e).evidence, Inferred(e).derived, Inferred(e).runs)
BY InferredVersions, InferredHoused, InferredIdentified, InferredSupported, InferredJustified DEF Good

-----------------------------------------------------------------------------
\* A purge takes derived claims with all that knows them.

LEMMA ClaimedAreStored ==
  ASSUME NEW S, NEW E, NEW D, NEW Q, Justified(S, E, D, Q)
  PROVE  Claimed(Q) \subseteq Ids(D)
<1> SUFFICES ASSUME NEW c \in Claimed(Q) PROVE c \in Ids(D)
  OBVIOUS
<1>1. PICK r \in Q : c \in DerivedBy(r)
  BY DEF Claimed
<1>2. PICK i \in r.inferences : i.claim = c /\ c # NoClaim
  BY <1>1 DEF DerivedBy
<1>3. Stands(i, S, E, D)
  BY DEF Justified
<1> QED BY <1>2, <1>3 DEF Stands, Ids

LEMMA PurgeIsGood ==
  ASSUME NEW S, NEW E, NEW D, NEW Q, Good(S, E, D, Q), NEW gone \in SUBSET Ids(D)
  PROVE  Good(Outside(S, gone), {x \in E : x[1] \notin gone},
              {d \in D : d.claim \notin gone}, {r \in Q : DerivedBy(r) \cap gone = {}})
<1> DEFINE R == Outside(S, gone)
           W == {x \in E : x[1] \notin gone}
           C == {d \in D : d.claim \notin gone}
           P == {r \in Q : DerivedBy(r) \cap gone = {}}
<1>1. Plain(S) /\ Housed(S, E, D) /\ Identified(D) /\ Supported(E, D) /\ Justified(S, E, D, Q)
  BY DEF Good
<1>2. /\ Plain(R) /\ ClaimsOf(R) = ClaimsOf(S) \ gone /\ Live(R) = Live(S) \ gone
      /\ \A v \in S : v.claim \notin gone => <<v.claim, v.key>> \in NamesOf(R)
  BY <1>1, OutsidePlain
<1>3. \A c \in Extracted : c \notin gone
  BY <1>1, DerivedIds DEF Ids
<1>4. \A c \in DOMAIN About : c \notin gone
  BY <1>3 DEF Extracted
<1> HIDE DEF R
<1>5. Housed(R, W, C)
  <2>1. W \subseteq ClaimIds \X Sources /\ \A x \in W : x[1] \in Live(R)
    BY <1>1, <1>2 DEF Housed
  <2>2. ClaimsOf(R) \subseteq {x[1] : x \in Evidence} \cup Ids(C)
    <3>1. Ids(D) \ gone \subseteq Ids(C)
      BY DEF Ids
    <3> QED BY <1>1, <1>2, <3>1 DEF Housed
  <2> QED BY <2>1, <2>2 DEF Housed
<1>6. Identified(C)
  BY <1>1 DEF Identified
<1>7. Supported(W, C)
  <2> SUFFICES ASSUME NEW d \in D, d.claim \notin gone
               PROVE  /\ \E x \in W : x[1] = d.claim
                      /\ \A x \in W : x[1] = d.claim =>
                           \E y \in W : y[2] = x[2] /\ y[1] \in DOMAIN About /\ About[y[1]] = d.proposition
    BY DEF Supported
  <2> QED BY <1>1, <1>4 DEF Supported
<1>8. Justified(R, W, C, P)
  <2> SUFFICES ASSUME NEW r \in Q, DerivedBy(r) \cap gone = {}, NEW i \in r.inferences
               PROVE  Stands(i, R, W, C)
    BY <1>1 DEF Justified
  <2>1. Stands(i, S, E, D)
    BY <1>1 DEF Justified
  <2>2. i.claim # NoClaim => i.claim \notin gone
    BY DEF DerivedBy
  <2>3. \A c, k : <<c, k>> \in NamesOf(S) /\ c \notin gone => <<c, k>> \in NamesOf(R)
    <3> SUFFICES ASSUME NEW c, NEW k, <<c, k>> \in NamesOf(S), c \notin gone PROVE <<c, k>> \in NamesOf(R)
      OBVIOUS
    <3>1. PICK v \in S : <<c, k>> = <<v.claim, v.key>>
      BY DEF NamesOf
    <3>2. v.claim = c /\ v.key = k
      BY <3>1
    <3> QED BY <1>2, <3>2
  <2>4. ASSUME NEW x \in i.cited
        PROVE  /\ x[1] \in DOMAIN About /\ <<x[1], x[3]>> \in W /\ <<x[1], x[2]>> \in NamesOf(R)
               /\ i.claim # NoClaim => <<i.claim, x[3]>> \in W
    <3>1. /\ x[1] \in DOMAIN About /\ <<x[1], x[3]>> \in E /\ <<x[1], x[2]>> \in NamesOf(S)
          /\ i.claim # NoClaim => <<i.claim, x[3]>> \in E
      BY <2>1 DEF Stands
    <3>2. x[1] \notin gone
      BY <1>4, <3>1
    <3>3. \A c, y : <<c, y>>[1] = c
      OBVIOUS
    <3> QED BY <2>2, <2>3, <3>1, <3>2, <3>3
  <2>5. i.claim # NoClaim =>
          /\ \E d \in C : d.claim = i.claim /\ d.proposition = i.proposition
          /\ <<i.claim, i.version>> \in NamesOf(R) /\ ~ResolverKey(i.version)
    <3> HIDE DEF W
    <3> QED BY <2>1, <2>2, <2>3 DEF Stands
  <2> HIDE DEF W, C
  <2> QED BY <2>1, <2>4, <2>5 DEF Stands
<1>9. Good(R, W, C, P)
  BY <1>2, <1>5, <1>6, <1>7, <1>8 DEF Good
<1> QED BY <1>9 DEF R

LEMMA PurgedFields ==
  ASSUME NEW db, NEW gone
  PROVE  LET left == Purged(db, gone)
         IN /\ left.derived = {d \in db.derived : d.claim \notin gone}
            /\ left.runs = {r \in db.runs : DerivedBy(r) \cap gone = {}}
            /\ left.inferred = {i \in db.inferred : i.claim \notin gone}
            /\ left.versions = Outside(db.versions, gone)
            /\ left.evidence = {x \in db.evidence : x[1] \notin gone}
BY DEF Purged, Outside

LEMMA PurgeKeepsDInv ==
  ASSUME DInv, NEW db, Good(db.versions, db.evidence, db.derived, db.runs),
         \A i \in db.inferred : i.claim \in ClaimIds /\ i.at \in Times,
         NEW active, PurgeBut(db, active),
         UNCHANGED <<transitions, announced, forgotten, decisions, resolutions, requeued, deletedAt>>
  PROVE  DInv'
<1> DEFINE gone == Claimed(db.runs) \ active
           left == Purged(db, gone)
<1>1. /\ derived' = left.derived /\ runs' = left.runs /\ inferred' = left.inferred
      /\ versions' = left.versions /\ evidence' = left.evidence
  BY DEF PurgeBut
<1>2. gone \in SUBSET Ids(db.derived)
  BY ClaimedAreStored DEF Good
<1> HIDE DEF gone
<1>3. /\ left.derived = {d \in db.derived : d.claim \notin gone}
      /\ left.runs = {r \in db.runs : DerivedBy(r) \cap gone = {}}
      /\ left.inferred = {i \in db.inferred : i.claim \notin gone}
      /\ left.versions = Outside(db.versions, gone)
      /\ left.evidence = {x \in db.evidence : x[1] \notin gone}
  BY PurgedFields
<1> HIDE DEF left
<1>4. Good(left.versions, left.evidence, left.derived, left.runs)
  BY <1>2, <1>3, PurgeIsGood
<1>5. Good(versions', evidence', derived', runs')
  BY <1>1, <1>4
<1>6. Dated'
  BY <1>1, <1>3 DEF DInv, Dated
<1> QED BY <1>5, <1>6 DEF DInv, Filed

LEMMA ProcessKeepsDInv == ASSUME DInv, NEW e \in Changes, Process(e) PROVE DInv'
<1>1. e.at \in Times
  BY ChangesAreDated
<1>2. UNCHANGED <<transitions, announced, forgotten, decisions, resolutions, requeued, deletedAt>>
  BY DEF Process
<1>3. ASSUME MayInfer(e.at), PurgeBut(Inferred(e), DerivedBy(Run(e)))
      PROVE  DInv'
  <2> DEFINE db == Inferred(e)
             active == DerivedBy(Run(e))
  <2>1. Good(db.versions, db.evidence, db.derived, db.runs)
    BY <1>1, <1>3, InferredIsGood
  <2>2. \A i \in db.inferred : i.claim \in ClaimIds /\ i.at \in Times
    <3>1. db.inferred = inferred \cup
            {[event |-> e.id, claim |-> Derivation(p, e.at).claim, at |-> e.at] : p \in Changing(e.at)}
      BY InferredFields
    <3>2. \A p \in Changing(e.at) : Derivation(p, e.at).claim \in ClaimIds
      BY AcceptedFacts DEF Changing
    <3> HIDE DEF db
    <3> QED BY <1>1, <3>1, <3>2 DEF DInv, Dated
  <2>3. PurgeBut(db, active)
    BY <1>3
  <2> HIDE DEF db, active
  <2> QED BY <1>2, <2>1, <2>2, <2>3, PurgeKeepsDInv
<1>4. ASSUME NEW r \in runs, PurgeBut(durativeTables, DerivedBy(r))
      PROVE  DInv'
  <2> DEFINE db == durativeTables
             active == DerivedBy(r)
  <2>1. /\ db.derived = derived /\ db.runs = runs /\ db.inferred = inferred
        /\ db.versions = versions /\ db.evidence = evidence
    BY DEF durativeTables
  <2>2. PurgeBut(db, active)
    BY <1>4
  <2> HIDE DEF db, active
  <2>3. Good(db.versions, db.evidence, db.derived, db.runs)
    BY <2>1 DEF DInv
  <2>4. \A i \in db.inferred : i.claim \in ClaimIds /\ i.at \in Times
    BY <2>1 DEF DInv, Dated
  <2> QED BY <1>2, <2>2, <2>3, <2>4, PurgeKeepsDInv
<1> QED BY <1>3, <1>4 DEF Process

-----------------------------------------------------------------------------
\* A deletion takes what was derived from the source, and nothing that stays rested on
\* what goes (migration 0007's triggers).

Reduced(i, s) == [i EXCEPT !.cited = Left(i, s)]
Rested(r, s) == [r EXCEPT !.inferences = {Reduced(i, s) : i \in r.inferences}]

LEMMA ReducedFields ==
  ASSUME NEW i, NEW s,
         i = [proposition |-> i.proposition, cited |-> i.cited, claim |-> i.claim, version |-> i.version]
  PROVE  LET j == Reduced(i, s)
         IN /\ j = [proposition |-> i.proposition, cited |-> Left(i, s), claim |-> i.claim, version |-> i.version]
            /\ j.proposition = i.proposition /\ j.cited = Left(i, s)
            /\ j.claim = i.claim /\ j.version = i.version
<1> DEFINE p == i.proposition
           c == i.claim
           v == i.version
           x == i.cited
           L == Left(i, s)
           w == [proposition |-> p, cited |-> x, claim |-> c, version |-> v]
<1>1. i = w /\ Reduced(i, s) = [i EXCEPT !.cited = L]
  BY DEF Reduced
<1> HIDE DEF p, c, v, x, L
<1>2. [w EXCEPT !.cited = L] = [proposition |-> p, cited |-> L, claim |-> c, version |-> v]
  OBVIOUS
<1> HIDE DEF w
<1>3. Reduced(i, s) = [proposition |-> p, cited |-> L, claim |-> c, version |-> v]
  BY <1>1, <1>2
<1> QED BY <1>3 DEF p, c, v, L

LEMMA RestedFields ==
  ASSUME NEW r, NEW s,
         r = [event |-> r.event, at |-> r.at, input |-> r.input, inferences |-> r.inferences]
  PROVE  LET q == Rested(r, s)
         IN /\ q = [event |-> q.event, at |-> q.at, input |-> q.input, inferences |-> q.inferences]
            /\ q.event = r.event /\ q.at = r.at
            /\ q.inferences = {Reduced(i, s) : i \in r.inferences}
<1> DEFINE e == r.event
           a == r.at
           x == r.input
           I == r.inferences
           J == {Reduced(i, s) : i \in I}
           w == [event |-> e, at |-> a, input |-> x, inferences |-> I]
           q == Rested(r, s)
<1>1. r = w /\ q = [r EXCEPT !.inferences = J]
  BY DEF Rested
<1> HIDE DEF e, a, x, I, J, q
<1>2. [w EXCEPT !.inferences = J] = [event |-> e, at |-> a, input |-> x, inferences |-> J]
  OBVIOUS
<1> HIDE DEF w
<1>3. q = [event |-> e, at |-> a, input |-> x, inferences |-> J]
  BY <1>1, <1>2
<1>4. q.event = e /\ q.at = a /\ q.input = x /\ q.inferences = J
  BY <1>3
<1> QED BY <1>3, <1>4 DEF e, a, J, I, q

\* Good after a deletion, in terms of what it leaves.
LEMMA DeletionIsGood ==
  ASSUME Good(versions, evidence, derived, runs), Filed(resolutions), NEW s \in Sources,
         NEW R, Plain(R),
         Live(versions) \ (Retired(s) \cup DerivedFrom(s)) \subseteq Live(R),
         ClaimsOf(R) \subseteq ClaimsOf(versions) \ (Retired(s) \cup DerivedFrom(s)),
         \A v \in versions \ Unmade(Undone(s)) :
           v.claim \notin Retired(s) \cup DerivedFrom(s) => <<v.claim, v.key>> \in NamesOf(R)
  PROVE  Good(R, {e \in evidence : e[2] # s /\ e[1] \notin DerivedFrom(s)},
              {d \in derived : d.claim \notin DerivedFrom(s) \cup Retired(s)},
              {Rested(r, s) : r \in {q \in runs :
                 /\ DerivedBy(q) \cap (DerivedFrom(s) \cup Retired(s)) = {}
                 /\ \A i \in q.inferences : ~RestsOn(i, s)}})
<1> DEFINE also == DerivedFrom(s)
           retired == Retired(s)
           off == Unmade(Undone(s))
           W == {e \in evidence : e[2] # s /\ e[1] \notin also}
           C == {d \in derived : d.claim \notin also \cup retired}
           kept == {q \in runs : /\ DerivedBy(q) \cap (also \cup retired) = {}
                                 /\ \A i \in q.inferences : ~RestsOn(i, s)}
           P == {Rested(r, s) : r \in kept}
<1>1. /\ Plain(versions) /\ Housed(versions, evidence, derived) /\ Identified(derived)
      /\ Supported(evidence, derived) /\ Justified(versions, evidence, derived, runs)
  BY DEF Good
<1>2. also \subseteq Ids(derived)
  <2> SUFFICES ASSUME NEW c \in also PROVE c \in Ids(derived)
    OBVIOUS
  <2>1. PICK r \in runs : \E i \in r.inferences : i.claim = c /\ c # NoClaim
    BY DEF DerivedFrom
  <2>2. PICK i \in r.inferences : i.claim = c /\ c # NoClaim
    BY <2>1
  <2>3. Stands(i, versions, evidence, derived)
    BY <1>1 DEF Justified
  <2> QED BY <2>2, <2>3 DEF Stands, Ids
<1>3. \A c \in DOMAIN About : c \notin also
  <2>1. \A d \in derived : d.claim \notin Extracted
    BY <1>1, DerivedIds
  <2> QED BY <1>2, <2>1 DEF Ids, Extracted
<1>4. \A e \in evidence : e[2] # s => e[1] \notin retired
  BY DEF Retired
<1>5. \A c \in ClaimIds : c \notin retired => <<c, s>> \notin evidence \/ \E e \in evidence : e[1] = c /\ e[2] # s
  BY DEF Retired
<1>6. \A v \in off : ResolverKey(v.key)
  BY <1>1, UndoneAreResolvers
<1> HIDE DEF also, retired, off
<1>7. Housed(R, W, C)
  <2>1. W \subseteq ClaimIds \X Sources /\ \A x \in W : x[1] \in Live(R)
    BY <1>1, <1>4 DEF Housed, also, retired
  <2>2. ClaimsOf(R) \subseteq {x[1] : x \in Evidence} \cup Ids(C)
    <3>1. Ids(derived) \ (also \cup retired) \subseteq Ids(C)
      BY DEF Ids
    <3>2. ClaimsOf(R) \subseteq ClaimsOf(versions) \ (also \cup retired)
      BY DEF also, retired
    <3> QED BY <1>1, <3>1, <3>2 DEF Housed
  <2> QED BY <2>1, <2>2 DEF Housed
<1>8. Identified(C)
  BY <1>1 DEF Identified
<1>9. Supported(W, C)
  <2> SUFFICES ASSUME NEW d \in C
               PROVE  /\ \E x \in W : x[1] = d.claim
                      /\ \A x \in W : x[1] = d.claim =>
                           \E y \in W : y[2] = x[2] /\ y[1] \in DOMAIN About /\ About[y[1]] = d.proposition
    BY DEF Supported
  <2>1. d \in derived /\ d.claim \notin also /\ d.claim \notin retired /\ d.claim \in ClaimIds
    BY <1>1, DerivedIds
  <2>2. \E x \in W : x[1] = d.claim
    <3>1. PICK x \in evidence : x[1] = d.claim
      BY <1>1, <2>1 DEF Supported
    <3>2. x = <<x[1], x[2]>>
      BY <1>1 DEF Housed
    <3>3. \E e \in evidence : e[1] = d.claim /\ e[2] # s
      <4>1. CASE x[2] # s
        BY <3>1, <4>1
      <4>2. CASE x[2] = s
        <5>1. <<d.claim, s>> \in evidence
          BY <3>1, <3>2, <4>2
        <5> QED BY <1>5, <2>1, <5>1
      <4> QED BY <4>1, <4>2
    <3> QED BY <2>1, <3>3
  <2>3. ASSUME NEW x \in W, x[1] = d.claim
        PROVE  \E y \in W : y[2] = x[2] /\ y[1] \in DOMAIN About /\ About[y[1]] = d.proposition
    <3>1. PICK y \in evidence : y[2] = x[2] /\ y[1] \in DOMAIN About /\ About[y[1]] = d.proposition
      BY <1>1, <2>1, <2>3 DEF Supported
    <3> QED BY <1>3, <3>1
  <2> QED BY <2>2, <2>3
<1>10. ASSUME NEW r \in kept, NEW i \in r.inferences PROVE Stands(Reduced(i, s), R, W, C)
  <2> DEFINE j == Reduced(i, s)
             L == Left(i, s)
  <2>1. Stands(i, versions, evidence, derived)
    BY <1>1 DEF Justified
  <2>2. /\ j = [proposition |-> i.proposition, cited |-> L, claim |-> i.claim, version |-> i.version]
        /\ j.proposition = i.proposition /\ j.cited = L /\ j.claim = i.claim /\ j.version = i.version
    BY <2>1, ReducedFields DEF Stands
  <2>3. /\ L \subseteq i.cited /\ \A x \in L : x[3] # s
        /\ \A x \in L : \A v \in off : v.claim # x[1] \/ v.key # x[2]
    BY DEF Left, RestsOn, off
  <2>4. i.claim # NoClaim => i.claim \notin also /\ i.claim \notin retired
    BY DEF DerivedBy
  <2> HIDE DEF L, j
  <2>5. \A c, k : /\ <<c, k>> \in NamesOf(versions)
                  /\ c \notin also /\ c \notin retired
                  /\ \A v \in off : v.claim # c \/ v.key # k
                  => <<c, k>> \in NamesOf(R)
    <3> SUFFICES ASSUME NEW c, NEW k, <<c, k>> \in NamesOf(versions), c \notin also, c \notin retired,
                        \A v \in off : v.claim # c \/ v.key # k
                 PROVE  <<c, k>> \in NamesOf(R)
      OBVIOUS
    <3>1. PICK v \in versions : <<c, k>> = <<v.claim, v.key>>
      BY DEF NamesOf
    <3>2. v.claim = c /\ v.key = k
      BY <3>1
    <3> QED BY <3>1, <3>2 DEF also, retired, off
  <2>6. ASSUME NEW x \in L
        PROVE  /\ x[1] \in DOMAIN About /\ <<x[1], x[3]>> \in W /\ <<x[1], x[2]>> \in NamesOf(R)
               /\ i.claim # NoClaim => <<i.claim, x[3]>> \in W
    <3>1. /\ x[1] \in DOMAIN About /\ <<x[1], x[3]>> \in evidence /\ <<x[1], x[2]>> \in NamesOf(versions)
          /\ i.claim # NoClaim => <<i.claim, x[3]>> \in evidence
      BY <2>1, <2>3 DEF Stands
    <3>2. x[3] # s /\ x[1] \notin also
      BY <1>3, <2>3, <3>1
    <3>3. \A c, y : <<c, y>>[1] = c /\ <<c, y>>[2] = y
      OBVIOUS
    <3>4. x[1] \notin retired
      BY <1>4, <3>1, <3>2, <3>3
    <3>5. <<x[1], x[2]>> \in NamesOf(R)
      BY <2>3, <2>5, <3>1, <3>2, <3>4
    <3> QED BY <2>4, <3>1, <3>2, <3>3, <3>5
  <2>7. i.claim # NoClaim =>
          /\ \E d \in C : d.claim = i.claim /\ d.proposition = i.proposition
          /\ <<i.claim, i.version>> \in NamesOf(R) /\ ~ResolverKey(i.version)
    <3> SUFFICES ASSUME i.claim # NoClaim
                 PROVE  /\ \E d \in C : d.claim = i.claim /\ d.proposition = i.proposition
                        /\ <<i.claim, i.version>> \in NamesOf(R) /\ ~ResolverKey(i.version)
      OBVIOUS
    <3>1. /\ \E d \in derived : d.claim = i.claim /\ d.proposition = i.proposition
          /\ <<i.claim, i.version>> \in NamesOf(versions) /\ ~ResolverKey(i.version)
      BY <2>1 DEF Stands
    <3>2. \A v \in off : v.key # i.version
      BY <1>6, <3>1
    <3> QED BY <2>4, <2>5, <3>1, <3>2
  <2>8. i.proposition \in Propositions /\ L \subseteq ClaimIds \X (AuditKeys \cup {Initial}) \X Sources
    BY <2>1, <2>3 DEF Stands
  <2> HIDE DEF W, C
  <2>9. j = [proposition |-> j.proposition, cited |-> j.cited, claim |-> j.claim, version |-> j.version]
    BY <2>2
  <2>10. Stands(j, R, W, C)
    BY <2>2, <2>6, <2>7, <2>8, <2>9 DEF Stands
  <2> QED BY <2>10 DEF j
<1>11. Justified(R, W, C, P)
  <2> SUFFICES ASSUME NEW r \in kept
               PROVE  LET q == Rested(r, s)
                      IN /\ q = [event |-> q.event, at |-> q.at, input |-> q.input, inferences |-> q.inferences]
                         /\ q.at \in Times
                         /\ \A i \in q.inferences : Stands(i, R, W, C)
    <3> HIDE DEF kept, W, C
    <3> QED BY DEF Justified
  <2> DEFINE q == Rested(r, s)
  <2>1. /\ r = [event |-> r.event, at |-> r.at, input |-> r.input, inferences |-> r.inferences]
        /\ r.at \in Times
    BY <1>1 DEF Justified
  <2>2. /\ q = [event |-> q.event, at |-> q.at, input |-> q.input, inferences |-> q.inferences]
        /\ q.at = r.at /\ q.inferences = {Reduced(i, s) : i \in r.inferences}
    BY <2>1, RestedFields
  <2> HIDE DEF q, W, C
  <2>3. \A i \in q.inferences : Stands(i, R, W, C)
    BY <1>10, <2>2
  <2> QED BY <2>1, <2>2, <2>3 DEF q
<1>12. Good(R, W, C, P)
  BY <1>7, <1>8, <1>9, <1>11 DEF Good
<1> QED BY <1>12 DEF also, retired

LEMMA EraseKeepsDInv ==
  ASSUME DInv, NEW s \in Sources, NEW t \in IngestedAt[s] .. MaxTime, Erase(s, t)
  PROVE  DInv'
<1>1. PICK db \in OutcomesWith(s, DerivedFrom(s)) : Write(db)
  BY DEF Erase, DeleteSourceWith
<1>2. /\ Good(versions, evidence, derived, runs) /\ Filed(resolutions) /\ Plain(versions)
      /\ \A a \in transitions : a.at \in Times
  BY DEF DInv, Good, Dated
<1>3. /\ Travels(db, resolutions)
      /\ Live(versions) \ (Retired(s) \cup DerivedFrom(s)) \subseteq Live(db.versions)
      /\ ClaimsOf(db.versions) \subseteq ClaimsOf(versions) \ (Retired(s) \cup DerivedFrom(s))
      /\ \A v \in versions \ Unmade(Undone(s)) :
           v.claim \notin Retired(s) \cup DerivedFrom(s) => <<v.claim, v.key>> \in NamesOf(db.versions)
  BY <1>2, DeletionLeavesPlain
<1>4. /\ versions' = db.versions /\ transitions' = db.transitions /\ resolutions' = db.resolutions
  BY <1>1 DEF Write
<1>5. /\ evidence' = {e \in evidence : e[2] # s /\ e[1] \notin DerivedFrom(s)}
      /\ forgotten' = forgotten \cup {s}
      /\ \A q \in requeued' : q \in requeued \/ q.source = s
  BY DEF Erase, DeleteSourceWith
<1>6. /\ derived' = {d \in derived : d.claim \notin DerivedFrom(s) \cup Retired(s)}
      /\ inferred' \subseteq inferred
      /\ deletedAt' = [deletedAt EXCEPT ![s] = t]
      /\ runs' = {Rested(r, s) : r \in {q \in runs :
                 /\ DerivedBy(q) \cap (DerivedFrom(s) \cup Retired(s)) = {}
                 /\ \A i \in q.inferences : ~RestsOn(i, s)}}
  BY DEF Erase, Records, Rested, Reduced
<1>7. Good(versions', evidence', derived', runs')
  <2>1. Plain(db.versions)
    BY <1>3 DEF Travels
  <2>2. Good(db.versions, {e \in evidence : e[2] # s /\ e[1] \notin DerivedFrom(s)},
              {d \in derived : d.claim \notin DerivedFrom(s) \cup Retired(s)},
              {Rested(r, s) : r \in {q \in runs :
                 /\ DerivedBy(q) \cap (DerivedFrom(s) \cup Retired(s)) = {}
                 /\ \A i \in q.inferences : ~RestsOn(i, s)}})
    BY <1>2, <1>3, <2>1, DeletionIsGood
  <2> QED BY <1>4, <1>5, <1>6, <2>2
<1>8. Filed(resolutions')
  <2>1. resolutions' \subseteq resolutions
    BY <1>3, <1>4 DEF Travels
  <2> QED BY <1>2, <2>1, FS_Subset DEF Filed
<1>9. t \in Times
  <2>1. IngestedAt[s] \in Times /\ MaxTime \in Nat
    BY LifecycleAssumption
  <2> QED BY <2>1 DEF Times
<1>10. Dated'
  <2>1. \A a \in transitions' : a.at \in Times
    BY <1>3, <1>4 DEF Travels
  <2>2. \A i \in inferred' : i.claim \in ClaimIds /\ i.at \in Times
    BY <1>6 DEF DInv, Dated
  <2>3. /\ forgotten \subseteq Sources /\ deletedAt \in [Sources -> Times \cup {Open}]
        /\ \A x \in forgotten : deletedAt[x] \in Times
        /\ \A q \in requeued : q.source \in forgotten
    BY DEF DInv, Dated
  <2>4. /\ deletedAt' \in [Sources -> Times \cup {Open}]
        /\ \A x \in forgotten' : deletedAt'[x] \in Times
    BY <1>5, <1>6, <1>9, <2>3
  <2>5. forgotten' \subseteq Sources /\ \A q \in requeued' : q.source \in forgotten'
    BY <1>5, <2>3
  <2> QED BY <2>1, <2>2, <2>4, <2>5 DEF Dated
<1> QED BY <1>7, <1>8, <1>10 DEF DInv

-----------------------------------------------------------------------------
\* The invariant.

LEMMA DInvInit == DurativeInit => DInv
<1> SUFFICES ASSUME DurativeInit PROVE DInv
  OBVIOUS
<1> DEFINE First(c) == [claim |-> c, key |-> Initial, status |-> "candidate",
                        from |-> Earliest(c), to |-> Open]
           C == {e[1] : e \in Evidence}
<1>1. Evidence \subseteq ClaimIds \X Sources /\ IngestedAt \in [Sources -> Times]
  BY BeliefsAssumption, LifecycleAssumption
<1>2. C \subseteq ClaimIds /\ \A c \in C : Earliest(c) \in Times
  BY <1>1, EarliestIsATime
<1>3. \A e \in Evidence : e[1] \in C
  OBVIOUS
<1>4. versions = {First(c) : c \in C} /\ evidence = Evidence
  BY DEF DurativeInit, BeliefInit
<1>5. C \subseteq {x[1] : x \in Evidence}
  OBVIOUS
<1> HIDE DEF C
<1>6. \A c \in C : /\ IsVersion(First(c)) /\ First(c).claim = c /\ First(c).key = Initial /\ First(c).to = Open
  BY <1>2 DEF IsVersion, Statuses
<1>7. ~ResolverKey(Initial)
  BY KeyFacts DEF ResolverKey
<1> HIDE DEF First
<1>8. Plain(versions)
  BY <1>4, <1>6, <1>7 DEF Plain
<1>9. /\ transitions = {} /\ resolutions = {} /\ requeued = {} /\ forgotten = {}
      /\ derived = {} /\ runs = {} /\ inferred = {} /\ deletedAt = [s \in Sources |-> Open]
  BY DEF DurativeInit, BeliefInit, NothingDeleted
<1>10. Housed(versions, evidence, derived)
  <2>1. \A c \in C : c \in Live(versions)
    BY <1>4, <1>6 DEF Live
  <2>2. ClaimsOf(versions) \subseteq C
    BY <1>4, <1>6 DEF ClaimsOf
  <2> QED BY <1>1, <1>3, <1>4, <1>5, <2>1, <2>2 DEF Housed
<1>11. Identified(derived) /\ Supported(evidence, derived) /\ Justified(versions, evidence, derived, runs)
  BY <1>9 DEF Identified, Supported, Justified
<1>12. Filed(resolutions)
  BY <1>9, FS_EmptySet DEF Filed
<1>13. Dated
  BY <1>9 DEF Dated
<1> QED BY <1>8, <1>10, <1>11, <1>12, <1>13 DEF DInv, Good

LEMMA DInvStep == DInv /\ [DurativeNext]_durativeVars => DInv'
<1> SUFFICES ASSUME DInv, [DurativeNext]_durativeVars PROVE DInv'
  OBVIOUS
<1>1. CASE Decide /\ UNCHANGED <<deletedAt, derived, runs, inferred>>
  BY <1>1, DecideKeepsDInv
<1>2. CASE \E s \in Sources : \E t \in IngestedAt[s] .. MaxTime : Erase(s, t)
  BY <1>2, EraseKeepsDInv
<1>3. CASE \E e \in Changes : Process(e)
  BY <1>3, ProcessKeepsDInv
<1>4. CASE UNCHANGED durativeVars
  <2>1. /\ versions' = versions /\ evidence' = evidence /\ derived' = derived /\ runs' = runs
        /\ UNCHANGED <<transitions, resolutions, requeued, forgotten, inferred, deletedAt>>
    BY <1>4 DEF durativeVars, beliefVars, vars
  <2>2. Good(versions', evidence', derived', runs')
    BY <2>1 DEF DInv
  <2>3. Filed(resolutions') /\ Dated'
    BY <2>1 DEF DInv, Dated
  <2> QED BY <2>2, <2>3 DEF DInv
<1> QED BY <1>1, <1>2, <1>3, <1>4 DEF DurativeNext

LEMMA DInvAlways == DurativeSpec => []DInv
BY DInvInit, DInvStep, PTL DEF DurativeSpec

LEMMA DInvGrounded == DInv => DerivedAreGrounded
<1> SUFFICES ASSUME DInv PROVE DerivedAreGrounded
  OBVIOUS
<1>1. /\ Plain(versions) /\ Housed(versions, evidence, derived) /\ Identified(derived)
      /\ Supported(evidence, derived) /\ Justified(versions, evidence, derived, runs)
  BY DEF DInv, Good
<1>2. \A r \in runs : \A i \in r.inferences : r.at \in Times /\ Stands(i, versions, evidence, derived)
  BY <1>1 DEF Justified
<1>3. \A c, k : <<c, k>> \in NamesOf(versions) => \E v \in versions : v.claim = c /\ v.key = k
  <2> SUFFICES ASSUME NEW c, NEW k, <<c, k>> \in NamesOf(versions)
               PROVE  \E v \in versions : v.claim = c /\ v.key = k
    OBVIOUS
  <2>1. PICK v \in versions : <<c, k>> = <<v.claim, v.key>>
    BY DEF NamesOf
  <2> QED BY <2>1
<1>4. DurativeTypeOK
  <2>1. \A d \in derived :
          /\ d.claim \in {RootId[d.proposition], ReplacementId[<<d.proposition, d.time>>]}
          /\ \A e \in derived : e.claim = d.claim => e = d
    BY <1>1 DEF Identified
  <2>2. \A r \in runs :
          /\ r.at \in Times
          /\ \A i \in r.inferences :
               i.proposition \in Propositions /\ i.cited \subseteq ClaimIds \X (AuditKeys \cup {Initial}) \X Sources
    BY <1>1, <1>2 DEF Justified, Stands
  <2>3. \A i \in inferred : i.claim \in ClaimIds /\ i.at \in Times
    BY DEF DInv, Dated
  <2>4. \A v \in versions : v.claim \in {x[1] : x \in Evidence} \cup {d.claim : d \in derived}
    BY <1>1 DEF Housed, ClaimsOf, Ids
  <2> QED BY <2>1, <2>2, <2>3, <2>4 DEF DurativeTypeOK
<1>5. ASSUME NEW d \in derived
      PROVE  /\ \E v \in versions : v.claim = d.claim /\ v.to = Open
             /\ \E x \in evidence : x[1] = d.claim
             /\ \A x \in {y \in evidence : y[1] = d.claim} :
                  \E y \in evidence : y[2] = x[2] /\ y[1] \in DOMAIN About /\ About[y[1]] = d.proposition
  <2>1. PICK x \in evidence : x[1] = d.claim
    BY <1>1 DEF Supported
  <2>2. x[1] \in Live(versions)
    BY <1>1 DEF Housed
  <2>3. \E v \in versions : v.claim = d.claim /\ v.to = Open
    BY <2>1, <2>2 DEF Live
  <2> QED BY <1>1, <2>1, <2>3 DEF Supported
<1>6. ASSUME NEW r \in runs, NEW i \in r.inferences
      PROVE  /\ \A x \in i.cited :
                  /\ <<x[1], x[3]>> \in evidence
                  /\ \E v \in versions : v.claim = x[1] /\ v.key = x[2]
                  /\ i.claim # NoClaim => <<i.claim, x[3]>> \in evidence
             /\ i.claim # NoClaim =>
                  /\ \E d \in derived : d.claim = i.claim /\ d.proposition = i.proposition
                  /\ \E v \in versions : v.claim = i.claim /\ v.key = i.version
  <2>1. Stands(i, versions, evidence, derived)
    BY <1>2
  <2>2. \A x \in i.cited :
          /\ <<x[1], x[3]>> \in evidence /\ <<x[1], x[2]>> \in NamesOf(versions)
          /\ i.claim # NoClaim => <<i.claim, x[3]>> \in evidence
    BY <2>1 DEF Stands
  <2>3. i.claim # NoClaim =>
          /\ \E d \in derived : d.claim = i.claim /\ d.proposition = i.proposition
          /\ <<i.claim, i.version>> \in NamesOf(versions)
    BY <2>1 DEF Stands
  <2>4. ASSUME NEW x \in i.cited PROVE \E v \in versions : v.claim = x[1] /\ v.key = x[2]
    <3> DEFINE c == x[1]
               k == x[2]
    <3>1. <<c, k>> \in NamesOf(versions)
      BY <2>2
    <3> HIDE DEF c, k
    <3>2. \E v \in versions : v.claim = c /\ v.key = k
      BY <1>3, <3>1
    <3> QED BY <3>2 DEF c, k
  <2>5. i.claim # NoClaim => \E v \in versions : v.claim = i.claim /\ v.key = i.version
    BY <1>3, <2>3
  <2> QED BY <2>2, <2>3, <2>4, <2>5
<1> QED BY <1>4, <1>5, <1>6 DEF DerivedAreGrounded

\* Nothing that is derived outlives what it was derived from: after any runs, purges,
\* moves and deletions a durative claim has an open version, and for each source of
\* its evidence a claim that says the same; what a run decided names stored claims,
\* versions and evidence (DurativeClaimRepository.persist_in_transaction and
\* purge_unmatched, IngestionService.delete_source with the triggers of migration 0007).
THEOREM DerivedAlwaysGrounded == DurativeSpec => []DerivedAreGrounded
BY DInvAlways, DInvGrounded, PTL

-----------------------------------------------------------------------------
\* What the run of e finds and stores.

LEMMA RunFields ==
  ASSUME NEW e
  PROVE  Run(e).event = e.id /\ Run(e).at = e.at
         /\ Run(e).inferences = {Inference(p, e) : p \in Candidates(e.at)}
BY DEF Run

\* A run names the claims of the propositions that it accepts.
LEMMA RunDerives ==
  ASSUME DInv, NEW e
  PROVE  DerivedBy(Run(e)) = {Derivation(p, e.at).claim : p \in Accepted(e.at)}
<1> DEFINE c(p) == Derivation(p, e.at).claim
           P == Candidates(e.at)
           A == Accepted(e.at)
           f(p) == Inference(p, e)
<1>1. Run(e).inferences = {f(p) : p \in P}
  BY RunFields
<1>2. \A p \in A : c(p) # NoClaim
  <2>1. \A p \in A : c(p) \in ClaimIds
    BY AcceptedFacts
  <2> QED BY <2>1, LifecycleAssumption
<1>3. A = {p \in P : Accepts(p, e.at)}
  BY DEF Accepted
<1>4. \A p \in P : f(p).claim = IF p \in A THEN c(p) ELSE NoClaim
  BY <1>3 DEF Inference
<1>5. DerivedBy(Run(e)) = {f(p).claim : p \in P} \ {NoClaim}
  BY <1>1 DEF DerivedBy
<1> HIDE DEF c, P, A, f
<1>6. {f(p).claim : p \in P} \ {NoClaim} = {c(p) : p \in A}
  BY <1>2, <1>3, <1>4
<1> QED BY <1>5, <1>6 DEF c, A

\* What InferenceTellsTheTruth says of a new run r.
Due(at) == {Derivation(p, at).claim : p \in Accepted(at)}
Told(r) ==
  /\ {d.claim : d \in derived'} = Due(r.at) \cup Undecided
  /\ Claimed(runs') = Due(r.at)
  /\ \A p \in Accepted(r.at) :
       \E d \in derived' :
         /\ d.proposition = p /\ d.time = Time(Supports(p, r.at))
         /\ \E v \in versions' : v.claim = d.claim /\ v.to = Open /\ v.status = "candidate"
         /\ \A x \in Supports(p, r.at) : <<d.claim, x[2]>> \in evidence'

\* _ensure_claim goes on only from candidates, so that each accepted proposition has one.
LEMMA OpenCandidate ==
  ASSUME DInv, NEW e, MayInfer(e.at), NEW p \in Accepted(e.at)
  PROVE  \E v \in Inferred(e).versions :
           v.claim = Derivation(p, e.at).claim /\ v.to = Open /\ v.status = "candidate"
<1> DEFINE S == Inferred(e).versions
           c(q) == Derivation(q, e.at).claim
           closed == Succeeded(Changing(e.at), e.at)
<1>1. S = (versions \ closed) \cup {Closed(v, e.at) : v \in closed} \cup
          {NewVersion(q, e) : q \in Changing(e.at)}
  BY VersionsInferred
<1>2. CASE p \in Changing(e.at)
  <2>1. NewVersion(p, e) \in S
    BY <1>1, <1>2
  <2>2. NewVersion(p, e).claim = c(p) /\ NewVersion(p, e).to = Open /\ NewVersion(p, e).status = "candidate"
    BY DEF NewVersion
  <2> HIDE DEF S
  <2>3. \E v \in S : v.claim = c(p) /\ v.to = Open /\ v.status = "candidate"
    BY <2>1, <2>2
  <2> QED BY <2>3 DEF S
<1>3. CASE p \notin Changing(e.at)
  <2>1. PICK x \in Supports(p, e.at) : TRUE
    <3>1. Supports(p, e.at) # {}
      BY AcceptedFacts
    <3> QED BY <3>1
  <2>2. <<c(p), x[2]>> \in evidence
    <3>1. Spans(p, e.at) \subseteq evidence
      BY <1>3 DEF Changing, Gains
    <3> QED BY <3>1 DEF Spans
  <2>3. <<c(p), x[2]>>[1] \in Live(versions)
    BY <2>2 DEF DInv, Good, Housed
  <2>4. PICK v \in versions : v.to = Open /\ v.claim = c(p)
    BY <2>3 DEF Live
  <2>5. v.status = "candidate"
    <3>1. v \in Succeeded(Accepted(e.at), e.at)
      BY <2>4 DEF Succeeded
    <3> QED BY <3>1 DEF MayInfer
  <2>6. v \notin closed
    <3> SUFFICES ASSUME v \in closed PROVE FALSE
      OBVIOUS
    <3>1. PICK q \in Changing(e.at) : v.claim = c(q)
      BY DEF Succeeded
    <3>2. q \in Accepted(e.at) /\ Derivation(p, e.at).claim = Derivation(q, e.at).claim
      BY <2>4, <3>1 DEF Changing
    <3>3. p = q
      BY <3>2, OneDerivation
    <3> QED BY <1>3, <3>1, <3>3
  <2> HIDE DEF closed, S
  <2>7. v \in S
    BY <1>1, <2>4, <2>6
  <2>8. \E w \in S : w.claim = c(p) /\ w.to = Open /\ w.status = "candidate"
    BY <2>4, <2>5, <2>7
  <2> QED BY <2>8 DEF S
<1> QED BY <1>2, <1>3

\* A run adds the claims that it accepts, unless they are stored.
LEMMA NewClaimsNamed ==
  ASSUME NEW e
  PROVE  {d.claim : d \in Inferred(e).derived} = {d.claim : d \in derived} \cup Due(e.at)
<1> DEFINE new == {n \in {Derivation(p, e.at) : p \in Accepted(e.at)} :
                    \A d \in derived : d.claim # n.claim}
<1>1. Inferred(e).derived = derived \cup new
  BY InferredFields DEF NewClaims
<1>2. \A n \in new : n.claim \in Due(e.at)
  BY DEF Due
<1>3. \A c \in Due(e.at) : \E d \in derived \cup new : d.claim = c
  <2> SUFFICES ASSUME NEW p \in Accepted(e.at)
               PROVE  \E d \in derived \cup new : d.claim = Derivation(p, e.at).claim
    BY DEF Due
  <2>1. CASE \A d \in derived : d.claim # Derivation(p, e.at).claim
    <3>1. Derivation(p, e.at) \in new
      BY <2>1
    <3> HIDE DEF new
    <3> QED BY <3>1
  <2>2. CASE \E d \in derived : d.claim = Derivation(p, e.at).claim
    BY <2>2
  <2> QED BY <2>1, <2>2
<1> HIDE DEF new
<1> QED BY <1>1, <1>2, <1>3

LEMMA RunTells ==
  ASSUME DInv, NEW e, MayInfer(e.at), PurgeBut(Inferred(e), DerivedBy(Run(e))),
         NEW r, r = Run(e)
  PROVE  Told(r)
<1> DEFINE db == Inferred(e)
           active == DerivedBy(Run(e))
           gone == Claimed(db.runs) \ active
           left == Purged(db, gone)
           c(p) == Derivation(p, e.at).claim
<1>1. /\ derived' = left.derived /\ runs' = left.runs
      /\ versions' = left.versions /\ evidence' = left.evidence
  BY DEF PurgeBut
<1>2. r.at = e.at /\ db.runs = runs \cup {Run(e)}
  BY RunFields, InferredFields
<1>3. active = {c(p) : p \in Accepted(e.at)}
  BY RunDerives
<1>4. \A p \in Accepted(e.at) : c(p) \notin gone
  BY <1>3
<1>5. /\ Run(e) \in db.runs /\ DerivedBy(Run(e)) \cap gone = {}
      /\ \A q \in db.runs : DerivedBy(q) \cap gone = {} => DerivedBy(q) \subseteq active
  <2>1. \A q \in db.runs : DerivedBy(q) \subseteq Claimed(db.runs)
    BY DEF Claimed
  <2> HIDE DEF db
  <2> QED BY <1>2, <2>1
<1>6. /\ \A p \in Accepted(e.at) : \E d \in db.derived :
           d.claim = c(p) /\ d.proposition = p /\ d.time = Time(Supports(p, e.at))
      /\ \A p \in Accepted(e.at) : Spans(p, e.at) \subseteq db.evidence
  BY InferredClaims
<1>7. \A p \in Accepted(e.at) : \E v \in db.versions : v.claim = c(p) /\ v.to = Open /\ v.status = "candidate"
  BY OpenCandidate
<1>8. \A p \in Accepted(e.at) : \A x \in Supports(p, e.at) : <<c(p), x[2]>> \in Spans(p, e.at)
  BY DEF Spans
<1> HIDE DEF gone
<1>9. /\ left.derived = {d \in db.derived : d.claim \notin gone}
      /\ left.runs = {q \in db.runs : DerivedBy(q) \cap gone = {}}
      /\ left.versions = Outside(db.versions, gone)
      /\ left.evidence = {x \in db.evidence : x[1] \notin gone}
  BY PurgedFields
<1> HIDE DEF left, db, active, c
<1>10. Claimed(runs') = active
  <2>1. Run(e) \in runs'
    BY <1>1, <1>5, <1>9
  <2>2. \A q \in runs' : DerivedBy(q) \subseteq active
    BY <1>1, <1>5, <1>9
  <2> QED BY <2>1, <2>2 DEF Claimed, active
<1>11. ASSUME NEW p \in Accepted(e.at)
       PROVE  \E d \in derived' :
                /\ d.proposition = p /\ d.time = Time(Supports(p, e.at))
                /\ \E v \in versions' : v.claim = d.claim /\ v.to = Open /\ v.status = "candidate"
                /\ \A x \in Supports(p, e.at) : <<d.claim, x[2]>> \in evidence'
  <2>1. PICK d \in db.derived : d.claim = c(p) /\ d.proposition = p /\ d.time = Time(Supports(p, e.at))
    BY <1>6
  <2>2. d \in derived'
    BY <1>1, <1>4, <1>9, <2>1
  <2>3. PICK v \in db.versions : v.claim = c(p) /\ v.to = Open /\ v.status = "candidate"
    BY <1>7
  <2>4. v \in versions'
    BY <1>1, <1>4, <1>9, <2>3 DEF Outside
  <2>5. ASSUME NEW x \in Supports(p, e.at) PROVE <<c(p), x[2]>> \in evidence'
    <3>1. <<c(p), x[2]>> \in db.evidence /\ <<c(p), x[2]>>[1] = c(p)
      BY <1>6, <1>8
    <3> QED BY <1>1, <1>4, <1>9, <3>1
  <2> QED BY <2>1, <2>2, <2>3, <2>4, <2>5
<1>12. active = Due(e.at)
  BY <1>3 DEF c, Due
<1>13. {d.claim : d \in derived'} = Due(e.at) \cup Undecided
  <2>1. {d.claim : d \in db.derived} = {d.claim : d \in derived} \cup active
    BY <1>12, NewClaimsNamed DEF db
  <2>2. gone = Claimed(runs) \ active
    <3>1. Claimed(db.runs) = Claimed(runs) \cup active
      BY <1>2 DEF Claimed, active
    <3> QED BY <3>1 DEF gone
  <2>3. derived' = {d \in db.derived : d.claim \notin gone}
    BY <1>1, <1>9
  <2>4. {d.claim : d \in derived'} = {d.claim : d \in db.derived} \ gone
    BY <2>3
  <2> QED BY <1>12, <2>1, <2>2, <2>4 DEF Undecided
<1> QED BY <1>2, <1>10, <1>11, <1>12, <1>13 DEF Told

\* Runs whose event no stored run has come from Process alone.
LEMMA RunsStep ==
  ASSUME DInv, [DurativeNext]_durativeVars, NEW r \in runs', \A o \in runs : o.event # r.event
  PROVE  Told(r)
<1>1. ASSUME runs' \subseteq runs PROVE FALSE
  BY <1>1
<1>2. CASE Decide /\ UNCHANGED <<deletedAt, derived, runs, inferred>>
  BY <1>1, <1>2
<1>3. CASE UNCHANGED durativeVars
  BY <1>1, <1>3 DEF durativeVars
<1>4. ASSUME NEW s \in Sources, NEW t \in IngestedAt[s] .. MaxTime, Erase(s, t) PROVE FALSE
  <2>1. PICK q \in runs : r = Rested(q, s)
    BY <1>4 DEF Erase, Rested, Reduced
  <2>2. q = [event |-> q.event, at |-> q.at, input |-> q.input, inferences |-> q.inferences]
    BY DEF DInv, Good, Justified
  <2>3. r.event = q.event
    BY <2>1, <2>2, RestedFields
  <2> QED BY <2>3
<1>5. ASSUME NEW e \in Changes, MayInfer(e.at), PurgeBut(Inferred(e), DerivedBy(Run(e)))
      PROVE  Told(r)
  <2>1. r \in runs \cup {Run(e)}
    <3> DEFINE db == Inferred(e)
               gone == Claimed(db.runs) \ DerivedBy(Run(e))
               left == Purged(db, gone)
    <3>1. runs' = left.runs
      BY <1>5 DEF PurgeBut
    <3>2. db.runs = runs \cup {Run(e)}
      BY InferredFields
    <3> HIDE DEF db, gone
    <3>3. left.runs \subseteq db.runs
      BY PurgedFields
    <3> QED BY <3>1, <3>2, <3>3
  <2>2. r = Run(e)
    BY <2>1
  <2> QED BY <1>5, <2>2, RunTells
<1>6. ASSUME NEW q \in runs, PurgeBut(durativeTables, DerivedBy(q)) PROVE runs' \subseteq runs
  <2> DEFINE db == durativeTables
             gone == Claimed(db.runs) \ DerivedBy(q)
             left == Purged(db, gone)
  <2>1. runs' = left.runs
    BY <1>6 DEF PurgeBut
  <2>2. db.runs = runs
    BY DEF durativeTables
  <2> HIDE DEF db, gone
  <2>3. left.runs \subseteq db.runs
    BY PurgedFields
  <2> QED BY <2>1, <2>2, <2>3
<1>7. CASE \E e \in Changes : Process(e)
  BY <1>1, <1>5, <1>6, <1>7 DEF Process
<1> QED BY <1>2, <1>3, <1>4, <1>7 DEF DurativeNext

\* Only a deletion leaves a claim without a decision.
LEMMA RunsLeaveNothingUndecided ==
  ASSUME DInv, [DurativeNext]_durativeVars, forgotten' = forgotten
  PROVE  Undecided' \subseteq Undecided
<1>1. CASE Decide /\ UNCHANGED <<deletedAt, derived, runs, inferred>>
  BY <1>1 DEF Undecided, Claimed, DerivedBy
<1>2. CASE UNCHANGED durativeVars
  BY <1>2 DEF durativeVars, Undecided, Claimed, DerivedBy
<1>3. ASSUME NEW s \in Sources, NEW t \in IngestedAt[s] .. MaxTime, Erase(s, t) PROVE FALSE
  BY <1>3 DEF Erase, DeleteSourceWith
<1>4. ASSUME NEW e \in Changes, MayInfer(e.at), PurgeBut(Inferred(e), DerivedBy(Run(e)))
      PROVE  Undecided' \subseteq Undecided
  <2>1. Told(Run(e))
    BY <1>4, RunTells
  <2>2. Undecided' = {d.claim : d \in derived'} \ Claimed(runs')
    BY DEF Undecided, Claimed, DerivedBy
  <2> QED BY <2>1, <2>2 DEF Told
<1>5. ASSUME NEW q \in runs, PurgeBut(durativeTables, DerivedBy(q))
      PROVE  Undecided' \subseteq Undecided
  <2> DEFINE db == durativeTables
             gone == Claimed(db.runs) \ DerivedBy(q)
             left == Purged(db, gone)
  <2>1. derived' = left.derived /\ runs' = left.runs
    BY <1>5 DEF PurgeBut
  <2>2. db.derived = derived /\ db.runs = runs
    BY DEF durativeTables
  <2>3. gone = Claimed(runs) \ DerivedBy(q)
    BY <2>2
  <2> HIDE DEF db, gone
  <2>4. /\ left.derived = {d \in db.derived : d.claim \notin gone}
        /\ left.runs = {r \in db.runs : DerivedBy(r) \cap gone = {}}
    BY PurgedFields
  <2>5. q \in runs'
    BY <2>1, <2>2, <2>3, <2>4
  <2>6. DerivedBy(q) \subseteq Claimed(runs')
    BY <2>5 DEF Claimed
  <2>7. Undecided' = {d.claim : d \in derived'} \ Claimed(runs')
    BY DEF Undecided, Claimed, DerivedBy
  <2> HIDE DEF left
  <2>8. ASSUME NEW d \in derived', d.claim \notin Claimed(runs') PROVE d.claim \in Undecided
    <3>1. d \in derived /\ d.claim \notin gone
      BY <2>1, <2>2, <2>4
    <3>2. d.claim \notin Claimed(runs)
      BY <2>3, <2>6, <2>8, <3>1
    <3> QED BY <3>1, <3>2 DEF Undecided
  <2> QED BY <2>7, <2>8
<1>6. CASE \E e \in Changes : Process(e)
  BY <1>4, <1>5, <1>6 DEF Process
<1> QED BY <1>1, <1>2, <1>3, <1>6 DEF DurativeNext

\* After the newest run the derived claims are those that the episodes of its instant
\* justify, each with its time, an open candidate version and all its support, and those
\* that deletions have left undecided before; it has decided the former and nothing else.
\* No run, new or repeated, leaves a claim undecided (DurativeClaimCoordinator.process).
THEOREM InferenceAlwaysTrue == DurativeSpec => InferenceTellsTheTruth
<1>1. DInv /\ [DurativeNext]_durativeVars =>
        [/\ \A r \in {n \in runs' : \A o \in runs : o.event # n.event /\ o.at < n.at} : Told(r)
         /\ forgotten' = forgotten => Undecided' \subseteq Undecided]_durativeVars
  BY RunsStep, RunsLeaveNothingUndecided
<1>2. [/\ \A r \in {n \in runs' : \A o \in runs : o.event # n.event /\ o.at < n.at} : Told(r)
       /\ forgotten' = forgotten => Undecided' \subseteq Undecided]_durativeVars =>
        [/\ \A r \in {n \in runs' : \A o \in runs : o.event # n.event /\ o.at < n.at} :
               LET due == {Derivation(p, r.at).claim : p \in Accepted(r.at)}
               IN /\ {d.claim : d \in derived'} = due \cup Undecided
                  /\ Claimed(runs') = due
                  /\ \A p \in Accepted(r.at) :
                       \E d \in derived' :
                         /\ d.proposition = p /\ d.time = Time(Supports(p, r.at))
                         /\ \E v \in versions' : v.claim = d.claim /\ v.to = Open /\ v.status = "candidate"
                         /\ \A x \in Supports(p, r.at) : <<d.claim, x[2]>> \in evidence'
         /\ forgotten' = forgotten => Undecided' \subseteq Undecided]_durativeVars
  BY DEF Told, Due
<1> QED BY <1>1, <1>2, DInvAlways, PTL DEF DurativeSpec, InferenceTellsTheTruth
=============================================================================
