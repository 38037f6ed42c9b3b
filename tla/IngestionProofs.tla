--------------------------- MODULE IngestionProofs ---------------------------
(* Theorems about Ingestion, for every set of requests, workers, extractors  *)
(* and writes, and every number of attempts; the last ones show that it      *)
(* implements SourceLedger under the mapping of IngestionLedger.             *)
EXTENDS IngestionLedger, TLAPS

USE IngestionAssumption

LEMMA NumbersAreNat == Numbers \subseteq Nat /\ 1 \in Numbers /\ Times \subseteq Nat /\ 0 \in Times
  BY DEF Numbers, Times

LEMMA RowsAreTyped ==
  /\ NoRow \in Row
  /\ \A t \in Times : PendingAttempt(t) \in Row
  /\ \A r \in Row, code \in ErrorCodes, b \in BOOLEAN : Failed(r, code, b) \in Row
  /\ \A r \in Row : Succeeded(r) \in Row
  /\ \A r \in Row, w \in Workers, t \in Times : Leased(r, w, t) \in Row
  BY NumbersAreNat DEF Row, NoRow, PendingAttempt, Failed, Succeeded, Leased

\* The columns that decide what a row is, after each way to write one.
LEMMA RowFields ==
  /\ NoRow.state = "none"
  /\ \A t : PendingAttempt(t).state = "pending"
  /\ \A r \in Row : \A code : Failed(r, code, TRUE).retryable
  /\ \A r \in Row : \A code, b : Failed(r, code, b).state = "failed"
  /\ \A r \in Row : Succeeded(r).state = "succeeded"
  /\ \A r \in Row : \A w, t : Leased(r, w, t).state = "running"
  BY DEF Row, NoRow, PendingAttempt, Failed, Succeeded, Leased

\* The table after recovery is a table of rows.
LEMMA RecoveredIsTyped ==
  ASSUME TypeOK, NEW t \in Times, NEW locked
  PROVE  Recovered(t, locked) \in [Jobs -> [Numbers -> Row]]
<1>1. LeaseExpired \in ErrorCodes
  OBVIOUS
<1>2. ASSUME NEW j \in Jobs, NEW n \in Numbers
      PROVE  attempts[j][n] \in Row
  BY DEF TypeOK
<1> QED BY <1>1, <1>2, RowsAreTyped DEF Recovered

\* The tables hold rows of the declared shapes, whatever the callers pass
\* (the columns' types and the CHECKs that forbid NULLs).
THEOREM TypeCorrect == Spec => []TypeOK
<1>1. Init => TypeOK
  <2> SUFFICES ASSUME Init PROVE TypeOK
    OBVIOUS
  <2>1. attempts \in [Jobs -> [Numbers -> Row]]
    BY RowsAreTyped DEF Init
  <2> QED BY <2>1 DEF Init, TypeOK
<1>2. TypeOK /\ [Next]_vars => TypeOK'
  <2> SUFFICES ASSUME TypeOK, [Next]_vars PROVE TypeOK'
    OBVIOUS
  <2> USE NumbersAreNat, RowsAreTyped
  <2>0. \A j \in Jobs : \A n \in Numbers : attempts[j][n] \in Row
    BY DEF TypeOK
  <2>1. ASSUME NEW r \in Requests, NEW x \in Extractors, Ingest(r, x)
        PROVE  TypeOK'
    <3>1. r.id \in SourceIds /\ r.at \in Times
      OBVIOUS
    <3>2. <<r.id, x>> \in Jobs
      BY <3>1 DEF Jobs
    <3>3. attempts' \in [Jobs -> [Numbers -> Row]]
      BY <2>1, <3>1, <3>2 DEF Ingest, TypeOK
    <3>4. outbox' \subseteq OutboxKeys
      BY <2>1, <3>1 DEF Ingest, TypeOK, OutboxKeys
    <3> QED BY <2>1, <3>3, <3>4 DEF Ingest, TypeOK
  <2>2. ASSUME NEW j \in Jobs, NEW t \in Times, EnqueueReprocessing(j, t)
        PROVE  TypeOK'
    <3>1. PICK n \in Numbers :
               attempts' = [attempts EXCEPT ![j][n] = PendingAttempt(t)]
      BY <2>2 DEF EnqueueReprocessing
    <3>2. attempts' \in [Jobs -> [Numbers -> Row]]
      BY <3>1 DEF TypeOK
    <3> QED BY <2>2, <3>2 DEF EnqueueReprocessing, TypeOK
  <2>3. ASSUME NEW t \in Times, NEW locked \in SUBSET OpenRows,
               RecoverExpiredLeases(t, locked)
        PROVE  TypeOK'
    BY <2>3, RecoveredIsTyped DEF RecoverExpiredLeases, TypeOK
  <2>4. ASSUME NEW w \in Workers, NEW t \in Times, NEW locked \in SUBSET OpenRows,
               NEW d \in 1 .. (MaxTime - t), LeaseNext(w, t, d, locked)
        PROVE  TypeOK'
    <3> DEFINE after == Recovered(t, locked)
    <3>1. after \in [Jobs -> [Numbers -> Row]]
      BY RecoveredIsTyped
    <3>2. t + d \in Times
      BY DEF Times
    <3> HIDE DEF after
    <3>3. CASE attempts' = after
      BY <2>4, <3>1, <3>3 DEF LeaseNext, Due, TypeOK
    <3>4. CASE \E r \in Jobs \X Numbers :
                 attempts' = [after EXCEPT ![r[1]][r[2]] = Leased(@, w, t + d)]
      <4>1. PICK j \in Jobs, n \in Numbers :
                 attempts' = [after EXCEPT ![j][n] = Leased(@, w, t + d)]
        BY <3>4
      <4>2. Leased(after[j][n], w, t + d) \in Row
        BY <3>1, <3>2, RowsAreTyped
      <4>3. attempts' \in [Jobs -> [Numbers -> Row]]
        BY <3>1, <4>1, <4>2
      <4> QED BY <2>4, <4>3 DEF LeaseNext, Due, TypeOK
    <3> QED BY <2>4, <3>3, <3>4 DEF LeaseNext, Due, after
  <2>5. ASSUME NEW w \in Workers, NEW j \in Jobs, NEW n \in Numbers, NEW t \in Times,
               NEW code \in ErrorCodes, NEW asked \in BOOLEAN,
               FailAttempt(w, j, n, code, asked, t)
        PROVE  TypeOK'
    <3>1. attempts' \in [Jobs -> [Numbers -> Row]]
      BY <2>0, <2>5 DEF FailAttempt, TypeOK
    <3> QED BY <2>5, <3>1 DEF FailAttempt, TypeOK
  <2>6. ASSUME NEW w \in Workers, NEW j \in Jobs, NEW n \in Numbers, NEW t \in Times,
               NEW ws \in SUBSET ClaimWrites, CompleteAttempt(w, j, n, t, ws)
        PROVE  TypeOK'
    <3>1. attempts' \in [Jobs -> [Numbers -> Row]]
      BY <2>0, <2>6 DEF CompleteAttempt, MayComplete, TypeOK
    <3>2. claims' \in [ClaimIds -> Contents \cup {NoContent}]
      <4>1. ASSUME NEW c \in ClaimIds, \E v \in ws : v.claim = c
            PROVE  (CHOOSE v \in ws : v.claim = c).content \in Contents
        BY <4>1
      <4> QED BY <2>6, <4>1 DEF CompleteAttempt, MayComplete, TypeOK
    <3>3. \A v \in ws : v.claim \in ClaimIds /\ v.span \in Spans
      OBVIOUS
    <3>4. outbox' \subseteq OutboxKeys
      BY <2>6 DEF CompleteAttempt, MayComplete, TypeOK, OutboxKeys
    <3>5. evidence' \subseteq ClaimIds \X Spans
      BY <2>6, <3>3 DEF CompleteAttempt, MayComplete, TypeOK
    <3>6. extractions' \subseteq ClaimIds \X Jobs \X Numbers
      BY <2>6, <3>3 DEF CompleteAttempt, MayComplete, TypeOK
    <3> QED BY <2>6, <3>1, <3>2, <3>4, <3>5, <3>6 DEF CompleteAttempt, MayComplete, TypeOK
  <2>7. ASSUME NEW s \in SourceIds, DeleteSource(s)
        PROVE  TypeOK'
    <3>1. PICK e \in events : DeleteSource(s)!(e)
      BY <2>7 DEF DeleteSource
    <3>2. attempts' \in [Jobs -> [Numbers -> Row]]
      BY <3>1 DEF TypeOK
    <3>3. Affected(s) \subseteq ClaimIds
      BY DEF Affected, EvidenceOf, TypeOK
    <3>4. outbox' \subseteq OutboxKeys
      BY <3>1, <3>3 DEF TypeOK, OutboxKeys, DeletionKeys
    <3>5. tombstones' \subseteq [id: SourceIds, key: Keys]
      BY <3>1 DEF TypeOK
    <3>6. /\ events' \subseteq Requests
          /\ claims' \in [ClaimIds -> Contents \cup {NoContent}]
          /\ evidence' \subseteq ClaimIds \X Spans
          /\ extractions' \subseteq ClaimIds \X Jobs \X Numbers
      BY <3>1 DEF TypeOK
    <3> QED BY <3>2, <3>4, <3>5, <3>6 DEF TypeOK
  <2>8. CASE UNCHANGED vars
    BY <2>8 DEF vars, TypeOK
  <2> QED BY <2>1, <2>2, <2>3, <2>4, <2>5, <2>6, <2>7, <2>8 DEF Next
<1> QED BY <1>1, <1>2, PTL DEF Spec

-----------------------------------------------------------------------------
\* A row that recovery takes is the newest of its job.
LEMMA ExpiredIsNewest ==
  ASSUME TypeOK, ChainShape, NEW t \in Times, NEW locked,
         NEW j \in Jobs, NEW n \in Numbers, <<j, n>> \in Expired(t, locked)
  PROVE  /\ Running(j, n)
         /\ \A m \in Numbers : n < m => ~Exists(j, m)
  BY DEF Expired, Running, ChainShape

\* What ChainShape says of a table, so that it can be said of the table that
\* recovery leaves, too.
Chained(table) ==
  \A j \in Jobs : \A m, n \in Numbers :
    n < m /\ table[j][m].state # "none" =>
      table[j][n].state = "failed" /\ table[j][n].retryable

LEMMA ChainShapeIsChained == ChainShape <=> Chained(attempts)
  BY DEF ChainShape, Chained, Exists

LEMMA RecoveryKeepsChain ==
  ASSUME TypeOK, ChainShape, NEW t \in Times, NEW locked
  PROVE  Chained(Recovered(t, locked))
<1> DEFINE after == Recovered(t, locked)
<1> SUFFICES ASSUME NEW j \in Jobs, NEW m \in Numbers, NEW n \in Numbers,
                    n < m, after[j][m].state # "none"
             PROVE  after[j][n].state = "failed" /\ after[j][n].retryable
  BY DEF Chained
<1>0. /\ n \in Nat /\ m \in Nat /\ m - 1 \in Numbers
      /\ attempts[j][n] \in Row /\ attempts[j][m] \in Row
  BY DEF Numbers, TypeOK
<1> DEFINE X == Expired(t, locked)
<1>a. \A k \in Numbers :
        /\ <<j, k>> \in X => after[j][k] = Failed(attempts[j][k], LeaseExpired, TRUE)
        /\ <<j, k>> \notin X /\ <<j, k - 1>> \in X => after[j][k] = PendingAttempt(t)
        /\ <<j, k>> \notin X /\ <<j, k - 1>> \notin X => after[j][k] = attempts[j][k]
  BY DEF Recovered
<1>b. \A k \in Numbers : <<j, k>> \in X =>
        Running(j, k) /\ \A i \in Numbers : k < i => ~Exists(j, i)
  BY ExpiredIsNewest
<1>c. \A k : <<j, k>> \in X => k \in Numbers
  BY DEF Expired
<1> HIDE DEF after, X
<1>1. CASE <<j, n>> \in X
  <2>1. attempts[j][n] \in Row /\ after[j][n] = Failed(attempts[j][n], LeaseExpired, TRUE)
    BY <1>0, <1>1, <1>a
  <2> HIDE IngestionAssumption
  <2> QED BY <2>1, RowFields
<1>2. CASE <<j, n>> \notin X
  <2>1. n < m - 1 \/ n = m - 1
    BY <1>0
  <2>2. CASE <<j, m>> \in X
    <3>1. Exists(j, m)
      BY <2>2, <1>b DEF Running, Exists
    <3>2. attempts[j][n].state = "failed" /\ attempts[j][n].retryable
      BY <3>1 DEF ChainShape
    <3>3. <<j, n - 1>> \notin X
      BY <1>0, <1>b, <1>c, <3>1 DEF Numbers
    <3> QED BY <1>2, <1>a, <3>2, <3>3
  <2>3. CASE <<j, m>> \notin X /\ <<j, m - 1>> \in X
    <3>1. n < m - 1 /\ Exists(j, m - 1)
      BY <1>2, <1>b, <2>1, <2>3, <1>0 DEF Running, Exists
    <3>2. attempts[j][n].state = "failed" /\ attempts[j][n].retryable
      BY <1>0, <3>1 DEF ChainShape
    <3>3. <<j, n - 1>> \notin X
      BY <1>0, <1>b, <1>c, <3>1 DEF Numbers
    <3> QED BY <1>2, <1>a, <3>2, <3>3
  <2>4. CASE <<j, m>> \notin X /\ <<j, m - 1>> \notin X
    <3>1. Exists(j, m)
      BY <2>4, <1>a DEF Exists
    <3>2. attempts[j][n].state = "failed" /\ attempts[j][n].retryable
      BY <3>1 DEF ChainShape
    <3>3. <<j, n - 1>> \notin X
      BY <1>0, <1>b, <1>c, <3>1 DEF Numbers
    <3> QED BY <1>2, <1>a, <3>2, <3>3
  <2> QED BY <2>2, <2>3, <2>4
<1> QED BY <1>1, <1>2

\* The step of the chain invariant, one action at a time.
LEMMA ChainStep == TypeOK /\ ChainShape /\ [Next]_vars => ChainShape'
<1> SUFFICES ASSUME TypeOK, ChainShape, [Next]_vars PROVE Chained(attempts')
  BY DEF ChainShape, Chained, Exists
<1> USE NumbersAreNat
<1>0. \A j \in Jobs : \A n \in Numbers : attempts[j][n] \in Row /\ n \in Nat
  BY DEF TypeOK
<1>1. ASSUME NEW r \in Requests, NEW x \in Extractors, Ingest(r, x)
      PROVE  Chained(attempts')
  <2>1. <<r.id, x>> \in Jobs
    BY DEF Jobs
  <2>2. \A m \in Numbers : ~Exists(<<r.id, x>>, m)
    BY <1>1, <2>1 DEF Ingest, ChainShape, Exists, Numbers
  <2> QED BY <1>1, <2>1, <2>2 DEF Ingest, Chained, ChainShape, Exists, TypeOK, Numbers
<1>2. ASSUME NEW j \in Jobs, NEW t \in Times, EnqueueReprocessing(j, t)
      PROVE  Chained(attempts')
  <2>1. PICK n \in Numbers :
          /\ \/ n = 1 /\ \A m \in Numbers : ~Exists(j, m)
             \/ n > 1 /\ Newest(j, n - 1) /\ MayRetry(attempts[j][n - 1])
          /\ attempts' = [attempts EXCEPT ![j][n] = PendingAttempt(t)]
    BY <1>2 DEF EnqueueReprocessing
  <2>2. \A m \in Numbers : n <= m => ~Exists(j, m)
    BY <2>1 DEF Newest, Numbers
  <2>3. \A m \in Numbers : m < n =>
          attempts[j][m].state = "failed" /\ attempts[j][m].retryable
    <3> SUFFICES ASSUME NEW m \in Numbers, m < n
                 PROVE  attempts[j][m].state = "failed" /\ attempts[j][m].retryable
      OBVIOUS
    <3>1. m = n - 1 \/ m < n - 1
      BY DEF Numbers
    <3>2. n > 1 /\ Exists(j, n - 1) /\ n - 1 \in Numbers
      BY <2>1 DEF Newest, Numbers
    <3> QED BY <2>1, <3>1, <3>2 DEF ChainShape, MayRetry
  <2> QED BY <2>1, <2>2, <2>3 DEF Chained, ChainShape, Exists, TypeOK
<1>3. ASSUME NEW t \in Times, NEW locked \in SUBSET OpenRows,
             RecoverExpiredLeases(t, locked)
      PROVE  Chained(attempts')
  BY <1>3, RecoveryKeepsChain DEF RecoverExpiredLeases
<1>4. ASSUME NEW w \in Workers, NEW t \in Times, NEW locked \in SUBSET OpenRows,
             NEW d \in 1 .. (MaxTime - t), LeaseNext(w, t, d, locked)
      PROVE  Chained(attempts')
  <2> DEFINE after == Recovered(t, locked)
  <2>1. Chained(after) /\ after \in [Jobs -> [Numbers -> Row]]
    BY RecoveryKeepsChain, RecoveredIsTyped
  <2> HIDE DEF after
  <2>2. CASE attempts' = after
    BY <2>1, <2>2
  <2>3. ASSUME NEW j \in Jobs, NEW n \in Numbers, after[j][n].state = "pending",
               attempts' = [after EXCEPT ![j][n] = Leased(@, w, t + d)]
        PROVE  Chained(attempts')
    <3>1. after[j][n] \in Row
      BY <2>1
    <3>2. attempts'[j][n].state = "running"
      BY <2>1, <2>3, <3>1 DEF Leased, Row
    <3>3. \A m \in Numbers : n < m => after[j][m].state = "none"
      BY <2>1, <2>3 DEF Chained
    <3>4. \A k \in Jobs : \A m \in Numbers :
            k # j \/ m # n => attempts'[k][m] = after[k][m]
      BY <2>1, <2>3
    <3> QED BY <2>1, <2>3, <3>2, <3>3, <3>4 DEF Chained
  <2> QED BY <1>4, <2>2, <2>3 DEF LeaseNext, Due, after
<1>5. ASSUME NEW w \in Workers, NEW j \in Jobs, NEW n \in Numbers, NEW t \in Times,
             NEW code \in ErrorCodes, NEW asked \in BOOLEAN,
             FailAttempt(w, j, n, code, asked, t)
      PROVE  Chained(attempts')
  <2>1. \A m \in Numbers : n < m => ~Exists(j, m)
    BY <1>5 DEF FailAttempt, Running, ChainShape
  <2>2. Exists(j, n)
    BY <1>5 DEF FailAttempt, Running, Exists
  <2> QED BY <1>0, <1>5, <2>1, <2>2 DEF FailAttempt, Chained, ChainShape, Exists, TypeOK
<1>6. ASSUME NEW w \in Workers, NEW j \in Jobs, NEW n \in Numbers, NEW t \in Times,
             NEW ws \in SUBSET ClaimWrites, CompleteAttempt(w, j, n, t, ws)
      PROVE  Chained(attempts')
  <2>0. Running(j, n) /\ attempts' = [attempts EXCEPT ![j][n] = Succeeded(@)]
    BY <1>6 DEF CompleteAttempt, MayComplete
  <2>1. \A m \in Numbers : n < m => ~Exists(j, m)
    BY <2>0 DEF Running, ChainShape
  <2>2. Exists(j, n)
    BY <2>0 DEF Running, Exists
  <2> QED BY <1>0, <2>0, <2>1, <2>2 DEF Chained, ChainShape, Exists, TypeOK
<1>7. ASSUME NEW s \in SourceIds, DeleteSource(s)
      PROVE  Chained(attempts')
  BY <1>7 DEF DeleteSource, Chained, ChainShape, Exists, TypeOK, NoRow
<1>8. CASE UNCHANGED vars
  BY <1>8, ChainShapeIsChained DEF vars
<1> QED BY <1>1, <1>2, <1>3, <1>4, <1>5, <1>6, <1>7, <1>8 DEF Next

\* At every moment a job's history is a gapless chain whose attempts, except
\* for the newest, failed retryably: no two attempts of a job are open, and
\* none follows a success or a final failure.
THEOREM ChainAlways == Spec => []ChainShape
<1>1. Init => ChainShape
  BY DEF Init, ChainShape, Exists, NoRow
<1>2. TypeOK /\ ChainShape /\ [Next]_vars => ChainShape'
  BY ChainStep
<1> QED BY <1>1, <1>2, TypeCorrect, PTL DEF Spec

-----------------------------------------------------------------------------
\* Recovery and leasing open no job that had no attempt.
LEMMA RecoveryStaysInJobs ==
  ASSUME TypeOK, NEW t \in Times, NEW locked, NEW j \in Jobs, NEW n \in Numbers,
         Recovered(t, locked)[j][n].state # "none"
  PROVE  \E m \in Numbers : Exists(j, m)
<1>1. CASE \E k : <<j, k>> \in Expired(t, locked)
  BY <1>1 DEF Expired, Running, Exists
<1>2. CASE ~\E k : <<j, k>> \in Expired(t, locked)
  BY <1>2 DEF Recovered, Exists
<1> QED BY <1>1, <1>2

LEMMA ForgottenStep == TypeOK /\ DeletedIsForgotten /\ [Next]_vars => DeletedIsForgotten'
<1> SUFFICES ASSUME TypeOK, DeletedIsForgotten, [Next]_vars PROVE DeletedIsForgotten'
  OBVIOUS
<1> USE NumbersAreNat
<1>0. ASSUME UNCHANGED <<events, tombstones, evidence, extractions>>,
             \A j \in Jobs : \A n \in Numbers :
               attempts'[j][n].state # "none" => \E m \in Numbers : Exists(j, m)
      PROVE  DeletedIsForgotten'
  BY <1>0 DEF DeletedIsForgotten, Live, Exists
<1>1. ASSUME NEW r \in Requests, NEW x \in Extractors, Ingest(r, x)
      PROVE  DeletedIsForgotten'
  <2>1. \A s : Live(s) => Live(s)'
    BY <1>1 DEF Ingest, Live
  <2>2. Live(r.id)'
    BY <1>1 DEF Ingest, Live
  <2>3. \A j \in Jobs : \A n \in Numbers : Exists(j, n)' => Live(j[1])'
    <3> SUFFICES ASSUME NEW j \in Jobs, NEW n \in Numbers, Exists(j, n)'
                 PROVE  Live(j[1])'
      OBVIOUS
    <3>1. CASE j = <<r.id, x>>
      BY <2>2, <3>1
    <3>2. CASE j # <<r.id, x>>
      <4>1. attempts'[j] = attempts[j]
        BY <1>1, <3>2 DEF Ingest, TypeOK
      <4> QED BY <2>1, <4>1 DEF DeletedIsForgotten, Exists
    <3> QED BY <3>1, <3>2
  <2>4. /\ \A b \in tombstones' : \A e \in events' : e.id # b.id /\ e.key # b.key
        /\ \A e, f \in events' : e.id = f.id \/ e.key = f.key => e = f
    BY <1>1 DEF Ingest, Tombstoned, DeletedIsForgotten
  <2>5. evidence' = evidence /\ extractions' = extractions
    BY <1>1 DEF Ingest
  <2> QED BY <2>1, <2>3, <2>4, <2>5 DEF DeletedIsForgotten
<1>2. ASSUME NEW j \in Jobs, NEW t \in Times, EnqueueReprocessing(j, t)
      PROVE  DeletedIsForgotten'
  <2>1. Live(j[1]) /\ UNCHANGED <<events, tombstones, evidence, extractions>>
    BY <1>2 DEF EnqueueReprocessing
  <2>2. \A k \in Jobs : k # j => attempts'[k] = attempts[k]
    BY <1>2 DEF EnqueueReprocessing, TypeOK
  <2> QED BY <2>1, <2>2 DEF DeletedIsForgotten, Live, Exists
<1>3. ASSUME NEW t \in Times, NEW locked \in SUBSET OpenRows,
             RecoverExpiredLeases(t, locked)
      PROVE  DeletedIsForgotten'
  BY <1>0, <1>3, RecoveryStaysInJobs DEF RecoverExpiredLeases
<1>4. ASSUME NEW w \in Workers, NEW t \in Times, NEW locked \in SUBSET OpenRows,
             NEW d \in 1 .. (MaxTime - t), LeaseNext(w, t, d, locked)
      PROVE  DeletedIsForgotten'
  <2> DEFINE after == Recovered(t, locked)
  <2>1. /\ after \in [Jobs -> [Numbers -> Row]]
        /\ \A j \in Jobs : \A n \in Numbers :
             after[j][n].state # "none" => \E m \in Numbers : Exists(j, m)
    BY RecoveryStaysInJobs, RecoveredIsTyped
  <2> HIDE DEF after
  <2>2. ASSUME NEW k \in Jobs, NEW i \in Numbers, after[k][i].state = "pending",
               attempts' = [after EXCEPT ![k][i] = Leased(@, w, t + d)]
        PROVE  \A j \in Jobs : \A n \in Numbers :
                 attempts'[j][n].state # "none" => after[j][n].state # "none"
    BY <2>1, <2>2
  <2>3. \A j \in Jobs : \A n \in Numbers :
          attempts'[j][n].state # "none" => after[j][n].state # "none"
    BY <1>4, <2>2 DEF LeaseNext, Due, after
  <2> QED BY <1>0, <1>4, <2>1, <2>3 DEF LeaseNext, Due
<1>5. ASSUME NEW w \in Workers, NEW j \in Jobs, NEW n \in Numbers, NEW t \in Times,
             NEW code \in ErrorCodes, NEW asked \in BOOLEAN,
             FailAttempt(w, j, n, code, asked, t)
      PROVE  DeletedIsForgotten'
  <2>1. Exists(j, n)
    BY <1>5 DEF FailAttempt, Running, Exists
  <2>2. \A k \in Jobs : k # j => attempts'[k] = attempts[k]
    BY <1>5 DEF FailAttempt, TypeOK
  <2> QED BY <1>0, <1>5, <2>1, <2>2 DEF FailAttempt, Exists
<1>6. ASSUME NEW w \in Workers, NEW j \in Jobs, NEW n \in Numbers, NEW t \in Times,
             NEW ws \in SUBSET ClaimWrites, CompleteAttempt(w, j, n, t, ws)
      PROVE  DeletedIsForgotten'
  <2>1. Live(j[1]) /\ UNCHANGED <<events, tombstones>>
    BY <1>6 DEF CompleteAttempt, MayComplete
  <2>2. \A k \in Jobs : k # j => attempts'[k] = attempts[k]
    BY <1>6 DEF CompleteAttempt, MayComplete, TypeOK
  <2>3. \A v \in evidence' : Live(SpanSource[v[2]])
    BY <1>6, <2>1 DEF CompleteAttempt, MayComplete, Agree, DeletedIsForgotten
  <2>4. \A x \in extractions' : Live(x[2][1])
    BY <1>6, <2>1 DEF CompleteAttempt, MayComplete, DeletedIsForgotten
  <2> QED BY <2>1, <2>2, <2>3, <2>4 DEF DeletedIsForgotten, Live, Exists
<1>7. ASSUME NEW s \in SourceIds, DeleteSource(s)
      PROVE  DeletedIsForgotten'
  <2>1. PICK e \in events : DeleteSource(s)!(e)
    BY <1>7 DEF DeleteSource
  <2>2. \A u : Live(u) /\ u # s => Live(u)'
    BY <2>1 DEF MayDelete, Live
  <2>3. /\ \A b \in tombstones' : \A f \in events' : f.id # b.id /\ f.key # b.key
        /\ \A f, g \in events' : f.id = g.id \/ f.key = g.key => f = g
    BY <2>1 DEF MayDelete, DeletedIsForgotten
  <2>4. \A j \in Jobs : \A n \in Numbers : Exists(j, n)' => j[1] # s /\ Exists(j, n)
    BY <2>1 DEF Exists, NoRow
  <2>5. \A v \in evidence' : v \in evidence /\ SpanSource[v[2]] # s
    BY <2>1 DEF EvidenceOf
  <2>6. \A x \in extractions' : x \in extractions /\ x[2][1] # s
    BY <2>1
  <2> QED BY <2>2, <2>3, <2>4, <2>5, <2>6 DEF DeletedIsForgotten
<1>8. CASE UNCHANGED vars
  BY <1>0, <1>8 DEF vars, Exists
<1> QED BY <1>1, <1>2, <1>3, <1>4, <1>5, <1>6, <1>7, <1>8 DEF Next

\* Executed one transaction at a time, hard deletion holds: a deleted source is
\* never stored again, and nothing derived from it remains.
THEOREM DeletionForgets == Spec => []DeletedIsForgotten
<1>1. Init => DeletedIsForgotten
  BY DEF Init, DeletedIsForgotten, Exists, NoRow
<1>2. TypeOK /\ DeletedIsForgotten /\ [Next]_vars => DeletedIsForgotten'
  BY ForgottenStep
<1> QED BY <1>1, <1>2, TypeCorrect, PTL DEF Spec

-----------------------------------------------------------------------------
HIDE IngestionAssumption

\* The steps that only move the queue on: recovery and leasing.
Poll ==
  \/ \E t \in Times, locked \in SUBSET OpenRows : RecoverExpiredLeases(t, locked)
  \/ \E w \in Workers, t \in Times, locked \in SUBSET OpenRows :
       \E d \in 1 .. (MaxTime - t) : LeaseNext(w, t, d, locked)

SettledRow(row) ==
  row.state = "succeeded" \/ (row.state = "failed" /\ ~row.retryable)

LEMMA SettledRows == \A j \in Jobs : Settled(j) <=> \E n \in Numbers : SettledRow(attempts[j][n])
  BY DEF Settled, SettledRow

\* The chain of a settled job holds no open attempt.
LEMMA SettledIsClosed ==
  ASSUME TypeOK, ChainShape, NEW j \in Jobs, Settled(j)
  PROVE  \A n \in Numbers : attempts[j][n].state \notin {"pending", "running"}
<1>1. PICK n \in Numbers : SettledRow(attempts[j][n])
  BY SettledRows
<1>2. \A m \in Numbers : m < n \/ m = n \/ n < m
  BY DEF Numbers
<1> QED BY <1>1, <1>2 DEF ChainShape, Exists, SettledRow

\* A poll writes rows of jobs that have an open attempt, and settles none.
LEMMA PollStep ==
  ASSUME TypeOK, Poll
  PROVE  /\ UNCHANGED <<events, tombstones, claims, evidence, extractions, outbox>>
         /\ \A j \in Jobs :
              (\A n \in Numbers : attempts[j][n].state \notin {"pending", "running"})
                => attempts'[j] = attempts[j]
         /\ \A j \in Jobs : \A n \in Numbers :
              attempts'[j][n] # attempts[j][n] =>
                /\ ~SettledRow(attempts'[j][n])
                /\ attempts'[j][n].state # "none"
                /\ \/ attempts[j][n].state \in {"pending", "running"}
                   \/ \E m \in Numbers : n = m + 1 /\ Running(j, m)
<1> DEFINE P(table) ==
      /\ \A j \in Jobs :
           (\A n \in Numbers : attempts[j][n].state \notin {"pending", "running"})
             => table[j] = attempts[j]
      /\ \A j \in Jobs : \A n \in Numbers :
           table[j][n] # attempts[j][n] =>
             /\ ~SettledRow(table[j][n])
             /\ table[j][n].state # "none"
             /\ \/ attempts[j][n].state \in {"pending", "running"}
                \/ \E m \in Numbers : n = m + 1 /\ Running(j, m)
<1>0. \A j \in Jobs : \A n \in Numbers : attempts[j][n] \in Row /\ n \in Int
  BY NumbersAreNat DEF TypeOK
<1>1. ASSUME NEW t \in Times, NEW locked
      PROVE  P(Recovered(t, locked))
  <2> DEFINE X == Expired(t, locked)
             after == Recovered(t, locked)
  <2>1. \A j, k : <<j, k>> \in X => j \in Jobs /\ k \in Numbers /\ Running(j, k)
    BY DEF Expired
  <2>2. \A j \in Jobs : \A k \in Numbers :
          /\ <<j, k>> \in X => after[j][k] = Failed(attempts[j][k], LeaseExpired, TRUE)
          /\ <<j, k>> \notin X /\ <<j, k - 1>> \in X => after[j][k] = PendingAttempt(t)
          /\ <<j, k>> \notin X /\ <<j, k - 1>> \notin X => after[j][k] = attempts[j][k]
    BY DEF Recovered
  <2>3. after \in [Jobs -> [Numbers -> Row]] /\ attempts \in [Jobs -> [Numbers -> Row]]
    BY RecoveredIsTyped DEF TypeOK
  <2> HIDE DEF X, after
  <2>4. ASSUME NEW j \in Jobs,
               \A n \in Numbers : attempts[j][n].state \notin {"pending", "running"}
        PROVE  after[j] = attempts[j]
    <3>1. \A k : <<j, k>> \notin X
      BY <2>1, <2>4 DEF Running
    <3>2. \A k \in Numbers : after[j][k] = attempts[j][k]
      BY <2>2, <3>1
    <3> QED BY <2>3, <3>2
  <2>5. ASSUME NEW j \in Jobs, NEW n \in Numbers, after[j][n] # attempts[j][n]
        PROVE  /\ ~SettledRow(after[j][n])
               /\ after[j][n].state # "none"
               /\ \/ attempts[j][n].state \in {"pending", "running"}
                  \/ \E m \in Numbers : n = m + 1 /\ Running(j, m)
    <3>1. CASE <<j, n>> \in X
      <4>1. after[j][n] = Failed(attempts[j][n], LeaseExpired, TRUE) /\ Running(j, n)
        BY <2>1, <2>2, <3>1
      <4>2. attempts[j][n] \in Row
        BY <1>0
      <4>3. after[j][n].state = "failed" /\ after[j][n].retryable
        BY <4>1, <4>2, RowFields
      <4> QED BY <4>1, <4>3 DEF SettledRow, Running
    <3>2. CASE <<j, n>> \notin X /\ <<j, n - 1>> \in X
      <4>1. n - 1 \in Numbers /\ n = (n - 1) + 1 /\ Running(j, n - 1)
        BY <1>0, <2>1, <3>2
      <4>2. after[j][n] = PendingAttempt(t)
        BY <2>2, <3>2
      <4> QED BY <4>1, <4>2, RowFields DEF SettledRow
    <3> QED BY <2>2, <2>5, <3>1, <3>2
  <2> QED BY <2>4, <2>5 DEF after
<1>2. ASSUME NEW t \in Times, NEW locked \in SUBSET OpenRows,
             RecoverExpiredLeases(t, locked)
      PROVE  P(attempts')
  BY <1>1, <1>2 DEF RecoverExpiredLeases
<1>3. ASSUME NEW w \in Workers, NEW t \in Times, NEW locked \in SUBSET OpenRows,
             NEW d \in 1 .. (MaxTime - t), LeaseNext(w, t, d, locked)
      PROVE  P(attempts')
  <2> DEFINE after == Recovered(t, locked)
  <2>1. P(after) /\ after \in [Jobs -> [Numbers -> Row]]
    BY <1>1, RecoveredIsTyped
  <2> HIDE DEF after
  <2>2. CASE attempts' = after
    BY <2>1, <2>2
  <2>3. ASSUME NEW j \in Jobs, NEW n \in Numbers, after[j][n].state = "pending",
               attempts' = [after EXCEPT ![j][n] = Leased(@, w, t + d)]
        PROVE  P(attempts')
    <3>1. attempts'[j][n].state = "running" /\ ~SettledRow(attempts'[j][n])
      <4>1. after[j][n] \in Row
        BY <2>1
      <4> QED BY <2>1, <2>3, <4>1, RowFields DEF SettledRow
    <3>2. \A k \in Jobs : \A m \in Numbers :
            k # j \/ m # n => attempts'[k][m] = after[k][m]
      BY <2>1, <2>3
    <3>3. \A k \in Jobs : k # j => attempts'[k] = after[k]
      BY <2>1, <2>3
    <3>4. \/ attempts[j][n].state \in {"pending", "running"}
          \/ \E m \in Numbers : n = m + 1 /\ Running(j, m)
      BY <2>1, <2>3
    <3>5. \E m \in Numbers : attempts[j][m].state \in {"pending", "running"}
      BY <3>4 DEF Running
    <3>6. ASSUME NEW k \in Jobs,
                 \A m \in Numbers : attempts[k][m].state \notin {"pending", "running"}
          PROVE  attempts'[k] = attempts[k]
      BY <2>1, <3>3, <3>5, <3>6
    <3>7. ASSUME NEW k \in Jobs, NEW m \in Numbers, attempts'[k][m] # attempts[k][m]
          PROVE  /\ ~SettledRow(attempts'[k][m])
                 /\ attempts'[k][m].state # "none"
                 /\ \/ attempts[k][m].state \in {"pending", "running"}
                    \/ \E i \in Numbers : m = i + 1 /\ Running(k, i)
      <4>1. CASE k = j /\ m = n
        BY <3>1, <3>4, <4>1
      <4>2. CASE k # j \/ m # n
        BY <2>1, <3>2, <3>7, <4>2
      <4> QED BY <4>1, <4>2
    <3> QED BY <3>6, <3>7
  <2> QED BY <1>3, <2>2, <2>3 DEF LeaseNext, Due, after
<1>4. P(attempts')
  BY <1>2, <1>3 DEF Poll
<1>5. UNCHANGED <<events, tombstones, claims, evidence, extractions, outbox>>
  BY DEF Poll, RecoverExpiredLeases, LeaseNext, Due
<1> QED BY <1>4, <1>5

\* The tables for which a deletion of s leaves no trace of s.
LEMMA DeletedIsNotLive ==
  ASSUME DeletedIsForgotten, NEW s \in SourceIds, DeleteSource(s)
  PROVE  /\ ~Live(s)'
         /\ \A u \in SourceIds : u # s => (Live(u)' <=> Live(u))
         /\ \A u \in SourceIds :
              (\E b \in tombstones' : b.id = u) <=> u = s \/ \E b \in tombstones : b.id = u
<1>1. PICK e \in events : DeleteSource(s)!(e)
  BY DEF DeleteSource
<1>2. ~Live(s)'
  BY <1>1 DEF MayDelete, Live, DeletedIsForgotten
<1>3. \A u \in SourceIds : u # s => (Live(u)' <=> Live(u))
  BY <1>1 DEF MayDelete, Live
<1>4. [id |-> s, key |-> e.key].id = s
  OBVIOUS
<1>5. tombstones' = tombstones \cup {[id |-> s, key |-> e.key]}
  BY <1>1
<1>6. \A u \in SourceIds :
        (\E b \in tombstones' : b.id = u) <=> u = s \/ \E b \in tombstones : b.id = u
  BY <1>4, <1>5
<1> QED BY <1>2, <1>3, <1>6

LEMMA SettledStep ==
  ASSUME TypeOK, ChainShape, DeletedIsForgotten, Next,
         NEW j \in Jobs, Settled(j), Live(j[1])'
  PROVE  attempts'[j] = attempts[j]
<1>0. /\ \A n \in Numbers : attempts[j][n].state \notin {"pending", "running"}
      /\ \E n \in Numbers : SettledRow(attempts[j][n])
  BY SettledIsClosed, SettledRows
<1>1. ASSUME NEW r \in Requests, NEW x \in Extractors, Ingest(r, x)
      PROVE  attempts'[j] = attempts[j]
  <2>1. Exists(j, 1)
    BY <1>0, NumbersAreNat DEF ChainShape, Exists, SettledRow, Numbers
  <2> QED BY <1>1, <2>1 DEF Ingest, TypeOK
<1>2. ASSUME NEW k \in Jobs, NEW t \in Times, EnqueueReprocessing(k, t)
      PROVE  attempts'[j] = attempts[j]
  <2>1. PICK n \in Numbers :
          /\ \/ n = 1 /\ \A m \in Numbers : ~Exists(k, m)
             \/ n > 1 /\ Newest(k, n - 1) /\ MayRetry(attempts[k][n - 1])
          /\ attempts' = [attempts EXCEPT ![k][n] = PendingAttempt(t)]
    BY <1>2 DEF EnqueueReprocessing
  <2>2. k # j
    <3> SUFFICES ASSUME k = j PROVE FALSE
      OBVIOUS
    <3>1. PICK m \in Numbers : SettledRow(attempts[j][m])
      BY <1>0
    <3>2. Exists(j, m)
      BY <3>1 DEF Exists, SettledRow
    <3>3. n - 1 \in Numbers /\ Exists(j, n - 1) /\ m <= n - 1 /\ MayRetry(attempts[j][n - 1])
      <4>1. n > 1 /\ Newest(j, n - 1) /\ MayRetry(attempts[j][n - 1])
        BY <2>1, <3>2
      <4>2. n - 1 \in Numbers
        BY <4>1, IngestionAssumption DEF Numbers
      <4> QED BY <3>2, <4>1, <4>2 DEF Newest
    <3>4. m < n - 1
      BY <3>1, <3>3 DEF MayRetry, SettledRow, Numbers
    <3> QED BY <3>1, <3>3, <3>4 DEF ChainShape, SettledRow
  <2> QED BY <2>1, <2>2 DEF TypeOK
<1>3. CASE Poll
  BY <1>0, <1>3, PollStep
<1>4. ASSUME NEW w \in Workers, NEW k \in Jobs, NEW n \in Numbers, NEW t \in Times,
             NEW code \in ErrorCodes, NEW asked \in BOOLEAN,
             FailAttempt(w, k, n, code, asked, t)
      PROVE  attempts'[j] = attempts[j]
  BY <1>0, <1>4 DEF FailAttempt, Running, TypeOK
<1>5. ASSUME NEW w \in Workers, NEW k \in Jobs, NEW n \in Numbers, NEW t \in Times,
             NEW ws \in SUBSET ClaimWrites, CompleteAttempt(w, k, n, t, ws)
      PROVE  attempts'[j] = attempts[j]
  <2>1. Running(k, n) /\ attempts' = [attempts EXCEPT ![k][n] = Succeeded(@)]
    BY <1>5 DEF CompleteAttempt, MayComplete
  <2> QED BY <1>0, <2>1 DEF Running, TypeOK
<1>6. ASSUME NEW s \in SourceIds, DeleteSource(s)
      PROVE  attempts'[j] = attempts[j]
  <2>1. j[1] # s
    BY <1>6, DeletedIsNotLive
  <2> QED BY <1>6, <2>1 DEF DeleteSource, TypeOK
<1> QED BY <1>1, <1>2, <1>3, <1>4, <1>5, <1>6 DEF Next, Poll

\* While its source lives, no call writes an attempt of a job that succeeded or
\* failed for good: not a retry, a late worker, a poll or a second completion.
THEOREM SettledForGood == Spec => SettledStaysSettled
<1>1. TypeOK /\ ChainShape /\ DeletedIsForgotten /\ [Next]_vars =>
        [\A j \in Jobs : Settled(j) /\ Live(j[1])' => attempts'[j] = attempts[j]]_vars
  BY SettledStep
<1> QED BY <1>1, TypeCorrect, ChainAlways, DeletionForgets, PTL DEF Spec, SettledStaysSettled

-----------------------------------------------------------------------------
\* The dedupe keys of different events differ.
LEMMA KeysDiffer ==
  /\ \A s, u : /\ SourceIngested(s) = SourceIngested(u) => s = u
               /\ SourceDeleted(s) = SourceDeleted(u) => s = u
               /\ SourceIngested(s) # SourceDeleted(u)
  /\ \A s : \A j \in Jobs : /\ SourceIngested(s) # ClaimsChanged(j)
                            /\ SourceDeleted(s) # ClaimsChanged(j)
  /\ \A j, k \in Jobs : ClaimsChanged(j) = ClaimsChanged(k) => j = k
  /\ \A c, s, u : /\ ClaimRecompute(c, s) # SourceIngested(u)
                  /\ ClaimRecompute(c, s) # SourceDeleted(u)
  /\ \A c, s : \A j \in Jobs : ClaimRecompute(c, s) # ClaimsChanged(j)
  /\ \A c, s, d, u : ClaimRecompute(c, s) = ClaimRecompute(d, u) => c = d /\ s = u
<1>1. \A s : /\ SourceIngested(s).type = "source_ingested"
             /\ SourceIngested(s).source = s
             /\ SourceDeleted(s).type = "source_deleted"
             /\ SourceDeleted(s).source = s
  BY DEF SourceIngested, SourceDeleted
<1>2. \A j : /\ ClaimsChanged(j).type = "claims_changed"
             /\ ClaimsChanged(j).source = j[1]
             /\ ClaimsChanged(j).extractor = j[2]
  BY DEF ClaimsChanged
<1>3. \A c, s : /\ ClaimRecompute(c, s).type = "claim_recompute_required"
                /\ ClaimRecompute(c, s).source = s
                /\ ClaimRecompute(c, s).claim = c
  BY DEF ClaimRecompute
<1>4. \A j, k \in Jobs : j[1] = k[1] /\ j[2] = k[2] => j = k
  BY DEF Jobs
<1>5. \A j, k \in Jobs : ClaimsChanged(j) = ClaimsChanged(k) => j = k
  BY <1>2, <1>4
<1> QED BY <1>1, <1>2, <1>3, <1>5

\* A step that touches attempts only, and neither makes nor unmakes a success.
LEMMA OnlyAttempts ==
  ASSUME TypeOK, RowsAgree,
         UNCHANGED <<events, tombstones, claims, evidence, extractions, outbox>>,
         \A j \in Jobs : \A n \in Numbers :
           attempts'[j][n].state = "succeeded" <=> attempts[j][n].state = "succeeded"
  PROVE  RowsAgree'
<1>1. \A x \in extractions : x[2] \in Jobs /\ x[3] \in Numbers
  BY DEF TypeOK
<1>2. ClaimsAreGrounded'
  BY <1>1 DEF RowsAgree, ClaimsAreGrounded
<1>3. OutboxTellsTheTruth'
  BY DEF RowsAgree, OutboxTellsTheTruth, Live
<1> QED BY <1>2, <1>3 DEF RowsAgree

\* A completion adds a claim with its evidence and its extraction row.
LEMMA CompletionKeepsGrounds ==
  ASSUME TypeOK, ClaimsAreGrounded,
         NEW w \in Workers, NEW j \in Jobs, NEW n \in Numbers, NEW t \in Times,
         NEW ws \in SUBSET ClaimWrites, CompleteAttempt(w, j, n, t, ws)
  PROVE  ClaimsAreGrounded'
<1>0. /\ \A v \in ws : /\ v.claim \in ClaimIds /\ v.content \in Contents
                       /\ SpanSource[v.span] = j[1]
      /\ Running(j, n)
      /\ claims' = [c \in ClaimIds |->
                      IF \E v \in ws : v.claim = c
                      THEN (CHOOSE v \in ws : v.claim = c).content
                      ELSE claims[c]]
      /\ evidence' = evidence \cup {<<v.claim, v.span>> : v \in ws}
      /\ extractions' = extractions \cup {<<v.claim, j, n>> : v \in ws}
      /\ attempts' = [attempts EXCEPT ![j][n] = Succeeded(@)]
  BY IngestionAssumption DEF CompleteAttempt, MayComplete, Agree
<1>1. ASSUME NEW c \in ClaimIds
      PROVE  claims'[c] # NoContent <=> \E v \in evidence' : v[1] = c
  <2>1. CASE \E v \in ws : v.claim = c
    <3>1. claims'[c] \in Contents
      BY <1>0, <2>1
    <3>2. PICK v \in ws : v.claim = c
      BY <2>1
    <3>3. <<v.claim, v.span>> \in evidence' /\ <<v.claim, v.span>>[1] = c
      BY <1>0, <3>2
    <3> QED BY <3>1, <3>3, IngestionAssumption
  <2>2. CASE ~\E v \in ws : v.claim = c
    <3>1. claims'[c] = claims[c]
      BY <1>0, <2>2
    <3>2. (\E v \in evidence' : v[1] = c) <=> \E v \in evidence : v[1] = c
      BY <1>0, <2>2
    <3> QED BY <3>1, <3>2 DEF ClaimsAreGrounded
  <2> QED BY <2>1, <2>2
<1>2. ASSUME NEW v \in evidence'
      PROVE  \E x \in extractions' : x[1] = v[1] /\ x[2][1] = SpanSource[v[2]]
  <2>1. CASE v \in evidence
    BY <1>0, <2>1 DEF ClaimsAreGrounded
  <2>2. CASE \E u \in ws : v = <<u.claim, u.span>>
    <3>1. PICK u \in ws : v = <<u.claim, u.span>>
      BY <2>2
    <3>2. <<u.claim, j, n>> \in extractions'
      BY <1>0
    <3> QED BY <1>0, <3>1, <3>2
  <2> QED BY <1>0, <2>1, <2>2
<1>3. ASSUME NEW x \in extractions'
      PROVE  /\ attempts'[x[2]][x[3]].state = "succeeded"
             /\ \E v \in evidence' : v[1] = x[1] /\ SpanSource[v[2]] = x[2][1]
  <2>0. /\ attempts \in [Jobs -> [Numbers -> Row]]
        /\ attempts'[j][n] = Succeeded(attempts[j][n])
        /\ attempts'[j][n].state = "succeeded"
    BY <1>0, RowFields DEF TypeOK
  <2>1. CASE x \in extractions
    <3>1. x[2] \in Jobs /\ x[3] \in Numbers /\ attempts[x[2]][x[3]].state = "succeeded"
      BY <2>1 DEF TypeOK, ClaimsAreGrounded
    <3>2. attempts'[x[2]][x[3]].state = "succeeded"
      BY <1>0, <2>0, <3>1
    <3> QED BY <1>0, <2>1, <3>2 DEF ClaimsAreGrounded
  <2>2. CASE \E u \in ws : x = <<u.claim, j, n>>
    <3>1. PICK u \in ws : x = <<u.claim, j, n>>
      BY <2>2
    <3>2. <<u.claim, u.span>> \in evidence' /\ SpanSource[u.span] = j[1]
      BY <1>0
    <3> QED BY <2>0, <3>1, <3>2
  <2> QED BY <1>0, <2>1, <2>2
<1> QED BY <1>1, <1>2, <1>3 DEF ClaimsAreGrounded

\* A deletion takes the claims that lose their last evidence, and no other.
LEMMA DeletionKeepsGrounds ==
  ASSUME TypeOK, ClaimsAreGrounded, NEW s \in SourceIds, DeleteSource(s)
  PROVE  ClaimsAreGrounded'
<1>1. PICK e \in events : DeleteSource(s)!(e)
  BY DEF DeleteSource
<1>2. \A v \in evidence : v[1] \in ClaimIds
  BY DEF TypeOK
<1>3. evidence' = {v \in evidence : SpanSource[v[2]] # s}
  BY <1>1 DEF EvidenceOf
<1>4. \A c : c \in Retired(s) <=> /\ \E v \in evidence : v[1] = c
                                  /\ \A v \in evidence' : v[1] # c
  BY <1>1, <1>3 DEF Retired, Affected, EvidenceOf
<1>5. ASSUME NEW c \in ClaimIds
      PROVE  claims'[c] # NoContent <=> \E v \in evidence' : v[1] = c
  <2>1. claims'[c] = IF c \in Retired(s) THEN NoContent ELSE claims[c]
    BY <1>1
  <2> QED BY <1>3, <1>4, <2>1 DEF ClaimsAreGrounded
<1>6. ASSUME NEW v \in evidence'
      PROVE  \E x \in extractions' : x[1] = v[1] /\ x[2][1] = SpanSource[v[2]]
  <2>1. PICK x \in extractions : x[1] = v[1] /\ x[2][1] = SpanSource[v[2]]
    BY <1>3 DEF ClaimsAreGrounded
  <2>2. x[2][1] # s /\ x[1] \notin Retired(s)
    BY <1>3, <1>4, <2>1
  <2> QED BY <1>1, <2>1, <2>2
<1>7. ASSUME NEW x \in extractions'
      PROVE  /\ attempts'[x[2]][x[3]].state = "succeeded"
             /\ \E v \in evidence' : v[1] = x[1] /\ SpanSource[v[2]] = x[2][1]
  <2>1. x \in extractions /\ x[2][1] # s /\ x[2] \in Jobs
    BY <1>1 DEF TypeOK
  <2>2. attempts'[x[2]] = attempts[x[2]]
    BY <1>1, <2>1
  <2> QED BY <1>3, <2>1, <2>2 DEF ClaimsAreGrounded
<1> QED BY <1>5, <1>6, <1>7 DEF ClaimsAreGrounded

LEMMA IngestionTellsTheTruth ==
  ASSUME TypeOK, OutboxTellsTheTruth, NEW r \in Requests, NEW x \in Extractors,
         Ingest(r, x)
  PROVE  OutboxTellsTheTruth'
<1>0. /\ outbox' = outbox \cup {SourceIngested(r.id)}
      /\ events' = events \cup {r} /\ tombstones' = tombstones
      /\ ~Exists(<<r.id, x>>, 1)
      /\ attempts' = [attempts EXCEPT ![<<r.id, x>>][1] = PendingAttempt(r.at)]
  BY DEF Ingest
<1>1. \A s \in SourceIds : SourceIngested(s) \in outbox' <=> Live(s)'
  BY <1>0, KeysDiffer DEF OutboxTellsTheTruth, Live
<1>2. \A s \in SourceIds : SourceDeleted(s) \in outbox' <=> \E b \in tombstones' : b.id = s
  BY <1>0, KeysDiffer DEF OutboxTellsTheTruth
<1>3. ASSUME NEW j \in Jobs
      PROVE  ClaimsChanged(j) \in outbox' <=>
               \E n \in Numbers : attempts'[j][n].state = "succeeded"
  <2>1. \A n \in Numbers :
          attempts'[j][n].state = "succeeded" <=> attempts[j][n].state = "succeeded"
    BY <1>0, RowFields DEF Exists, TypeOK
  <2> QED BY <1>0, <2>1, KeysDiffer DEF OutboxTellsTheTruth
<1>4. \A c \in ClaimIds, s \in SourceIds :
        ClaimRecompute(c, s) \in outbox' => \E b \in tombstones' : b.id = s
  BY <1>0, KeysDiffer DEF OutboxTellsTheTruth
<1> QED BY <1>1, <1>2, <1>3, <1>4 DEF OutboxTellsTheTruth

LEMMA CompletionTellsTheTruth ==
  ASSUME TypeOK, OutboxTellsTheTruth,
         NEW w \in Workers, NEW j \in Jobs, NEW n \in Numbers, NEW t \in Times,
         NEW ws \in SUBSET ClaimWrites, CompleteAttempt(w, j, n, t, ws)
  PROVE  OutboxTellsTheTruth'
<1>0. /\ outbox' = outbox \cup {ClaimsChanged(j)}
      /\ events' = events /\ tombstones' = tombstones
      /\ Running(j, n)
      /\ attempts' = [attempts EXCEPT ![j][n] = Succeeded(@)]
  BY DEF CompleteAttempt, MayComplete
<1>1. \A s \in SourceIds : SourceIngested(s) \in outbox' <=> Live(s)'
  BY <1>0, KeysDiffer DEF OutboxTellsTheTruth, Live
<1>2. \A s \in SourceIds : SourceDeleted(s) \in outbox' <=> \E b \in tombstones' : b.id = s
  BY <1>0, KeysDiffer DEF OutboxTellsTheTruth
<1>3. ASSUME NEW k \in Jobs
      PROVE  ClaimsChanged(k) \in outbox' <=>
               \E m \in Numbers : attempts'[k][m].state = "succeeded"
  <2>1. CASE k = j
    <3>1. attempts[j][n] \in Row /\ attempts'[j][n] = Succeeded(attempts[j][n])
      BY <1>0 DEF TypeOK
    <3> QED BY <1>0, <2>1, <3>1, RowFields
  <2>2. CASE k # j
    <3>1. attempts'[k] = attempts[k]
      BY <1>0, <2>2 DEF TypeOK
    <3> QED BY <1>0, <2>2, <3>1, KeysDiffer DEF OutboxTellsTheTruth
  <2> QED BY <2>1, <2>2
<1>4. \A c \in ClaimIds, s \in SourceIds :
        ClaimRecompute(c, s) \in outbox' => \E b \in tombstones' : b.id = s
  BY <1>0, KeysDiffer DEF OutboxTellsTheTruth
<1> QED BY <1>1, <1>2, <1>3, <1>4 DEF OutboxTellsTheTruth

LEMMA DeletionTellsTheTruth ==
  ASSUME TypeOK, OutboxTellsTheTruth, DeletedIsForgotten,
         NEW s \in SourceIds, DeleteSource(s)
  PROVE  OutboxTellsTheTruth'
<1> DEFINE gone == {SourceIngested(s)} \cup {ClaimsChanged(<<s, x>>) : x \in Extractors}
           new == DeletionKeys(s)
<1>0. /\ outbox' = (outbox \ gone) \cup new
      /\ attempts' = [j \in Jobs |-> IF j[1] = s THEN [n \in Numbers |-> NoRow]
                                     ELSE attempts[j]]
  BY DEF DeleteSource
<1>1. /\ ~Live(s)'
      /\ \A u \in SourceIds : u # s => (Live(u)' <=> Live(u))
      /\ \A u \in SourceIds :
           (\E b \in tombstones' : b.id = u) <=> u = s \/ \E b \in tombstones : b.id = u
  BY DeletedIsNotLive
<1>2. /\ \A k \in new : k = SourceDeleted(s) \/ \E c : k = ClaimRecompute(c, s)
      /\ SourceDeleted(s) \in new
  BY DEF DeletionKeys
<1>3. /\ \A u : SourceIngested(u) \in gone <=> u = s
      /\ \A u : SourceDeleted(u) \notin gone
      /\ \A j \in Jobs : ClaimsChanged(j) \in gone <=> j[1] = s
  <2>1. \A x \in Extractors : <<s, x>> \in Jobs
    BY DEF Jobs
  <2>2. \A j \in Jobs : j[1] = s => \E x \in Extractors : j = <<s, x>>
    BY DEF Jobs
  <2>3. ASSUME NEW j \in Jobs
        PROVE  ClaimsChanged(j) \in gone <=> j[1] = s
    <3>1. ASSUME j[1] = s PROVE ClaimsChanged(j) \in gone
      BY <2>2, <3>1
    <3>2. ASSUME NEW x \in Extractors, ClaimsChanged(j) = ClaimsChanged(<<s, x>>)
          PROVE  j[1] = s
      <4>1. j = <<s, x>>
        BY <2>1, <3>2, KeysDiffer
      <4> QED BY <4>1
    <3>3. ClaimsChanged(j) # SourceIngested(s)
      BY KeysDiffer
    <3> QED BY <3>1, <3>2, <3>3
  <2> QED BY <2>1, <2>3, KeysDiffer
<1> HIDE DEF gone, new
<1>4. \A u \in SourceIds : SourceIngested(u) \in outbox' <=> Live(u)'
  BY <1>0, <1>1, <1>2, <1>3, KeysDiffer DEF OutboxTellsTheTruth
<1>5. \A u \in SourceIds : SourceDeleted(u) \in outbox' <=> \E b \in tombstones' : b.id = u
  BY <1>0, <1>1, <1>2, <1>3, KeysDiffer DEF OutboxTellsTheTruth
<1>6. ASSUME NEW j \in Jobs
      PROVE  ClaimsChanged(j) \in outbox' <=>
               \E n \in Numbers : attempts'[j][n].state = "succeeded"
  <2>1. ClaimsChanged(j) \notin new
    BY <1>2, KeysDiffer
  <2>2. CASE j[1] = s
    BY <1>0, <1>3, <2>1, <2>2, RowFields
  <2>3. CASE j[1] # s
    BY <1>0, <1>3, <2>1, <2>3 DEF OutboxTellsTheTruth
  <2> QED BY <2>2, <2>3
<1>7. \A c \in ClaimIds, u \in SourceIds :
        ClaimRecompute(c, u) \in outbox' => \E b \in tombstones' : b.id = u
  BY <1>0, <1>1, <1>2, KeysDiffer DEF OutboxTellsTheTruth
<1> QED BY <1>4, <1>5, <1>6, <1>7 DEF OutboxTellsTheTruth

LEMMA AgreementStep ==
  TypeOK /\ ChainShape /\ DeletedIsForgotten /\ RowsAgree /\ [Next]_vars => RowsAgree'
<1> SUFFICES ASSUME TypeOK, ChainShape, DeletedIsForgotten, RowsAgree, [Next]_vars
             PROVE  RowsAgree'
  OBVIOUS
<1>0. \A j \in Jobs : \A n \in Numbers : attempts[j][n] \in Row
  BY DEF TypeOK
<1>1. ASSUME NEW r \in Requests, NEW x \in Extractors, Ingest(r, x)
      PROVE  RowsAgree'
  <2>1. OutboxTellsTheTruth'
    BY <1>1, IngestionTellsTheTruth DEF RowsAgree
  <2>2. \A j \in Jobs : \A n \in Numbers :
          attempts[j][n].state = "succeeded" => attempts'[j][n].state = "succeeded"
    <3>1. ~Exists(<<r.id, x>>, 1)
      BY <1>1 DEF Ingest
    <3>2. \A j \in Jobs : \A n \in Numbers :
            j # <<r.id, x>> \/ n # 1 => attempts'[j][n] = attempts[j][n]
      BY <1>1 DEF Ingest, TypeOK
    <3> QED BY <3>1, <3>2 DEF Exists
  <2>3. \A y \in extractions : y[2] \in Jobs /\ y[3] \in Numbers
    BY DEF TypeOK
  <2>4. UNCHANGED <<claims, evidence, extractions>>
    BY <1>1 DEF Ingest
  <2>5. ClaimsAreGrounded'
    BY <2>2, <2>3, <2>4 DEF RowsAgree, ClaimsAreGrounded
  <2> QED BY <2>1, <2>5 DEF RowsAgree
<1>2. ASSUME NEW j \in Jobs, NEW t \in Times, EnqueueReprocessing(j, t)
      PROVE  RowsAgree'
  <2>1. PICK n \in Numbers :
          /\ \/ n = 1 /\ \A m \in Numbers : ~Exists(j, m)
             \/ n > 1 /\ Newest(j, n - 1) /\ MayRetry(attempts[j][n - 1])
          /\ attempts' = [attempts EXCEPT ![j][n] = PendingAttempt(t)]
    BY <1>2 DEF EnqueueReprocessing
  <2>2. ~Exists(j, n)
    BY <2>1, NumbersAreNat DEF Newest
  <2>3. \A k \in Jobs : \A m \in Numbers :
          attempts'[k][m].state = "succeeded" <=> attempts[k][m].state = "succeeded"
    BY <2>1, <2>2, RowFields DEF Exists, TypeOK
  <2>4. UNCHANGED <<events, tombstones, claims, evidence, extractions, outbox>>
    BY <1>2 DEF EnqueueReprocessing
  <2> QED BY <2>3, <2>4, OnlyAttempts
<1>3. CASE Poll
  <2>1. \A j \in Jobs : \A n \in Numbers :
          attempts'[j][n] # attempts[j][n] => ~SettledRow(attempts'[j][n])
    BY <1>3, PollStep
  <2>2. ASSUME NEW j \in Jobs, NEW n \in Numbers, attempts[j][n].state = "succeeded"
        PROVE  attempts'[j][n] = attempts[j][n]
    <3>1. Settled(j)
      BY <2>2 DEF Settled
    <3> QED BY <1>3, <3>1, PollStep, SettledIsClosed
  <2>3. \A j \in Jobs : \A n \in Numbers :
          attempts'[j][n].state = "succeeded" <=> attempts[j][n].state = "succeeded"
    BY <2>1, <2>2 DEF SettledRow
  <2>4. UNCHANGED <<events, tombstones, claims, evidence, extractions, outbox>>
    BY <1>3, PollStep
  <2> QED BY <2>3, <2>4, OnlyAttempts
<1>4. ASSUME NEW w \in Workers, NEW j \in Jobs, NEW n \in Numbers, NEW t \in Times,
             NEW code \in ErrorCodes, NEW asked \in BOOLEAN,
             FailAttempt(w, j, n, code, asked, t)
      PROVE  RowsAgree'
  <2>1. /\ Running(j, n)
        /\ UNCHANGED <<events, tombstones, claims, evidence, extractions, outbox>>
        /\ \E b \in BOOLEAN : attempts' = [attempts EXCEPT ![j][n] = Failed(@, code, b)]
    BY <1>4 DEF FailAttempt
  <2>2. \A k \in Jobs : \A m \in Numbers :
          attempts'[k][m].state = "succeeded" <=> attempts[k][m].state = "succeeded"
    BY <1>0, <2>1, RowFields DEF Running, TypeOK
  <2> QED BY <2>1, <2>2, OnlyAttempts
<1>5. ASSUME NEW w \in Workers, NEW j \in Jobs, NEW n \in Numbers, NEW t \in Times,
             NEW ws \in SUBSET ClaimWrites, CompleteAttempt(w, j, n, t, ws)
      PROVE  RowsAgree'
  BY <1>5, CompletionKeepsGrounds, CompletionTellsTheTruth DEF RowsAgree
<1>6. ASSUME NEW s \in SourceIds, DeleteSource(s)
      PROVE  RowsAgree'
  BY <1>6, DeletionKeepsGrounds, DeletionTellsTheTruth DEF RowsAgree
<1>7. CASE UNCHANGED vars
  <2>1. UNCHANGED <<events, tombstones, attempts, claims, evidence, extractions, outbox>>
    BY <1>7 DEF vars
  <2> QED BY <2>1, OnlyAttempts
<1> QED BY <1>1, <1>2, <1>3, <1>4, <1>5, <1>6, <1>7 DEF Next, Poll

\* Whatever the order of ingestions, completions, retries and deletions, the
\* tables agree: a claim exists exactly while evidence of it does, evidence has
\* its extraction row and a succeeded attempt behind it, and the outbox announces
\* exactly the sources, successes and deletions that there are.
THEOREM AgreementAlways == Spec => []RowsAgree
<1>1. Init => RowsAgree
  BY RowFields DEF Init, RowsAgree, ClaimsAreGrounded, OutboxTellsTheTruth, Live
<1> QED BY <1>1, AgreementStep, TypeCorrect, ChainAlways, DeletionForgets, PTL DEF Spec

-----------------------------------------------------------------------------
\* What the owner of a lease holds: recovery frees rows and leases none, a lease ends
\* after it begins.
Held(row) == row.state = "running" => row.owner \in Workers /\ row.started < row.expires
LeasesLast == \A j \in Jobs : \A n \in Numbers : Held(attempts[j][n])

LEMMA HeldRows ==
  /\ Held(NoRow)
  /\ \A t : Held(PendingAttempt(t))
  /\ \A r \in Row : \A code, b : Held(Failed(r, code, b))
  /\ \A r \in Row : Held(Succeeded(r))
  /\ \A r \in Row : \A w \in Workers : \A until : r.started < until => Held(Leased(r, w, until))
BY DEF Held, Row, NoRow, PendingAttempt, Failed, Succeeded, Leased

LEMMA LeasesStep == TypeOK /\ LeasesLast /\ [Next]_vars => LeasesLast'
<1> SUFFICES ASSUME TypeOK, LeasesLast, [Next]_vars PROVE LeasesLast'
  OBVIOUS
<1>0. \A j \in Jobs : \A n \in Numbers : attempts[j][n] \in Row /\ Held(attempts[j][n])
  BY DEF TypeOK, LeasesLast
<1>1. ASSUME NEW r \in Requests, NEW x \in Extractors, Ingest(r, x) PROVE LeasesLast'
  BY <1>0, <1>1, HeldRows DEF Ingest, LeasesLast, TypeOK
<1>2. ASSUME NEW j \in Jobs, NEW t \in Times, EnqueueReprocessing(j, t) PROVE LeasesLast'
  BY <1>0, <1>2, HeldRows DEF EnqueueReprocessing, LeasesLast, TypeOK
<1>3. ASSUME NEW t \in Times, NEW locked PROVE \A j \in Jobs : \A n \in Numbers : Held(Recovered(t, locked)[j][n])
  BY <1>0, HeldRows DEF Recovered
<1>4. ASSUME NEW t \in Times, NEW locked, RecoverExpiredLeases(t, locked) PROVE LeasesLast'
  BY <1>3, <1>4 DEF RecoverExpiredLeases, LeasesLast
<1>5. ASSUME NEW w \in Workers, NEW t \in Times, NEW locked,
             NEW d \in 1 .. (MaxTime - t), LeaseNext(w, t, d, locked)
      PROVE  LeasesLast'
  <2> DEFINE after == Recovered(t, locked)
             until == t + d
  <2>1. after \in [Jobs -> [Numbers -> Row]] /\ \A j \in Jobs : \A n \in Numbers : Held(after[j][n])
    BY <1>3, RecoveredIsTyped
  <2>2. \/ attempts' = after
        \/ \E r \in Due(after, t, locked) : attempts' = [after EXCEPT ![r[1]][r[2]] = Leased(@, w, until)]
    BY <1>5 DEF LeaseNext
  <2>3. \A r \in Due(after, t, locked) :
          r[1] \in Jobs /\ r[2] \in Numbers /\ after[r[1]][r[2]].started <= t
    BY DEF Due
  <2>4. \A x \in Times : x <= t => x < until
    BY IngestionAssumption DEF Times
  <2>5. \A x \in Row : x.started \in Times
    BY DEF Row
  <2> HIDE DEF after, until
  <2>6. ASSUME NEW k \in Jobs, NEW m \in Numbers, after[k][m].started <= t,
               attempts' = [after EXCEPT ![k][m] = Leased(@, w, until)]
        PROVE  LeasesLast'
    <3>1. Held(Leased(after[k][m], w, until))
      BY <2>1, <2>4, <2>5, <2>6, HeldRows
    <3>2. \A j \in Jobs : \A n \in Numbers :
            attempts'[j][n] = after[j][n] \/ attempts'[j][n] = Leased(after[k][m], w, until)
      BY <2>1, <2>6
    <3> QED BY <2>1, <3>1, <3>2 DEF LeasesLast
  <2> QED BY <2>1, <2>2, <2>3, <2>6 DEF LeasesLast
<1>6. ASSUME NEW w \in Workers, NEW j \in Jobs, NEW n \in Numbers, NEW t \in Times,
             NEW code \in ErrorCodes, NEW asked \in BOOLEAN, FailAttempt(w, j, n, code, asked, t)
      PROVE  LeasesLast'
  BY <1>0, <1>6, HeldRows DEF FailAttempt, LeasesLast, TypeOK
<1>7. ASSUME NEW w \in Workers, NEW j \in Jobs, NEW n \in Numbers, NEW t \in Times,
             NEW ws \in SUBSET ClaimWrites, CompleteAttempt(w, j, n, t, ws)
      PROVE  LeasesLast'
  BY <1>0, <1>7, HeldRows DEF CompleteAttempt, LeasesLast, TypeOK
<1>8. ASSUME NEW s \in SourceIds, DeleteSource(s) PROVE LeasesLast'
  BY <1>0, <1>8, HeldRows DEF DeleteSource, LeasesLast, TypeOK
<1>9. CASE UNCHANGED vars
  BY <1>9 DEF vars, LeasesLast
<1> QED BY <1>1, <1>2, <1>4, <1>5, <1>6, <1>7, <1>8, <1>9 DEF Next

\* A live source may be deleted, recovery finds the successor numbers free whenever it
\* runs, and as long as its lease lasts the owner of an attempt may complete it with any
\* writes that agree with the source and the stored claims.
NothingInTheWay ==
  /\ \A s \in SourceIds : Live(s) => \E e \in events : MayDelete(s, e)
  /\ \A t \in Times, locked \in SUBSET OpenRows : RecoveryFits(t, locked)
  /\ \A j \in Jobs, n \in Numbers : Running(j, n) =>
       LET row == attempts[j][n]
       IN /\ row.owner \in Workers /\ row.started < row.expires
          /\ \A t \in row.started .. (row.expires - 1) : \A ws \in SUBSET ClaimWrites :
               Agree(ws, j) => MayComplete(row.owner, j, n, t, ws)

LEMMA AttemptIsAlone ==
  ASSUME TypeOK, ChainShape, NEW j \in Jobs, NEW n \in Numbers, Running(j, n)
  PROVE  \A m \in Numbers : attempts[j][m].state # "succeeded"
<1> SUFFICES ASSUME NEW m \in Numbers, attempts[j][m].state = "succeeded" PROVE FALSE
  OBVIOUS
<1>1. Exists(j, m) /\ Exists(j, n) /\ attempts[j][n].state = "running"
  BY DEF Exists, Running
<1>2. m < n \/ n < m \/ m = n
  BY NumbersAreNat
<1> QED BY <1>1, <1>2 DEF ChainShape

LEMMA NothingIsInTheWay ==
  TypeOK /\ ChainShape /\ DeletedIsForgotten /\ RowsAgree /\ LeasesLast => NothingInTheWay
<1> SUFFICES ASSUME TypeOK, ChainShape, DeletedIsForgotten, RowsAgree, LeasesLast PROVE NothingInTheWay
  OBVIOUS
<1>1. ASSUME NEW s \in SourceIds, Live(s) PROVE \E e \in events : MayDelete(s, e)
  <2>1. PICK e \in events : e.id = s
    BY <1>1 DEF Live
  <2>2. ~Tombstoned(s, e.key) /\ \A b \in tombstones : b.id # s
    BY <2>1 DEF Tombstoned, DeletedIsForgotten
  <2>3. SourceDeleted(s) \notin outbox /\ \A c \in ClaimIds : ClaimRecompute(c, s) \notin outbox
    BY <2>2 DEF RowsAgree, OutboxTellsTheTruth
  <2>4. \A c \in Affected(s) : c \in ClaimIds
    BY DEF Affected, EvidenceOf, TypeOK
  <2>5. CanEmit(DeletionKeys(s))
    BY <2>3, <2>4 DEF CanEmit, DeletionKeys
  <2> QED BY <2>1, <2>2, <2>5 DEF MayDelete
<1>2. ASSUME NEW t \in Times, NEW locked \in SUBSET OpenRows PROVE RecoveryFits(t, locked)
  <2> SUFFICES ASSUME NEW r \in Expired(t, locked) PROVE ~Exists(r[1], r[2] + 1)
    BY DEF RecoveryFits
  <2> DEFINE j == r[1]
             n == r[2]
  <2>1. j \in Jobs /\ n \in Numbers /\ r = <<j, n>> /\ n < MaxAttempts
    BY DEF Expired
  <2>2. n + 1 \in Numbers /\ n < n + 1
    BY <2>1, IngestionAssumption DEF Numbers
  <2> HIDE DEF j, n
  <2>3. \A m \in Numbers : n < m => ~Exists(j, m)
    BY <2>1, ExpiredIsNewest
  <2> QED BY <2>2, <2>3 DEF j, n
<1>3. ASSUME NEW j \in Jobs, NEW n \in Numbers, Running(j, n)
      PROVE  LET row == attempts[j][n]
             IN /\ row.owner \in Workers /\ row.started < row.expires
                /\ \A t \in row.started .. (row.expires - 1) : \A ws \in SUBSET ClaimWrites :
                     Agree(ws, j) => MayComplete(row.owner, j, n, t, ws)
  <2> DEFINE row == attempts[j][n]
  <2>1. row.owner \in Workers /\ row.started < row.expires
    BY <1>3 DEF LeasesLast, Held, Running
  <2>2. row.started \in Int /\ row.expires \in Int
    BY DEF TypeOK, Row, Times
  <2>3. \A t \in row.started .. (row.expires - 1) : row.started <= t /\ t < row.expires
    <3> DEFINE a == row.started
               b == row.expires
    <3>1. a \in Int /\ b \in Int
      BY <2>2
    <3> HIDE DEF a, b
    <3>2. \A t \in a .. (b - 1) : a <= t /\ t < b
      BY <3>1
    <3> QED BY <3>2 DEF a, b
  <2>4. Live(j[1])
    BY <1>3 DEF DeletedIsForgotten, Running, Exists
  <2>5. \A m \in Numbers : attempts[j][m].state # "succeeded"
    BY <1>3, AttemptIsAlone
  <2>6. \A c, m : <<c, j, m>> \notin extractions
    <3> SUFFICES ASSUME NEW c, NEW m, <<c, j, m>> \in extractions PROVE FALSE
      OBVIOUS
    <3> DEFINE x == <<c, j, m>>
    <3>1. x \in extractions /\ x[2] = j /\ x[3] = m
      OBVIOUS
    <3>2. m \in Numbers
      BY DEF TypeOK
    <3> HIDE DEF x
    <3>3. attempts[x[2]][x[3]].state = "succeeded"
      BY <3>1 DEF RowsAgree, ClaimsAreGrounded
    <3> QED BY <2>5, <3>1, <3>2, <3>3
  <2>7. CanEmit({ClaimsChanged(j)})
    BY <2>5 DEF CanEmit, RowsAgree, OutboxTellsTheTruth
  <2> QED BY <1>3, <2>1, <2>3, <2>4, <2>6, <2>7 DEF MayComplete
<1> QED BY <1>1, <1>2, <1>3 DEF NothingInTheWay

\* No stored row makes a later transaction raise for ever: what delete_source, the
\* recovery of leases and complete_attempt check is true of every live source, lapsed
\* lease and lease in force.  (NothingWedges says the same with ENABLED.)
THEOREM NothingEverInTheWay == Spec => []NothingInTheWay
<1>1. Init => LeasesLast
  BY HeldRows DEF Init, LeasesLast
<1>2. TypeOK /\ LeasesLast /\ [Next]_vars => LeasesLast'
  BY LeasesStep
<1> QED BY <1>1, <1>2, NothingIsInTheWay, TypeCorrect, ChainAlways, DeletionForgets, AgreementAlways, PTL DEF Spec

-----------------------------------------------------------------------------
LEMMA JobStateIs ==
  ASSUME NEW j \in Jobs
  PROVE  /\ JobState(j) = "idle" <=> \A n \in Numbers : attempts[j][n].state = "none"
         /\ JobState(j) = "done" <=> \E n \in Numbers : attempts[j][n].state = "succeeded"
         /\ JobState(j) = "open" <=>
              /\ \E n \in Numbers : attempts[j][n].state # "none"
              /\ \A n \in Numbers : ~SettledRow(attempts[j][n])
         /\ JobState(j) = "dead" <=>
              /\ \E n \in Numbers : SettledRow(attempts[j][n])
              /\ \A n \in Numbers : attempts[j][n].state # "succeeded"
  BY SettledRows DEF JobState, Exists, SettledRow

\* The same, of the next state.
LEMMA JobStateNext ==
  ASSUME NEW j \in Jobs
  PROVE  /\ JobState(j)' = "idle" <=> \A n \in Numbers : attempts'[j][n].state = "none"
         /\ JobState(j)' = "done" <=> \E n \in Numbers : attempts'[j][n].state = "succeeded"
         /\ JobState(j)' = "open" <=>
              /\ \E n \in Numbers : attempts'[j][n].state # "none"
              /\ \A n \in Numbers : ~SettledRow(attempts'[j][n])
         /\ JobState(j)' = "dead" <=>
              /\ \E n \in Numbers : SettledRow(attempts'[j][n])
              /\ \A n \in Numbers : attempts'[j][n].state # "succeeded"
  BY DEF JobState, Settled, Exists, SettledRow

LEMMA SameRowsSameState ==
  ASSUME NEW j \in Jobs, attempts'[j] = attempts[j]
  PROVE  JobState(j)' = JobState(j)
  BY DEF JobState, Settled, Exists

\* An attempt that is pending or running belongs to an open job.
LEMMA OpenAttemptOpenJob ==
  ASSUME TypeOK, ChainShape, NEW j \in Jobs, NEW n \in Numbers,
         attempts[j][n].state \in {"pending", "running"}
  PROVE  JobState(j) = "open"
  BY JobStateIs, SettledIsClosed, SettledRows

\* A step the ledger does not see.
LEMMA Invisible ==
  ASSUME UNCHANGED <<events, tombstones, claims, evidence>>,
         \A j \in Jobs : JobState(j)' = JobState(j)
  PROVE  UNCHANGED Ledger!vars
<1>1. LifeOfSources' = LifeOfSources
  BY DEF LifeOfSources, Life, Live
<1>2. StateOfJobs' = StateOfJobs
  BY DEF StateOfJobs
<1>3. Support' = Support
  BY DEF Support
<1> QED BY <1>1, <1>2, <1>3 DEF Ledger!vars

\* A step that the ledger sees as a change of one job.
LEMMA OneJob ==
  ASSUME UNCHANGED <<events, tombstones>>, NEW j \in Jobs, NEW state,
         JobState(j)' = state, \A k \in Jobs : k # j => attempts'[k] = attempts[k]
  PROVE  /\ LifeOfSources' = LifeOfSources
         /\ StateOfJobs' = [StateOfJobs EXCEPT ![j] = state]
<1>1. LifeOfSources' = LifeOfSources
  BY DEF LifeOfSources, Life, Live
<1>2. \A k \in Jobs : k # j => JobState(k)' = JobState(k)
  BY SameRowsSameState
<1> QED BY <1>1, <1>2 DEF StateOfJobs

LEMMA IngestAccepts ==
  ASSUME TypeOK, ChainShape, NEW r \in Requests, NEW x \in Extractors, Ingest(r, x)
  PROVE  Ledger!Accept(r.id, x)
<1> DEFINE j == <<r.id, x>>
<1>0. r.id \in SourceIds /\ j \in Jobs
  BY IngestionAssumption DEF Jobs
<1>1. /\ ~Tombstoned(r.id, r.key) /\ ~Live(r.id) /\ ~Exists(j, 1)
      /\ events' = events \cup {r}
      /\ attempts' = [attempts EXCEPT ![j][1] = PendingAttempt(r.at)]
      /\ UNCHANGED <<tombstones, claims, evidence>>
  BY DEF Ingest, Live
<1> HIDE DEF j
<1>2. LifeOfSources[r.id] = "absent"
  BY <1>0, <1>1 DEF LifeOfSources, Life, Tombstoned
<1>3. LifeOfSources' = [LifeOfSources EXCEPT ![r.id] = "live"]
  BY <1>0, <1>1 DEF LifeOfSources, Life, Live
<1>4. JobState(j)' = "open"
  <2>1. \A n \in Numbers : attempts[j][n].state = "none"
    BY <1>0, <1>1, NumbersAreNat DEF ChainShape, Exists, Numbers
  <2>2. /\ attempts'[j][1] = PendingAttempt(r.at)
        /\ \A n \in Numbers : n # 1 => attempts'[j][n] = attempts[j][n]
    BY <1>0, <1>1, NumbersAreNat DEF TypeOK
  <2> QED BY <1>0, <2>1, <2>2, JobStateNext, NumbersAreNat, RowFields DEF SettledRow
<1>5. StateOfJobs' = [StateOfJobs EXCEPT ![j] = "open"]
  <2>1. \A k \in Jobs : k # j => attempts'[k] = attempts[k]
    BY <1>0, <1>1 DEF TypeOK
  <2> QED BY <1>0, <1>4, <2>1, SameRowsSameState DEF StateOfJobs
<1>6. Support' = Support
  BY <1>1 DEF Support
<1> QED BY <1>1, <1>2, <1>3, <1>5, <1>6 DEF Ledger!Accept, j

LEMMA ReprocessingOpens ==
  ASSUME TypeOK, ChainShape, NEW j \in Jobs, NEW t \in Times, EnqueueReprocessing(j, t)
  PROVE  Ledger!Open(j) \/ UNCHANGED Ledger!vars
<1>0. /\ Live(j[1]) /\ j[1] \in SourceIds
      /\ UNCHANGED <<events, tombstones, claims, evidence>>
  BY DEF EnqueueReprocessing, Jobs
<1>1. PICK n \in Numbers :
        /\ \/ n = 1 /\ \A m \in Numbers : ~Exists(j, m)
           \/ n > 1 /\ Newest(j, n - 1) /\ MayRetry(attempts[j][n - 1])
        /\ attempts' = [attempts EXCEPT ![j][n] = PendingAttempt(t)]
  BY DEF EnqueueReprocessing
<1>2. /\ attempts'[j][n] = PendingAttempt(t)
      /\ \A m \in Numbers : m # n => attempts'[j][m] = attempts[j][m]
      /\ \A k \in Jobs : k # j => attempts'[k] = attempts[k]
  BY <1>1 DEF TypeOK
<1>3. ~Settled(j)
  <2>1. CASE \A m \in Numbers : ~Exists(j, m)
    BY <2>1 DEF Settled, Exists
  <2>2. CASE n > 1 /\ Newest(j, n - 1) /\ MayRetry(attempts[j][n - 1])
    <3>0. n - 1 \in Numbers
      BY <2>2, IngestionAssumption DEF Numbers
    <3>1. ASSUME NEW m \in Numbers, SettledRow(attempts[j][m]) PROVE FALSE
      <4>1. Exists(j, m) /\ Exists(j, n - 1) /\ m <= n - 1
        BY <2>2, <3>0, <3>1 DEF Newest, SettledRow, Exists
      <4>2. m < n - 1
        BY <2>2, <3>1, <4>1 DEF MayRetry, SettledRow, Numbers
      <4> QED BY <3>0, <3>1, <4>1, <4>2 DEF ChainShape, SettledRow
    <3> QED BY <3>1, SettledRows
  <2> QED BY <1>1, <2>1, <2>2
<1>4. JobState(j)' = "open"
  <2>1. \A m \in Numbers : ~SettledRow(attempts[j][m])
    BY <1>3, SettledRows
  <2> QED BY <1>2, <2>1, JobStateNext, RowFields DEF SettledRow
<1>5. Support' = Support
  BY <1>0 DEF Support
<1>6. CASE JobState(j) = "idle"
  <2>1. LifeOfSources' = LifeOfSources /\ StateOfJobs' = [StateOfJobs EXCEPT ![j] = "open"]
    BY <1>0, <1>2, <1>4, OneJob
  <2>2. LifeOfSources[j[1]] = "live" /\ StateOfJobs[j] = "idle"
    BY <1>0, <1>6 DEF LifeOfSources, Life, StateOfJobs
  <2> QED BY <1>0, <1>5, <2>1, <2>2 DEF Ledger!Open
<1>7. CASE JobState(j) # "idle"
  <2>1. JobState(j) = "open"
    BY <1>3, <1>7, JobStateIs, SettledRows
  <2> QED BY <1>0, <1>2, <1>4, <2>1, Invisible, SameRowsSameState
<1> QED BY <1>6, <1>7

LEMMA PollIsInvisible ==
  ASSUME TypeOK, ChainShape, Poll
  PROVE  UNCHANGED Ledger!vars
<1>1. ASSUME NEW j \in Jobs
      PROVE  JobState(j)' = JobState(j)
  <2>1. CASE \A n \in Numbers : attempts[j][n].state \notin {"pending", "running"}
    BY <2>1, PollStep, SameRowsSameState
  <2>2. CASE \E n \in Numbers : attempts[j][n].state \in {"pending", "running"}
    <3>1. JobState(j) = "open"
      BY <2>2, OpenAttemptOpenJob
    <3>2. \A n \in Numbers : attempts'[j][n] # attempts[j][n] =>
            ~SettledRow(attempts'[j][n]) /\ attempts'[j][n].state # "none"
      BY PollStep
    <3>3. /\ \E n \in Numbers : attempts'[j][n].state # "none"
          /\ \A n \in Numbers : ~SettledRow(attempts'[j][n])
      BY <3>1, <3>2, JobStateIs
    <3> QED BY <3>1, <3>3, JobStateNext
  <2> QED BY <2>1, <2>2
<1> QED BY <1>1, PollStep, Invisible

LEMMA FailureGivesUp ==
  ASSUME TypeOK, ChainShape,
         NEW w \in Workers, NEW j \in Jobs, NEW n \in Numbers, NEW t \in Times,
         NEW code \in ErrorCodes, NEW asked \in BOOLEAN,
         FailAttempt(w, j, n, code, asked, t)
  PROVE  Ledger!GiveUp(j) \/ UNCHANGED Ledger!vars
<1>0. Running(j, n) /\ UNCHANGED <<events, tombstones, claims, evidence>>
  BY DEF FailAttempt
<1>1. /\ attempts'[j][n].state = "failed"
      /\ \A m \in Numbers : m # n => attempts'[j][m] = attempts[j][m]
      /\ \A k \in Jobs : k # j => attempts'[k] = attempts[k]
  BY RowFields DEF FailAttempt, TypeOK
<1>2. JobState(j) = "open"
  BY <1>0, OpenAttemptOpenJob DEF Running
<1>3. CASE attempts'[j][n].retryable
  <2>1. JobState(j)' = "open"
    BY <1>1, <1>2, <1>3, JobStateIs, JobStateNext DEF SettledRow
  <2> QED BY <1>0, <1>1, <1>2, <2>1, Invisible, SameRowsSameState
<1>4. CASE ~attempts'[j][n].retryable
  <2>1. JobState(j)' = "dead"
    BY <1>1, <1>2, <1>4, JobStateIs, JobStateNext DEF SettledRow
  <2>2. LifeOfSources' = LifeOfSources /\ StateOfJobs' = [StateOfJobs EXCEPT ![j] = "dead"]
    BY <1>0, <1>1, <2>1, OneJob
  <2>3. StateOfJobs[j] = "open" /\ Support' = Support
    BY <1>0, <1>2 DEF StateOfJobs, Support
  <2> QED BY <1>0, <2>2, <2>3 DEF Ledger!GiveUp
<1> QED BY <1>3, <1>4

LEMMA CompletionFinishes ==
  ASSUME TypeOK, ChainShape,
         NEW w \in Workers, NEW j \in Jobs, NEW n \in Numbers, NEW t \in Times,
         NEW ws \in SUBSET ClaimWrites, CompleteAttempt(w, j, n, t, ws)
  PROVE  \E cs \in SUBSET ClaimIds : Ledger!Finish(j, cs)
<1> DEFINE cs == {v.claim : v \in ws}
<1>0. /\ \A v \in ws : /\ v.claim \in ClaimIds /\ v.content \in Contents
                       /\ SpanSource[v.span] = j[1]
                       /\ claims[v.claim] \in {NoContent, v.content}
      /\ Running(j, n)
      /\ claims' = [c \in ClaimIds |->
                      IF \E v \in ws : v.claim = c
                      THEN (CHOOSE v \in ws : v.claim = c).content
                      ELSE claims[c]]
      /\ evidence' = evidence \cup {<<v.claim, v.span>> : v \in ws}
      /\ attempts' = [attempts EXCEPT ![j][n] = Succeeded(@)]
      /\ UNCHANGED <<events, tombstones>>
  BY IngestionAssumption DEF CompleteAttempt, MayComplete, Agree
<1>1. /\ attempts'[j][n].state = "succeeded"
      /\ \A k \in Jobs : k # j => attempts'[k] = attempts[k]
  BY <1>0, RowFields DEF TypeOK
<1>2. JobState(j) = "open" /\ JobState(j)' = "done"
  BY <1>0, <1>1, OpenAttemptOpenJob, JobStateNext DEF Running
<1>3. /\ LifeOfSources' = LifeOfSources
      /\ StateOfJobs' = [StateOfJobs EXCEPT ![j] = "done"]
      /\ StateOfJobs[j] = "open"
  BY <1>0, <1>1, <1>2, OneJob DEF StateOfJobs
<1>4. Support' = Support \cup (cs \X {j[1]})
  <2>1. ASSUME NEW p PROVE p \in Support' <=> p \in Support \cup (cs \X {j[1]})
    <3>1. p \in Support' <=> \E v \in evidence' : p = <<v[1], SpanSource[v[2]]>>
      BY DEF Support
    <3>2. (\E v \in evidence' : p = <<v[1], SpanSource[v[2]]>>) <=>
            \/ \E v \in evidence : p = <<v[1], SpanSource[v[2]]>>
            \/ \E v \in ws : p = <<v.claim, SpanSource[v.span]>>
      <4>1. \A v \in ws : /\ <<v.claim, v.span>>[1] = v.claim
                          /\ <<v.claim, v.span>>[2] = v.span
        OBVIOUS
      <4>2. evidence' = evidence \cup {<<v.claim, v.span>> : v \in ws}
        BY <1>0
      <4> QED BY <4>1, <4>2
    <3>3. (\E v \in ws : p = <<v.claim, SpanSource[v.span]>>) <=> p \in cs \X {j[1]}
      <4>1. p \in cs \X {j[1]} <=> \E c \in cs : p = <<c, j[1]>>
        OBVIOUS
      <4>2. (\E c \in cs : p = <<c, j[1]>>) <=> \E v \in ws : p = <<v.claim, j[1]>>
        OBVIOUS
      <4> QED BY <1>0, <4>1, <4>2
    <3> QED BY <3>1, <3>2, <3>3 DEF Support
  <2> QED BY <2>1
<1>5. ASSUME NEW c \in ClaimIds
      PROVE  /\ c \in cs => claims'[c] \in Contents
             /\ c \notin cs => claims'[c] = claims[c]
             /\ claims[c] # NoContent => claims'[c] = claims[c]
  <2>1. CASE \E v \in ws : v.claim = c
    <3>1. PICK v \in ws : v.claim = c /\ claims'[c] = v.content
      BY <1>0, <2>1
    <3> QED BY <1>0, <2>1, <3>1
  <2>2. CASE ~\E v \in ws : v.claim = c
    BY <1>0, <2>2
  <2> QED BY <2>1, <2>2
<1>6. cs \in SUBSET ClaimIds
  BY <1>0
<1>7. claims' \in [ClaimIds -> Contents \cup {NoContent}]
  <2>1. \A c \in ClaimIds : claims'[c] \in Contents \cup {NoContent}
    BY <1>5 DEF TypeOK
  <2> QED BY <1>0, <2>1
<1> HIDE DEF cs
<1>8. Ledger!Finish(j, cs)
  BY <1>3, <1>4, <1>5, <1>6, <1>7, IngestionAssumption DEF Ledger!Finish
<1> QED BY <1>6, <1>8

LEMMA DeletionDeletes ==
  ASSUME TypeOK, DeletedIsForgotten, ClaimsAreGrounded,
         NEW s \in SourceIds, DeleteSource(s)
  PROVE  Ledger!Delete(s)
<1>1. PICK e \in events : DeleteSource(s)!(e)
  BY DEF DeleteSource
<1>2. LifeOfSources[s] = "live"
  BY <1>1 DEF MayDelete, LifeOfSources, Life, Live
<1>3. LifeOfSources' = [LifeOfSources EXCEPT ![s] = "deleted"]
  <2>1. Life(s)' = "deleted"
    BY DeletedIsNotLive DEF Life
  <2>2. \A u \in SourceIds : u # s => Life(u)' = Life(u)
    BY DeletedIsNotLive DEF Life
  <2> QED BY <2>1, <2>2 DEF LifeOfSources
<1>4. StateOfJobs' = [j \in Jobs |-> IF j[1] = s THEN "idle" ELSE StateOfJobs[j]]
  <2>1. attempts' = [j \in Jobs |-> IF j[1] = s THEN [n \in Numbers |-> NoRow]
                                    ELSE attempts[j]]
    BY <1>1
  <2>2. \A j \in Jobs : j[1] = s => JobState(j)' = "idle"
    BY <2>1, JobStateNext, RowFields
  <2>3. \A j \in Jobs : j[1] # s => JobState(j)' = JobState(j)
    BY <2>1, SameRowsSameState
  <2> QED BY <2>2, <2>3 DEF StateOfJobs
<1>5. evidence' = {v \in evidence : SpanSource[v[2]] # s}
  BY <1>1 DEF EvidenceOf
<1>6. Support' = {p \in Support : p[2] # s}
  BY <1>5 DEF Support
<1>7. claims' = [c \in ClaimIds |->
                   IF \E p \in Support' : p[1] = c THEN claims[c] ELSE NoContent]
  <2>1. \A c : (\E p \in Support' : p[1] = c) <=> \E v \in evidence' : v[1] = c
    <3>1. Support' = {<<v[1], SpanSource[v[2]]>> : v \in evidence'}
      BY DEF Support
    <3>2. ASSUME NEW c, NEW v \in evidence', v[1] = c
          PROVE  \E p \in Support' : p[1] = c
      <4>1. <<v[1], SpanSource[v[2]]>> \in Support' /\ <<v[1], SpanSource[v[2]]>>[1] = c
        BY <3>1, <3>2
      <4> QED BY <4>1
    <3>3. ASSUME NEW c, NEW p \in Support', p[1] = c
          PROVE  \E v \in evidence' : v[1] = c
      BY <3>1, <3>3
    <3> QED BY <3>2, <3>3
  <2>2. \A c \in ClaimIds : claims'[c] # NoContent <=> \E v \in evidence' : v[1] = c
    BY DeletionKeepsGrounds DEF ClaimsAreGrounded
  <2>3. claims' = [c \in ClaimIds |-> IF c \in Retired(s) THEN NoContent ELSE claims[c]]
    BY <1>1
  <2> QED BY <2>1, <2>2, <2>3
<1> QED BY <1>2, <1>3, <1>4, <1>6, <1>7 DEF Ledger!Delete, Ledger!Jobs, Jobs

LEMMA LedgerStep ==
  ASSUME TypeOK, ChainShape, DeletedIsForgotten, ClaimsAreGrounded, [Next]_vars
  PROVE  [Ledger!Next]_(Ledger!vars)
<1>1. ASSUME NEW r \in Requests, NEW x \in Extractors, Ingest(r, x)
      PROVE  Ledger!Next
  BY <1>1, IngestAccepts, IngestionAssumption DEF Ledger!Next
<1>2. ASSUME NEW j \in Jobs, NEW t \in Times, EnqueueReprocessing(j, t)
      PROVE  Ledger!Next \/ UNCHANGED Ledger!vars
  BY <1>2, ReprocessingOpens DEF Ledger!Next, Ledger!Jobs, Jobs
<1>3. CASE Poll
  BY <1>3, PollIsInvisible
<1>4. ASSUME NEW w \in Workers, NEW j \in Jobs, NEW n \in Numbers, NEW t \in Times,
             NEW code \in ErrorCodes, NEW asked \in BOOLEAN,
             FailAttempt(w, j, n, code, asked, t)
      PROVE  Ledger!Next \/ UNCHANGED Ledger!vars
  BY <1>4, FailureGivesUp DEF Ledger!Next, Ledger!Jobs, Jobs
<1>5. ASSUME NEW w \in Workers, NEW j \in Jobs, NEW n \in Numbers, NEW t \in Times,
             NEW ws \in SUBSET ClaimWrites, CompleteAttempt(w, j, n, t, ws)
      PROVE  Ledger!Next
  BY <1>5, CompletionFinishes DEF Ledger!Next, Ledger!Jobs, Jobs
<1>6. ASSUME NEW s \in SourceIds, DeleteSource(s)
      PROVE  Ledger!Next
  BY <1>6, DeletionDeletes DEF Ledger!Next
<1>7. CASE UNCHANGED vars
  BY <1>7, Invisible, SameRowsSameState DEF vars
<1> QED BY <1>1, <1>2, <1>3, <1>4, <1>5, <1>6, <1>7 DEF Next, Poll

\* Ingestion keeps the promises of the ledger whatever the instance: the first
\* state is the empty ledger, and every transaction is one step of the ledger or
\* invisible to it.
THEOREM LedgerImplemented == Spec => ImplementsLedger
<1>1. Init => Ledger!Init
  <2> SUFFICES ASSUME Init PROVE Ledger!Init
    OBVIOUS
  <2>1. LifeOfSources = [s \in SourceIds |-> "absent"]
    BY DEF Init, LifeOfSources, Life, Live
  <2>2. StateOfJobs = [j \in Jobs |-> "idle"]
    BY RowFields DEF Init, StateOfJobs, JobState, Exists
  <2>3. Support = {}
    BY DEF Init, Support
  <2> QED BY <2>1, <2>2, <2>3 DEF Init, Ledger!Init, Ledger!Jobs, Jobs
<1>2. RowsAgree => ClaimsAreGrounded
  BY DEF RowsAgree
<1> QED BY <1>1, <1>2, LedgerStep, TypeCorrect, ChainAlways, DeletionForgets,
           AgreementAlways, PTL DEF Spec, ImplementsLedger, Ledger!Spec

=============================================================================
