--------------------------- MODULE RetrievalProofs ---------------------------
(***************************************************************************)
(* Theorems of modules Summaries, Retrieval and Answering, for any finite  *)
(* set of sources, any evidence, session boundaries, run keys and          *)
(* questions, and events and builds in any order.  Retrieval records are   *)
(* built of summaries among others, so the theorems of these come first.   *)
(***************************************************************************)
EXTENDS Answering, BeliefsProofs

\* Sessions divide what is visible: Home is the session of a source.

Loose(visible) == {s \in OfType(visible, {"chat"}) : Thread(s) = NoThread}
Openers(visible) == {s \in Loose(visible) : ~Continues(s, OfType(visible, {"chat"}))}
OpenerOf(visible, s) == CHOOSE f \in Openers(visible) :
  /\ ~Earlier(s, f)
  /\ \A g \in Openers(visible) : ~Earlier(s, g) => ~Earlier(f, g)

ById(s) == <<"source", s>>
ByThread(s) == <<"declared", Thread(s)>>

Home(visible, s) ==
  IF SourceType[s] = "email"
  THEN <<"email", "declared_thread_or_source", IF Thread(s) = NoThread THEN ById(s) ELSE ByThread(s)>>
  ELSE IF SourceType[s] # "chat" THEN <<SourceType[s], "source", ById(s)>>
  ELSE IF Thread(s) # NoThread THEN <<"chat", "declared_thread", ByThread(s)>>
  ELSE <<"chat", "inactivity", <<"inactivity", OpenerOf(visible, s)>>>>

At(visible, i) == {s \in visible : Home(visible, s) = i}

LEMMA Pairs == ASSUME NEW a, NEW b, NEW c, NEW d
               PROVE  <<a, b>> = <<c, d>> <=> a = c /\ b = d
OBVIOUS
LEMMA Triples == ASSUME NEW a, NEW b, NEW c, NEW d, NEW e, NEW f
                 PROVE  <<a, b, c>> = <<d, e, f>> <=> a = d /\ b = e /\ c = f
OBVIOUS

LEMMA SessionFields == ASSUME NEW a, NEW b, NEW c, NEW m
                       PROVE  /\ Session(a, b, c, m).id = <<a, b, c>>
                              /\ Session(a, b, c, m).members = m
BY DEF Session

LEMMA AloneSessions ==
  ASSUME NEW visible \in SUBSET Sources,
         NEW D \in Alone(OfType(visible, {"conversation", "calendar"}), "source")
  PROVE  D.members = At(visible, D.id)
<1>1. PICK s \in OfType(visible, {"conversation", "calendar"}) :
        D = Session(SourceType[s], "source", ById(s), {s})
  BY DEF Alone, ById
<1>2. s \in visible /\ SourceType[s] \in {"conversation", "calendar"}
  BY DEF OfType
<1>3. D.id = <<SourceType[s], "source", ById(s)>> /\ D.members = {s}
  BY <1>1, SessionFields
<1>4. ASSUME NEW x \in visible PROVE Home(visible, x) = D.id <=> x = s
  <2>1. CASE SourceType[x] \in {"email", "chat"}
    <3>1. Home(visible, x) # D.id
      BY <1>2, <1>3, <2>1, Triples DEF Home
    <3> QED BY <1>2, <2>1, <3>1
  <2>2. CASE SourceType[x] \notin {"email", "chat"}
    <3>1. Home(visible, x) = <<SourceType[x], "source", ById(x)>>
      BY <2>2 DEF Home
    <3>2. Home(visible, x) = D.id <=> SourceType[x] = SourceType[s] /\ ById(x) = ById(s)
      BY <1>3, <3>1, Triples
    <3> QED BY <3>2, Pairs DEF ById
  <2> QED BY <2>1, <2>2
<1> QED BY <1>2, <1>3, <1>4 DEF At
LEMMA ThreadedSessions ==
  ASSUME NEW visible \in SUBSET Sources, NEW type \in {"email", "chat"}, NEW kind,
         type = "email" => kind = "declared_thread_or_source",
         type = "chat" => kind = "declared_thread",
         NEW D \in Threaded(OfType(visible, {type}), type, kind)
  PROVE  D.members = At(visible, D.id)
<1> DEFINE typed == OfType(visible, {type})
<1>1. PICK k \in {Thread(s) : s \in typed} \ {NoThread} :
        D = Session(type, kind, <<"declared", k>>, {s \in typed : Thread(s) = k})
  BY DEF Threaded
<1>2. D.id = <<type, kind, <<"declared", k>>>> /\ D.members = {s \in typed : Thread(s) = k}
  <2> DEFINE m == {s \in typed : Thread(s) = k}
             i == <<"declared", k>>
  <2>1. D = Session(type, kind, i, m)
    BY <1>1
  <2> HIDE DEF m, i
  <2>2. D.id = <<type, kind, i>> /\ D.members = m
    BY <2>1, SessionFields
  <2> QED BY <2>2 DEF m, i
<1>3. ASSUME NEW x \in visible PROVE Home(visible, x) = D.id <=> SourceType[x] = type /\ Thread(x) = k
  <2>1. CASE SourceType[x] = type /\ Thread(x) # NoThread
    <3>1. Home(visible, x) = <<type, kind, ByThread(x)>>
      BY <2>1 DEF Home
    <3>2. Home(visible, x) = D.id <=> ByThread(x) = <<"declared", k>>
      BY <1>2, <3>1, Triples
    <3> QED BY <2>1, <3>2, Pairs DEF ByThread
  <2>2. CASE SourceType[x] = type /\ Thread(x) = NoThread
    <3>1. Home(visible, x) # D.id
      <4>1. CASE type = "email"
        <5>1. Home(visible, x) = <<"email", "declared_thread_or_source", ById(x)>>
          BY <2>2, <4>1 DEF Home
        <5>2. ById(x) # <<"declared", k>>
          BY Pairs DEF ById
        <5> QED BY <1>2, <5>1, <5>2, Triples
      <4>2. CASE type = "chat"
        <5>1. Home(visible, x) = <<"chat", "inactivity", <<"inactivity", OpenerOf(visible, x)>>>>
          BY <2>2, <4>2 DEF Home
        <5> QED BY <1>2, <4>2, <5>1, Triples
      <4> QED BY <4>1, <4>2
    <3> QED BY <1>1, <2>2, <3>1
  <2>3. CASE SourceType[x] # type
    <3>1. \E b, c : Home(visible, x) = <<SourceType[x], b, c>>
      BY Zenon DEF Home
    <3> QED BY <1>2, <2>3, <3>1, Triples
  <2> QED BY <2>1, <2>2, <2>3
<1> QED BY <1>2, <1>3 DEF At, OfType

LEMMA LoneEmails ==
  ASSUME NEW visible \in SUBSET Sources,
         NEW D \in Alone({s \in OfType(visible, {"email"}) : Thread(s) = NoThread},
                         "declared_thread_or_source")
  PROVE  D.members = At(visible, D.id)
<1>1. PICK s \in {x \in OfType(visible, {"email"}) : Thread(x) = NoThread} :
        D = Session(SourceType[s], "declared_thread_or_source", ById(s), {s})
  BY DEF Alone, ById
<1>2. s \in visible /\ SourceType[s] = "email" /\ Thread(s) = NoThread
  BY DEF OfType
<1>3. D.id = <<"email", "declared_thread_or_source", ById(s)>> /\ D.members = {s}
  BY <1>1, <1>2, SessionFields
<1>4. ASSUME NEW x \in visible PROVE Home(visible, x) = D.id <=> x = s
  <2>1. CASE SourceType[x] = "email"
    <3> DEFINE key == IF Thread(x) = NoThread THEN ById(x) ELSE ByThread(x)
    <3>1. Home(visible, x) = <<"email", "declared_thread_or_source", key>>
      BY <2>1 DEF Home
    <3>2. key = ById(s) <=> x = s
      BY <1>2, Pairs DEF ById, ByThread
    <3> HIDE DEF key
    <3> QED BY <1>3, <3>1, <3>2, Triples
  <2>2. CASE SourceType[x] # "email"
    <3>1. \E a, b, c : Home(visible, x) = <<a, b, c>> /\ a # "email"
      BY <2>2, Zenon DEF Home
    <3> QED BY <1>2, <1>3, <2>2, <3>1, Triples
  <2> QED BY <2>1, <2>2
<1> QED BY <1>2, <1>3, <1>4 DEF At

LEMMA InactivitySessions ==
  ASSUME NEW visible \in SUBSET Sources, NEW f \in Openers(visible),
         NEW D, D = Session("chat", "inactivity", <<"inactivity", f>>,
                            {s \in Loose(visible) : OpenerOf(visible, s) = f})
  PROVE  D.members = At(visible, D.id)
<1>1. /\ D.id = <<"chat", "inactivity", <<"inactivity", f>>>>
      /\ D.members = {s \in Loose(visible) : OpenerOf(visible, s) = f}
  BY SessionFields
<1>2. ASSUME NEW x \in visible
      PROVE  Home(visible, x) = D.id <=> x \in Loose(visible) /\ OpenerOf(visible, x) = f
  <2>1. CASE x \in Loose(visible)
    <3>1. Home(visible, x) = <<"chat", "inactivity", <<"inactivity", OpenerOf(visible, x)>>>>
      BY <2>1 DEF Home, Loose, OfType
    <3> QED BY <1>1, <2>1, <3>1, Triples, Pairs
  <2>2. CASE x \notin Loose(visible)
    <3>1. SourceType[x] # "chat" \/ Thread(x) # NoThread
      BY <2>2 DEF Loose, OfType
    <3>2. \E a, b, c : Home(visible, x) = <<a, b, c>> /\ (a # "chat" \/ b = "declared_thread")
      BY <3>1, Zenon DEF Home
    <3> QED BY <1>1, <2>2, <3>2, Triples
  <2> QED BY <2>1, <2>2
<1> QED BY <1>1, <1>2 DEF At, Loose, OfType

\* The sessions of chats, with the operators above in the place of its LET.
LEMMA ChatSessionsAre ==
  ASSUME NEW visible
  PROVE  ChatSessions(visible) =
           Threaded(OfType(visible, {"chat"}), "chat", "declared_thread") \cup
           {Session("chat", "inactivity", <<"inactivity", f>>,
                    {s \in Loose(visible) : OpenerOf(visible, s) = f}) : f \in Openers(visible)}
BY DEF ChatSessions, Loose, Openers, OpenerOf

\* A session has what its id says: no two have one id, and none share a source.
LEMMA SessionsDivide ==
  ASSUME NEW visible \in SUBSET Sources
  PROVE  /\ \A D \in Definitions(visible) :
              D.members = At(visible, D.id) /\ D.members \subseteq visible
         /\ \A D, E \in Definitions(visible) : D.id = E.id => D = E
         /\ \A D, E \in Definitions(visible) : D # E => D.members \cap E.members = {}
<1>1. ASSUME NEW D \in Definitions(visible)
      PROVE  D.members = At(visible, D.id)
  <2>1. CASE D \in Alone(OfType(visible, {"conversation", "calendar"}), "source")
    BY <2>1, AloneSessions
  <2>2. CASE D \in EmailSessions(visible)
    BY <2>2, ThreadedSessions, LoneEmails DEF EmailSessions
  <2>3. CASE D \in ChatSessions(visible)
    <3>1. CASE D \in Threaded(OfType(visible, {"chat"}), "chat", "declared_thread")
      BY <3>1, ThreadedSessions
    <3>2. CASE \E f \in Openers(visible) :
                 D = Session("chat", "inactivity", <<"inactivity", f>>,
                             {s \in Loose(visible) : OpenerOf(visible, s) = f})
      BY <3>2, InactivitySessions
    <3> QED BY <2>3, <3>1, <3>2, ChatSessionsAre
  <2> QED BY <2>1, <2>2, <2>3 DEF Definitions
<1>2. \A i : At(visible, i) \subseteq visible
  BY DEF At
<1>3. \A D \in Definitions(visible) : D = [id |-> D.id, members |-> D.members]
  BY DEF Definitions, Alone, EmailSessions, ChatSessions, Threaded, Session
<1>4. \A i, j : i # j => At(visible, i) \cap At(visible, j) = {}
  BY DEF At
<1>5. \A D, E \in Definitions(visible) : D.id = E.id => D = E
  BY <1>1, <1>3
<1> QED BY <1>1, <1>2, <1>4, <1>5

\* A finite set has an element that nothing in it comes before.
LEMMA FirstExists ==
  ASSUME NEW Q, IsFiniteSet(Q), Q # {}, NEW R,
         \A x \in Q : <<x, x>> \notin R,
         \A x, y, z \in Q : <<x, y>> \in R /\ <<y, z>> \in R => <<x, z>> \in R
  PROVE  \E f \in Q : \A x \in Q : <<x, f>> \notin R
<1> DEFINE Before(x) == {y \in Q : <<y, x>> \in R}
<1>1. \A x \in Q : IsFiniteSet(Before(x)) /\ Cardinality(Before(x)) \in Nat
  <2> SUFFICES ASSUME NEW x \in Q PROVE IsFiniteSet(Before(x)) /\ Cardinality(Before(x)) \in Nat
    OBVIOUS
  <2>1. Before(x) \subseteq Q
    OBVIOUS
  <2> HIDE DEF Before
  <2> QED BY <2>1, FS_Subset, FS_CardinalityType
<1>2. \A x, y \in Q : <<x, y>> \in R =>
        Before(x) \subseteq Before(y) /\ x \in Before(y) /\ x \notin Before(x)
  OBVIOUS
<1> HIDE DEF Before
<1> DEFINE B == {Cardinality(Before(x)) : x \in Q}
<1>3. PICK n \in B : \A m \in B : n <= m
  <2>1. B \in SUBSET Nat /\ B # {}
    BY <1>1
  <2> HIDE DEF B
  <2> QED BY <2>1, LeastNumber
<1>4. PICK f \in Q : n = Cardinality(Before(f))
  OBVIOUS
<1>5. SUFFICES ASSUME NEW x \in Q, <<x, f>> \in R PROVE FALSE
  OBVIOUS
<1>6. Before(x) \subseteq Before(f) /\ x \in Before(f) /\ x \notin Before(x)
  BY <1>5, <1>2
<1>7. n <= Cardinality(Before(x))
  BY <1>3
<1> HIDE DEF B
<1>8. /\ Cardinality(Before(x)) <= Cardinality(Before(f))
      /\ Cardinality(Before(x)) = Cardinality(Before(f)) => Before(f) = Before(x)
  BY <1>1, <1>6, FS_Subset
<1>9. Cardinality(Before(x)) = Cardinality(Before(f))
  BY <1>1, <1>4, <1>7, <1>8
<1> QED BY <1>6, <1>8, <1>9

LEMMA EarlierOrders ==
  /\ \A x \in Sources : ~Earlier(x, x)
  /\ \A x, y, z \in Sources : Earlier(x, y) /\ Earlier(y, z) => Earlier(x, z)
<1>1. \A x \in Sources : ProducedAt[x] \in Int /\ IdOrder[x] \in Int
  BY SessionsAssumption
<1> QED BY <1>1 DEF Earlier

\* The first unthreaded chat opens a session, so each has an opener before it.
LEMMA OpenersExist ==
  ASSUME NEW visible \in SUBSET Sources, NEW s \in Loose(visible)
  PROVE  OpenerOf(visible, s) \in Openers(visible)
<1> DEFINE chats == OfType(visible, {"chat"})
           Q == {x \in Loose(visible) : ~Earlier(s, x)}
           R == {p \in Q \X Q : Earlier(p[1], p[2])}
           O == {g \in Openers(visible) : ~Earlier(s, g)}
           U == {p \in O \X O : Earlier(p[2], p[1])}
<1>1. Loose(visible) \subseteq Sources /\ Openers(visible) \subseteq Loose(visible)
  BY DEF Loose, Openers, OfType
<1>2. IsFiniteSet(Q) /\ IsFiniteSet(O)
  <2>1. Q \subseteq Sources /\ O \subseteq Sources /\ IsFiniteSet(Sources)
    BY <1>1, SessionsAssumption
  <2> HIDE DEF Q, O
  <2> QED BY <2>1, FS_Subset
<1>3. s \in Q
  BY <1>1, EarlierOrders
<1>4. PICK f \in Q : \A x \in Q : ~Earlier(x, f)
  <2>1. \A x, y \in Q : <<x, y>> \in R <=> Earlier(x, y)
    OBVIOUS
  <2>2. \A x \in Q : x \in Sources
    BY <1>1
  <2> HIDE DEF Q, R
  <2>3. \E f \in Q : \A x \in Q : <<x, f>> \notin R
    BY <1>2, <1>3, <2>1, <2>2, EarlierOrders, FirstExists
  <2> QED BY <2>1, <2>3
<1>5. f \in O
  <2>1. ~Continues(f, chats)
    <3> SUFFICES ASSUME NEW p \in chats, Earlier(p, f), Thread(p) = NoThread PROVE FALSE
      BY DEF Continues
    <3>1. p \in Loose(visible) /\ p \in Sources
      BY <1>1 DEF Loose
    <3>2. ~Earlier(s, p)
      BY <1>1, <3>1, EarlierOrders
    <3> QED BY <1>4, <3>1, <3>2
  <2> QED BY <2>1 DEF Openers
<1>6. \E g \in O : \A h \in O : ~Earlier(g, h)
  <2>1. \A x, y \in O : <<x, y>> \in U <=> Earlier(y, x)
    OBVIOUS
  <2>2. \A x \in O : x \in Sources
    BY <1>1
  <2> HIDE DEF O, U
  <2>3. \A x, y, z \in O : <<x, y>> \in U /\ <<y, z>> \in U => <<x, z>> \in U
    BY <2>1, <2>2, EarlierOrders
  <2>4. \A x \in O : <<x, x>> \notin U
    BY <2>1, <2>2, EarlierOrders
  <2>5. \E g \in O : \A x \in O : <<x, g>> \notin U
    BY <1>2, <1>5, <2>3, <2>4, FirstExists
  <2> QED BY <2>1, <2>5
<1>7. \E g \in Openers(visible) :
        /\ ~Earlier(s, g)
        /\ \A h \in Openers(visible) : ~Earlier(s, h) => ~Earlier(g, h)
  BY <1>6
<1> QED BY <1>7 DEF OpenerOf

LEMMA SessionsCover ==
  ASSUME NEW visible \in SUBSET Sources, NEW s \in visible
  PROVE  \E D \in Definitions(visible) : s \in D.members
<1>0. SourceType[s] \in SourceTypes
  BY SessionsAssumption
<1>1. CASE SourceType[s] \in {"conversation", "calendar"}
  <2> DEFINE D == Session(SourceType[s], "source", <<"source", s>>, {s})
  <2>1. D \in Definitions(visible)
    BY <1>1 DEF Definitions, Alone, OfType
  <2> QED BY <2>1 DEF Session
<1>2. CASE SourceType[s] \in {"email", "chat"} /\ Thread(s) # NoThread
  <2> DEFINE Ms(type) == {x \in OfType(visible, {type}) : Thread(x) = Thread(s)}
  <2>1. s \in OfType(visible, {SourceType[s]})
    BY DEF OfType
  <2>2. \A kind : Session(SourceType[s], kind, <<"declared", Thread(s)>>, Ms(SourceType[s])) \in
          Threaded(OfType(visible, {SourceType[s]}), SourceType[s], kind)
    BY <1>2, <2>1 DEF Threaded
  <2>3. \E kind : Session(SourceType[s], kind, <<"declared", Thread(s)>>, Ms(SourceType[s])) \in
          Definitions(visible)
    BY <1>2, <2>2, ChatSessionsAre DEF Definitions, EmailSessions
  <2> QED BY <2>1, <2>3 DEF Session
<1>3. CASE SourceType[s] = "email" /\ Thread(s) = NoThread
  <2> DEFINE D == Session(SourceType[s], "declared_thread_or_source", <<"source", s>>, {s})
  <2>1. D \in Definitions(visible)
    BY <1>3 DEF Definitions, EmailSessions, Alone, OfType
  <2> QED BY <2>1 DEF Session
<1>4. CASE SourceType[s] = "chat" /\ Thread(s) = NoThread
  <2> DEFINE f == OpenerOf(visible, s)
             ms == {x \in Loose(visible) : OpenerOf(visible, x) = f}
             D == Session("chat", "inactivity", <<"inactivity", f>>, ms)
  <2>1. s \in Loose(visible)
    BY <1>4 DEF Loose, OfType
  <2>2. f \in Openers(visible)
    BY <2>1, OpenersExist
  <2>3. D \in ChatSessions(visible)
    BY <2>2, ChatSessionsAre
  <2> QED BY <2>1, <2>3 DEF Definitions, Session
<1> QED BY <1>0, <1>1, <1>2, <1>3, <1>4 DEF SourceTypes

-----------------------------------------------------------------------------
\* The invariant.

\* What the outbox is read from.
OutboxIsDated ==
  /\ deletedAt \in [Sources -> Times \cup {Open}]
  /\ \A s \in forgotten : deletedAt[s] \in Times
  /\ \A q \in requeued : q.source \in forgotten
  /\ \A e \in evidence : e[2] \notin forgotten

\* y is told by versions S and evidence ev.
Supported(y, S, ev) ==
  /\ <<y[1].claim, y[2]>> \in ev /\ y[1].claim \notin Omitted
  /\ \E v \in S : v = [y[1] EXCEPT !.to = v.to]

GoodSummary(x) ==
  /\ x = [session |-> x.session, event |-> x.event, input |-> x.input, to |-> x.to]
  /\ x.input.at \in Times /\ x.to \in Times \cup {Open} /\ x.input.at < x.to
  /\ x.input.members \subseteq Sources /\ x.input.members # {}
  /\ \A s \in x.input.members : IngestedAt[s] <= x.input.at
  /\ x.input.told # {} /\ x.input.told \subseteq Version \X x.input.members
  /\ \A y \in x.input.told : y[1].status # "excluded"
  /\ \A cs \in x.input.sides :
       /\ cs \subseteq {y[1].claim : y \in Disputed(x.input.told)}
       /\ \E c, d \in cs : c # d

Rooted(x, S, ev, gone) ==
  /\ x.input.members \cap gone = {}
  /\ \A y \in x.input.told : Supported(y, S, ev)

InSequence(X) ==
  \A x, y \in X : x # y /\ x.input.at < y.to /\ y.input.at < x.to => x.session # y.session

SInv ==
  /\ BInv /\ OutboxIsDated
  /\ \A x \in summaries : GoodSummary(x) /\ Rooted(x, versions, evidence, forgotten)
  /\ InSequence(summaries)

LEMMA SInvSound == SInv => SummariesAreGrounded /\ SummaryTimelines
<1> SUFFICES ASSUME SInv PROVE SummariesAreGrounded /\ SummaryTimelines
  OBVIOUS
<1>1. SummariesTypeOK
  BY DEF SInv, OutboxIsDated, GoodSummary, SummariesTypeOK
<1>2. SummariesAreGrounded
  BY <1>1 DEF SInv, Rooted, Supported, SummariesAreGrounded
<1> QED BY <1>2 DEF SInv, GoodSummary, InSequence, SummaryTimelines

\* u and v are one version, but for its end.
LEMMA OneVersion ==
  ASSUME NEW v \in Version, NEW u, u = [v EXCEPT !.to = u.to]
  PROVE  /\ u.claim = v.claim /\ u.key = v.key /\ u.status = v.status
         /\ \A w : w = [u EXCEPT !.to = w.to] => w = [v EXCEPT !.to = w.to]
<1>1. \A a : LET w == [v EXCEPT !.to = a]
             IN  w.claim = v.claim /\ w.key = v.key /\ w.status = v.status
  BY DEF Version
<1>2. \A a, b : [[v EXCEPT !.to = a] EXCEPT !.to = b] = [v EXCEPT !.to = b]
  BY DEF Version
<1>3. \A b : [u EXCEPT !.to = b] = [v EXCEPT !.to = b]
  BY <1>2
<1> QED BY <1>1, <1>3

-----------------------------------------------------------------------------
\* What is between deletions, and what deletions are, leaves summaries rooted.

LEMMA DecisionsLeaveRoots ==
  ASSUME SInv, AllKept, NEW x \in summaries
  PROVE  Rooted(x, versions', evidence', forgotten')
<1>1. GoodSummary(x) /\ Rooted(x, versions, evidence, forgotten)
  BY DEF SInv
<1>2. UNCHANGED <<evidence, forgotten>> /\ Keeps(versions, versions')
  BY DEF AllKept
<1>3. ASSUME NEW y \in x.input.told
      PROVE  \E w \in versions' : w = [y[1] EXCEPT !.to = w.to]
  <2>1. PICK v \in versions : v = [y[1] EXCEPT !.to = v.to]
    BY <1>1 DEF Rooted, Supported
  <2>2. PICK w \in versions' : w = [v EXCEPT !.to = w.to]
    BY <1>2 DEF Keeps
  <2>3. y[1] \in Version
    BY <1>1 DEF GoodSummary
  <2> QED BY <2>1, <2>2, <2>3, OneVersion
<1>4. \A y \in x.input.told : Supported(y, versions', evidence')
  <2> SUFFICES ASSUME NEW y \in x.input.told PROVE Supported(y, versions', evidence')
    OBVIOUS
  <2>1. Supported(y, versions, evidence)
    BY <1>1 DEF Rooted
  <2> QED BY <1>2, <1>3, <2>1 DEF Supported
<1> QED BY <1>1, <1>2, <1>4 DEF Rooted

LEMMA DeletionsLeaveRoots ==
  ASSUME SInv, NEW s \in Sources, NEW t, Erase(s, t), NEW x \in summaries'
  PROVE  x \in summaries /\ Rooted(x, versions', evidence', forgotten')
<1>1. x \in summaries /\ s \notin x.input.members /\ DeleteSource(s) /\ Unprotected(s)
  BY DEF Erase, Purged
<1>2. GoodSummary(x) /\ Rooted(x, versions, evidence, forgotten) /\ versions \subseteq Version
  BY <1>1 DEF SInv, BInv, TypeOK
<1>3. /\ evidence' = {e \in evidence : e[2] # s} /\ forgotten' = forgotten \cup {s}
      /\ \A v \in versions \ Unmade(Undone(s)) :
           \/ \E w \in versions' : w = [v EXCEPT !.to = w.to]
           \/ \A e \in evidence' : e[1] # v.claim
  BY <1>1, DeleteStep DEF SInv
<1>4. ASSUME NEW y \in x.input.told
      PROVE  Supported(y, versions', evidence')
  <2>1. y[1] \in Version /\ y[2] \in x.input.members
    BY <1>2 DEF GoodSummary
  <2>2. <<y[1].claim, y[2]>> \in evidence' /\ y[1].claim \notin Omitted
    BY <1>1, <1>2, <1>3, <2>1 DEF Rooted, Supported
  <2>3. PICK v \in versions : v = [y[1] EXCEPT !.to = v.to]
    BY <1>2 DEF Rooted, Supported
  <2>4. v.claim = y[1].claim /\ v.key = y[1].key
    BY <2>1, <2>3, OneVersion
  <2>5. v \notin Unmade(Undone(s))
    BY <1>1, <2>4 DEF Unprotected, Cites
  <2>6. ~\A e \in evidence' : e[1] # v.claim
    BY <2>2, <2>4
  <2>7. PICK w \in versions' : w = [v EXCEPT !.to = w.to]
    BY <1>3, <2>5, <2>6
  <2>8. w = [y[1] EXCEPT !.to = w.to]
    BY <2>1, <2>3, <2>7, OneVersion
  <2> QED BY <2>2, <2>8 DEF Supported
<1> QED BY <1>1, <1>2, <1>3, <1>4 DEF Rooted

\* An event has an instant.
LEMMA OutboxTimes == ASSUME SInv, NEW e \in Outbox PROVE e.at \in Times
<1>1. \A s \in Sources : IngestedAt[s] \in Times
  BY LifecycleAssumption
<1>2. /\ \A s \in forgotten : deletedAt[s] \in Times
      /\ \A q \in requeued : deletedAt[q.source] \in Times
  BY DEF SInv, OutboxIsDated
<1>3. /\ \A a \in transitions : a.at \in Times
      /\ \A r \in resolutions : r.at \in Times
  BY DEF SInv, BInv, TypeOK, Audit, Founded, GoodResolution
<1> QED BY <1>1, <1>2, <1>3 DEF Outbox

-----------------------------------------------------------------------------
\* A rebuild from event e stores New and closes what is Shut.

New(D, e) == [session |-> D.id, event |-> e.id, input |-> Input(D, e.at), to |-> Open]
Shut(x, e) == [x EXCEPT !.to = e.at]

LEMMA InputFields ==
  ASSUME NEW D, NEW at
  PROVE  /\ Input(D, at).at = at /\ Input(D, at).members = D.members
         /\ Input(D, at).told = Told(D, at)
         /\ Input(D, at).sides = {Sides(D, at, x[1].claim) : x \in Disputed(Told(D, at))}
BY DEF Input

LEMMA NewFields ==
  ASSUME NEW D, NEW e
  PROVE  /\ New(D, e).session = D.id /\ New(D, e).event = e.id
         /\ New(D, e).input = Input(D, e.at) /\ New(D, e).to = Open
BY DEF New

LEMMA SidesOfAClaim ==
  ASSUME NEW D, NEW at, NEW x \in Rows(D, at)
  PROVE  x[1].claim \in Sides(D, at, x[1].claim)
BY DEF Sides

LEMMA NewIsGood ==
  ASSUME SInv, NEW e \in Outbox, NEW D \in Definitions(Visible(e.at)),
         Told(D, e.at) # {}, Consistent(D, e.at)
  PROVE  GoodSummary(New(D, e)) /\ Rooted(New(D, e), versions, evidence, forgotten)
<1> DEFINE told == Told(D, e.at)
           x == New(D, e)
<1>1. /\ x.session = D.id /\ x.event = e.id /\ x.to = Open
      /\ x.input.at = e.at /\ x.input.members = D.members /\ x.input.told = told
      /\ x.input.sides = {Sides(D, e.at, y[1].claim) : y \in Disputed(told)}
      /\ x = [session |-> x.session, event |-> x.event, input |-> x.input, to |-> x.to]
  BY NewFields, InputFields DEF New
<1>2. versions \subseteq Version /\ e.at \in Times /\ e.at < Open
  BY OutboxTimes, LifecycleAssumption DEF SInv, BInv, TypeOK, Times, Open
<1>3. /\ D.members \subseteq Sources /\ D.members \cap forgotten = {}
      /\ \A s \in D.members : IngestedAt[s] <= e.at
  <2>1. /\ Visible(e.at) \subseteq Sources /\ Visible(e.at) \cap forgotten = {}
        /\ \A s \in Visible(e.at) : IngestedAt[s] <= e.at
    BY DEF Visible
  <2> QED BY <2>1, SessionsDivide
<1>4. told \subseteq Rows(D, e.at) /\ Rows(D, e.at) \subseteq versions \X D.members
  BY DEF Told, Rows
<1>5. D.members # {}
  BY <1>4
<1>6. ASSUME NEW y \in told PROVE Supported(y, versions, evidence)
  <2>1. /\ y[1] \in versions /\ <<y[1].claim, y[2]>> \in evidence /\ y[1].claim \notin Omitted
    BY <1>6 DEF Told, Rows
  <2>2. \A v \in versions : v = [v EXCEPT !.to = v.to]
    BY <1>2 DEF Version
  <2> QED BY <2>1, <2>2 DEF Supported
<1>7. ASSUME NEW y \in Disputed(told)
      PROVE  LET cs == Sides(D, e.at, y[1].claim)
             IN  cs \subseteq {z[1].claim : z \in Disputed(told)} /\ \E c, d \in cs : c # d
  <2>1. y \in Disputed(Rows(D, e.at)) /\ y \in Rows(D, e.at)
    BY <1>4, <1>7 DEF Disputed
  <2>2. y[1].claim \in Sides(D, e.at, y[1].claim)
    BY <2>1, SidesOfAClaim
  <2>3. /\ Sides(D, e.at, y[1].claim) # {y[1].claim}
        /\ Sides(D, e.at, y[1].claim) \subseteq {z[1].claim : z \in Disputed(told)}
    BY <1>7, <2>1 DEF Consistent
  <2> QED BY <2>2, <2>3
<1>8. told # {} /\ \A y \in told : y[1].status # "excluded"
  BY DEF Told
<1> HIDE DEF x, told
<1>9. told \subseteq Version \X D.members
  BY <1>2, <1>4
<1>10. \A cs \in x.input.sides :
        /\ cs \subseteq {y[1].claim : y \in Disputed(x.input.told)}
        /\ \E c, d \in cs : c # d
  BY <1>1, <1>7
<1>11. GoodSummary(x)
  BY <1>1, <1>2, <1>3, <1>5, <1>9, <1>10, <1>8 DEF GoodSummary
<1>12. Rooted(x, versions, evidence, forgotten)
  BY <1>1, <1>3, <1>6 DEF Rooted
<1> QED BY <1>11, <1>12 DEF x

LEMMA ShutFields ==
  ASSUME NEW x, GoodSummary(x), NEW e
  PROVE  /\ Shut(x, e).session = x.session /\ Shut(x, e).event = x.event
         /\ Shut(x, e).input = x.input /\ Shut(x, e).to = e.at
         /\ Shut(x, e) = [session |-> x.session, event |-> x.event, input |-> x.input, to |-> e.at]
<1> DEFINE a == x.session
           b == x.event
           c == x.input
           d == x.to
<1>1. x = [session |-> a, event |-> b, input |-> c, to |-> d]
  BY DEF GoodSummary
<1> HIDE DEF a, b, c, d
<1>2. Shut(x, e) = [session |-> a, event |-> b, input |-> c, to |-> e.at]
  BY <1>1 DEF Shut
<1> QED BY <1>2 DEF a, b, c, d

LEMMA ShutIsGood ==
  ASSUME NEW x, GoodSummary(x), NEW e, e.at \in Times, x.input.at < e.at
  PROVE  GoodSummary(Shut(x, e))
<1> DEFINE z == Shut(x, e)
<1>1. /\ z.session = x.session /\ z.event = x.event /\ z.input = x.input /\ z.to = e.at
      /\ z = [session |-> x.session, event |-> x.event, input |-> x.input, to |-> e.at]
  BY ShutFields
<1> HIDE DEF z
<1>2. z = [session |-> z.session, event |-> z.event, input |-> z.input, to |-> z.to]
  BY <1>1
<1>3. GoodSummary(z)
  BY <1>1, <1>2 DEF GoodSummary
<1> QED BY <1>3 DEF z

\* What is stored after a rebuild.
LEMMA ProcessParts ==
  ASSUME SInv, NEW e, Process(e)
  PROVE  LET Ds == Definitions(Visible(e.at))
         IN  /\ UNCHANGED <<beliefVars, deletedAt>>
             /\ summaries' = (summaries \ Closing(Ds, e)) \cup {Shut(x, e) : x \in Closing(Ds, e)}
                                \cup {New(D, e) : D \in Fresh(Ds, e)}
             /\ \A D \in Ds : Rows(D, e.at) # {} =>
                  Consistent(D, e.at) /\ \A x \in Keyed(D, e) : x.input = Input(D, e.at)
             /\ \A x \in Closing(Ds, e) :
                  x \in summaries /\ x.to = Open /\ x.input.at < e.at
             /\ \A D \in Fresh(Ds, e) :
                  /\ D \in Ds /\ Told(D, e.at) # {} /\ Rows(D, e.at) # {} /\ Keyed(D, e) = {}
                  /\ \A x \in summaries :
                       x.session = D.id => x \in Closing(Ds, e) \/ (x.to # Open /\ x.to <= e.at)
<1> DEFINE Ds == Definitions(Visible(e.at))
<1>1. /\ UNCHANGED <<beliefVars, deletedAt>> /\ Succeeds(Ds, e)
      /\ \A D \in Ds : Rows(D, e.at) # {} =>
           Consistent(D, e.at) /\ \A x \in Keyed(D, e) : x.input = Input(D, e.at)
      /\ summaries' = (summaries \ Closing(Ds, e)) \cup {Shut(x, e) : x \in Closing(Ds, e)}
                         \cup {New(D, e) : D \in Fresh(Ds, e)}
  BY DEF Process, Shut, New
<1>2. \A D, E \in Ds : D.id = E.id => D = E
  <2>1. Visible(e.at) \in SUBSET Sources
    BY DEF Visible
  <2> QED BY <2>1, SessionsDivide
<1> HIDE DEF Ds
<1>3. \A x \in Closing(Ds, e) : x \in summaries /\ x.to = Open /\ x.input.at < e.at
  BY <1>1 DEF Succeeds, Closing, OpenSummaries
<1>4. ASSUME NEW D \in Fresh(Ds, e)
      PROVE  /\ D \in Ds /\ Told(D, e.at) # {} /\ Rows(D, e.at) # {} /\ Keyed(D, e) = {}
             /\ \A x \in summaries :
                  x.session = D.id => x \in Closing(Ds, e) \/ (x.to # Open /\ x.to <= e.at)
  <2>1. D \in Ds /\ Told(D, e.at) # {} /\ Keyed(D, e) = {}
    BY <1>4 DEF Fresh
  <2>2. Rows(D, e.at) # {}
    BY <2>1 DEF Told
  <2>3. ASSUME NEW x \in summaries, x.session = D.id, x.to = Open PROVE x \in Closing(Ds, e)
    BY <1>2, <1>4, <2>1, <2>3 DEF Closing, OpenSummaries
  <2>4. ASSUME NEW x \in summaries, x.session = D.id, x.to # Open PROVE x.to <= e.at
    BY <1>1, <1>4, <2>4 DEF Succeeds, OpenSummaries
  <2>5. \A x \in summaries :
          x.session = D.id => x \in Closing(Ds, e) \/ (x.to # Open /\ x.to <= e.at)
    <3> SUFFICES ASSUME NEW x \in summaries, x.session = D.id
                 PROVE  x \in Closing(Ds, e) \/ (x.to # Open /\ x.to <= e.at)
      OBVIOUS
    <3>1. CASE x.to = Open
      BY <2>3, <3>1
    <3>2. CASE x.to # Open
      BY <2>4, <3>2
    <3> QED BY <3>1, <3>2
  <2> QED BY <2>1, <2>2, <2>5, Zenon
<1> QED BY <1>1, <1>3, <1>4 DEF Ds

LEMMA Clocks == \A t \in Times : t \in Int /\ Open \in Int /\ t < Open
BY LifecycleAssumption DEF Times, Open

LEMMA ProcessStep == ASSUME SInv, NEW e \in Outbox, Process(e) PROVE SInv'
<1> DEFINE Ds == Definitions(Visible(e.at))
           C == Closing(Ds, e)
           F == Fresh(Ds, e)
<1>1. /\ UNCHANGED <<beliefVars, deletedAt>>
      /\ summaries' = (summaries \ C) \cup {Shut(x, e) : x \in C} \cup {New(D, e) : D \in F}
      /\ \A D \in Ds : Rows(D, e.at) # {} => Consistent(D, e.at)
      /\ \A x \in C : x \in summaries /\ x.to = Open /\ x.input.at < e.at
      /\ \A D \in F :
           /\ D \in Ds /\ Told(D, e.at) # {} /\ Rows(D, e.at) # {}
           /\ \A x \in summaries : x.session = D.id => x \in C \/ (x.to # Open /\ x.to <= e.at)
  BY ProcessParts
<1>2. e.at \in Times
  BY OutboxTimes
<1>3. \A x \in summaries : GoodSummary(x) /\ Rooted(x, versions, evidence, forgotten)
  BY DEF SInv
<1>4. \A D, E \in Ds : D.id = E.id => D = E
  <2>1. Visible(e.at) \in SUBSET Sources
    BY DEF Visible
  <2> QED BY <2>1, SessionsDivide
<1>5. \A x \in C : /\ GoodSummary(Shut(x, e)) /\ Shut(x, e).to = e.at
                   /\ Shut(x, e).session = x.session /\ Shut(x, e).input = x.input
  BY <1>1, <1>2, <1>3, ShutFields, ShutIsGood
<1>6. \A D \in F : /\ GoodSummary(New(D, e)) /\ Rooted(New(D, e), versions, evidence, forgotten)
                   /\ New(D, e).session = D.id /\ New(D, e).input.at = e.at /\ New(D, e).to = Open
  BY <1>1, NewIsGood, NewFields, InputFields
<1>7. UNCHANGED <<versions, transitions, announced, decisions, resolutions, evidence,
                  forgotten, requeued, deletedAt>>
  BY <1>1 DEF beliefVars, vars
<1> HIDE DEF Ds, C, F
<1>8. ASSUME NEW x \in summaries'
      PROVE  GoodSummary(x) /\ Rooted(x, versions', evidence', forgotten')
  <2>1. CASE x \in summaries
    BY <1>3, <1>7, <2>1
  <2>2. ASSUME NEW z \in C, x = Shut(z, e)
        PROVE  GoodSummary(x) /\ Rooted(x, versions', evidence', forgotten')
    <3>1. x.input = z.input /\ GoodSummary(x)
      BY <1>5, <2>2
    <3>2. Rooted(z, versions, evidence, forgotten)
      BY <1>1, <1>3
    <3> QED BY <1>7, <3>1, <3>2 DEF Rooted
  <2>3. ASSUME NEW D \in F, x = New(D, e)
        PROVE  GoodSummary(x) /\ Rooted(x, versions', evidence', forgotten')
    BY <1>6, <1>7, <2>3
  <2> QED BY <1>1, <2>1, <2>2, <2>3
<1>9. ASSUME NEW x \in summaries', NEW y \in summaries',
             x # y, x.input.at < y.to, y.input.at < x.to, x.session = y.session
      PROVE  FALSE
  <2> DEFINE Was(u, z) == /\ z \in summaries /\ u.session = z.session /\ u.input = z.input
                          /\ \/ z \notin C /\ u = z
                             \/ z \in C /\ u = Shut(z, e) /\ u.to = e.at
             Is(u, D) == D \in F /\ u = New(D, e)
  <2>1. \A u \in summaries' : (\E z : Was(u, z)) \/ (\E D : Is(u, D))
    BY <1>1, <1>5
  <2>2. ASSUME NEW z, Was(x, z), NEW w, Was(y, w) PROVE FALSE
    <3>1. z # w
      BY <1>9, <2>2
    <3>2. GoodSummary(z) /\ GoodSummary(w) /\ (z \in C => z.to = Open) /\ (w \in C => w.to = Open)
      BY <1>1, <1>3, <2>2
    <3>3. /\ (x.to = z.to \/ (x.to = e.at /\ z.to = Open)) /\ (y.to = w.to \/ (y.to = e.at /\ w.to = Open))
          /\ z.input = x.input /\ w.input = y.input /\ z.session = w.session
      BY <1>9, <2>2, <3>2
    <3>4. /\ z.to \in Times \cup {Open} /\ w.to \in Times \cup {Open}
          /\ z.input.at \in Times /\ w.input.at \in Times
      BY <3>2 DEF GoodSummary
    <3>5. z.input.at < w.to /\ w.input.at < z.to
      BY <1>2, <1>9, <3>3, <3>4, Clocks
    <3> QED BY <2>2, <3>1, <3>3, <3>5 DEF SInv, InSequence
  <2>3. ASSUME NEW u \in summaries', NEW v, u.session = v.session, v.input.at < u.to,
               NEW z, Was(u, z), NEW D, Is(v, D)
        PROVE  FALSE
    <3>1. z.session = D.id
      BY <1>6, <2>3
    <3>2. z \in C \/ (z.to # Open /\ z.to <= e.at)
      BY <1>1, <2>3, <3>1
    <3>3. u.to = e.at \/ u.to <= e.at
      BY <2>3, <3>2
    <3>4. v.input.at = e.at
      BY <1>6, <2>3
    <3>5. u.to \in Times \cup {Open}
      BY <1>8 DEF GoodSummary
    <3> QED BY <1>2, <2>3, <3>3, <3>4, <3>5, Clocks
  <2>4. ASSUME NEW D, Is(x, D), NEW E, Is(y, E) PROVE FALSE
    BY <1>1, <1>4, <1>6, <1>9, <2>4
  <2> HIDE DEF Was, Is
  <2> QED BY <1>9, <2>1, <2>2, <2>3, <2>4
<1>10. BInv' /\ OutboxIsDated'
  BY <1>7 DEF SInv, BInv, TypeOK, OutboxIsDated
<1> QED BY <1>8, <1>9, <1>10 DEF SInv, InSequence

LEMMA EraseStep == ASSUME SInv, NEW s \in Sources, NEW t \in IngestedAt[s] .. MaxTime, Erase(s, t)
                   PROVE  SInv'
<1>1. \A x \in summaries' : x \in summaries /\ Rooted(x, versions', evidence', forgotten')
  BY DeletionsLeaveRoots
<1>2. /\ BInv'
      /\ evidence' = {e \in evidence : e[2] # s} /\ forgotten' = forgotten \cup {s}
  BY DeleteStep DEF SInv, Erase
<1>3. t \in Times
  BY LifecycleAssumption DEF Times
<1>4. OutboxIsDated'
  <2>1. deletedAt' = [deletedAt EXCEPT ![s] = t]
    BY DEF Erase, Records
  <2>2. deletedAt \in [Sources -> Times \cup {Open}] /\ \A u \in forgotten : deletedAt[u] \in Times
    BY DEF SInv, OutboxIsDated
  <2>3. \A u \in forgotten' : u \in Sources /\ deletedAt'[u] \in Times
    BY <1>2, <1>3, <2>1, <2>2 DEF SInv, BInv, TypeOK
  <2>4. \A q \in requeued' : q.source \in forgotten'
    <3>1. \A q \in requeued' : q \in requeued \/ q.source = s
      BY DEF Erase, DeleteSource, DeleteSourceWith
    <3> QED BY <1>2, <3>1 DEF SInv, OutboxIsDated
  <2>5. \A e \in evidence' : e[2] \notin forgotten'
    BY <1>2 DEF SInv, OutboxIsDated
  <2>6. deletedAt' \in [Sources -> Times \cup {Open}]
    BY <1>3, <2>1, <2>2
  <2> QED BY <2>3, <2>4, <2>5, <2>6 DEF OutboxIsDated
<1> QED BY <1>1, <1>2, <1>4 DEF SInv, InSequence

LEMMA SInvInit == SummariesInit => SInv
<1> SUFFICES ASSUME SummariesInit PROVE SInv
  OBVIOUS
<1>1. BInv
  BY BInvInit DEF SummariesInit
<1>2. OutboxIsDated
  BY DEF SummariesInit, NothingDeleted, BeliefInit, OutboxIsDated
<1> QED BY <1>1, <1>2 DEF SummariesInit, SInv, InSequence

LEMMA SInvStep == SInv /\ [SummariesNext]_summaryVars => SInv'
<1> SUFFICES ASSUME SInv, [SummariesNext]_summaryVars PROVE SInv'
  OBVIOUS
<1>1. CASE Decide /\ UNCHANGED <<summaries, deletedAt>>
  <2>1. BInv' /\ AllKept
    BY <1>1, DecideStep DEF SInv
  <2>2. \A x \in summaries : Rooted(x, versions', evidence', forgotten')
    BY <2>1, DecisionsLeaveRoots
  <2>3. OutboxIsDated'
    BY <1>1, <2>1 DEF SInv, OutboxIsDated, AllKept
  <2> QED BY <1>1, <2>1, <2>2, <2>3 DEF SInv, InSequence
<1>2. ASSUME NEW s \in Sources, NEW t \in IngestedAt[s] .. MaxTime, Erase(s, t) PROVE SInv'
  BY <1>2, EraseStep
<1>3. ASSUME NEW e \in Outbox, Process(e) PROVE SInv'
  BY <1>3, ProcessStep
<1>4. CASE UNCHANGED summaryVars
  <2>1. UNCHANGED <<versions, transitions, announced, decisions, resolutions, evidence,
                    forgotten, requeued, deletedAt, summaries>>
    BY <1>4 DEF summaryVars, beliefVars, vars
  <2> QED BY <2>1 DEF SInv, BInv, TypeOK, OutboxIsDated
<1> QED BY <1>1, <1>2, <1>3, <1>4 DEF SummariesNext

THEOREM SInvAlways == SummariesSpec => []SInv
BY SInvInit, SInvStep, PTL DEF SummariesSpec

\* Whatever is deleted, rewound and rebuilt, a stored summary has no deleted member
\* and tells nothing without evidence and a stored version that says it
\* (grounded.py, migration 0006).
THEOREM SummariesAlwaysGrounded == SummariesSpec => []SummariesAreGrounded
BY SInvAlways, SInvSound, PTL

\* Events in any order leave the summaries of a session one after the other
\* (SessionSummaryRepository._close_current).
THEOREM SummariesAlwaysInSequence == SummariesSpec => []SummaryTimelines
BY SInvAlways, SInvSound, PTL

-----------------------------------------------------------------------------
\* A stored summary is only ever closed, once, or purged with a member
\* (session_summaries has no update but of transaction_to).
THEOREM SummariesAlwaysImmutable == SummariesSpec => SummariesAreImmutable
<1> DEFINE Stay(x) == \/ x.input.members \cap forgotten' # {}
                      \/ x \in summaries'
                      \/ x.to = Open /\ \E y \in summaries' : y = [x EXCEPT !.to = y.to]
<1>1. ASSUME SInv, [SummariesNext]_summaryVars, NEW x \in summaries
      PROVE  Stay(x)
  <2>1. CASE Decide /\ UNCHANGED <<summaries, deletedAt>>
    BY <2>1
  <2>2. ASSUME NEW s \in Sources, NEW t, Erase(s, t) PROVE Stay(x)
    <3>1. s \in forgotten'
      BY <2>2 DEF Erase, DeleteSource, DeleteSourceWith
    <3>2. x \in summaries' \/ s \in x.input.members
      BY <2>2 DEF Erase, Purged
    <3>3. s \in x.input.members => x.input.members \cap forgotten' # {}
      BY <3>1
    <3>4. x \in summaries' \/ x.input.members \cap forgotten' # {}
      BY <3>2, <3>3
    <3> QED BY <3>4
  <2>3. ASSUME NEW e \in Outbox, Process(e) PROVE Stay(x)
    <3> DEFINE C == Closing(Definitions(Visible(e.at)), e)
               F == Fresh(Definitions(Visible(e.at)), e)
    <3>1. /\ summaries' = (summaries \ C) \cup {Shut(z, e) : z \in C} \cup {New(D, e) : D \in F}
          /\ \A z \in C : z.to = Open
      BY <1>1, <2>3, ProcessParts
    <3> HIDE DEF C, F
    <3>2. CASE x \in C
      <4>1. Shut(x, e) \in summaries' /\ x.to = Open
        BY <3>1, <3>2
      <4>2. Shut(x, e) = [x EXCEPT !.to = Shut(x, e).to]
        BY <1>1, ShutFields DEF SInv, Shut
      <4> QED BY <4>1, <4>2
    <3> QED BY <3>1, <3>2
  <2>4. CASE UNCHANGED summaryVars
    BY <2>4 DEF summaryVars
  <2> QED BY <1>1, <2>1, <2>2, <2>3, <2>4 DEF SummariesNext
<1>2. SInv /\ [SummariesNext]_summaryVars =>
        [\A x \in summaries : Stay(x)]_summaryVars
  BY <1>1
<1> QED BY <1>2, SInvAlways, PTL DEF SummariesSpec, SummariesAreImmutable

-----------------------------------------------------------------------------
\* The rebuild from the newest event.

\* What is recorded at an instant and may be told, with each source.
Tellable(at) ==
  {x \in versions \X Visible(at) :
     /\ Recorded(x[1], at) /\ <<x[1].claim, x[2]>> \in evidence
     /\ x[1].claim \notin Omitted /\ x[1].status # "excluded"}

Statement(x) == <<x[1].claim, x[1].status, x[2]>>

LEMMA ToldIsTellable ==
  ASSUME NEW at
  PROVE  UNION {Told(D, at) : D \in Definitions(Visible(at))} = Tellable(at)
<1>1. Visible(at) \in SUBSET Sources
  BY DEF Visible
<1>2. \A D \in Definitions(Visible(at)) : D.members \subseteq Visible(at)
  BY <1>1, SessionsDivide
<1>3. ASSUME NEW D \in Definitions(Visible(at)), NEW x \in Told(D, at) PROVE x \in Tellable(at)
  BY <1>2, <1>3 DEF Told, Rows, Tellable
<1>4. ASSUME NEW x \in Tellable(at)
      PROVE  \E D \in Definitions(Visible(at)) : x \in Told(D, at)
  <2>1. x[2] \in Visible(at)
    BY DEF Tellable
  <2>2. PICK D \in Definitions(Visible(at)) : x[2] \in D.members
    BY <1>1, <2>1, SessionsCover
  <2>3. x \in Told(D, at)
    BY <2>2 DEF Told, Rows, Tellable
  <2> QED BY <2>3
<1> QED BY <1>3, <1>4

LEMMA AnsweredIsTellable ==
  ASSUME SInv, NEW at
  PROVE  Answered(at) = {Statement(x) : x \in Tellable(at)}
<1>1. \A e \in evidence : e[2] \in Sources \ forgotten
  BY DEF SInv, BInv, TypeOK, OutboxIsDated
<1>2. ASSUME NEW v \in versions, Recorded(v, at), v.claim \notin Omitted, v.status # "excluded"
      PROVE  \A s : s \in Support(v.claim, at) <=> <<v, s>> \in Tellable(at)
  BY <1>1, <1>2 DEF Support, Tellable, Visible
<1>3. ASSUME NEW z \in Answered(at)
      PROVE  \E x \in Tellable(at) : z = Statement(x)
  <2>1. PICK v \in versions :
          /\ Recorded(v, at) /\ v.claim \notin Omitted /\ v.status # "excluded"
          /\ z \in {v.claim} \X {v.status} \X Support(v.claim, at)
    BY DEF Answered, Answer
  <2>2. PICK s \in Support(v.claim, at) : z = <<v.claim, v.status, s>>
    BY <2>1
  <2>3. <<v, s>> \in Tellable(at)
    BY <1>2, <2>1, <2>2
  <2>4. z = Statement(<<v, s>>)
    BY <2>2 DEF Statement
  <2> QED BY <2>3, <2>4
<1>4. ASSUME NEW x \in Tellable(at)
      PROVE  Statement(x) \in Answered(at)
  <2> DEFINE v == x[1]
             s == x[2]
             p == [claim |-> v.claim, status |-> v.status, from |-> v.from,
                   support |-> Support(v.claim, at)]
  <2>1. /\ v \in versions /\ Recorded(v, at) /\ v.claim \notin Omitted /\ v.status # "excluded"
        /\ x = <<v, s>>
    BY DEF Tellable
  <2>2. s \in Support(v.claim, at)
    BY <1>2, <2>1
  <2>3. p \in Answer(at)
    BY <2>1, <2>2 DEF Answer
  <2>4. Statement(x) \in {p.claim} \X {p.status} \X p.support
    BY <2>2 DEF Statement
  <2>5. p.status # "excluded" /\ p.claim \notin Omitted
    BY <2>1
  <2> HIDE DEF p
  <2> QED BY <2>3, <2>4, <2>5 DEF Answered
<1> QED BY <1>3, <1>4

\* After the newest event, the open summaries are those that it stored.
LEMMA NewestIsOpen ==
  ASSUME SInv, NEW e \in Outbox, Process(e), \A x \in summaries : x.input.at < e.at
  PROVE  OpenSummaries' = {New(D, e) : D \in {D \in Definitions(Visible(e.at)) : Told(D, e.at) # {}}}
<1> DEFINE Ds == Definitions(Visible(e.at))
           C == Closing(Ds, e)
           F == Fresh(Ds, e)
<1>1. /\ summaries' = (summaries \ C) \cup {Shut(x, e) : x \in C} \cup {New(D, e) : D \in F}
      /\ \A D \in Ds : Rows(D, e.at) # {} => \A x \in Keyed(D, e) : x.input = Input(D, e.at)
      /\ \A x \in C : x \in summaries
      /\ \A D \in F : D \in Ds /\ Told(D, e.at) # {}
  BY ProcessParts
<1>2. e.at \in Times /\ e.at # Open
  BY OutboxTimes, Clocks
<1>3. \A D : Told(D, e.at) # {} => Rows(D, e.at) # {}
  BY DEF Told
<1>4. \A x \in summaries : \A D : x.input # Input(D, e.at)
  <2> SUFFICES ASSUME NEW x \in summaries, NEW D, x.input = Input(D, e.at) PROVE FALSE
    OBVIOUS
  <2>1. x.input.at = e.at
    BY InputFields
  <2> QED BY <1>2, <2>1, Clocks
<1>5. \A D \in Ds : Rows(D, e.at) # {} => Keyed(D, e) = {}
  BY <1>1, <1>4 DEF Keyed
<1>6. \A D \in Ds : Told(D, e.at) # {} => D \in F
  <2> SUFFICES ASSUME NEW D \in Ds, Told(D, e.at) # {} PROVE D \in F
    OBVIOUS
  <2>1. Keyed(D, e) = {}
    BY <1>3, <1>5
  <2>2. \A x \in OpenSummaries : x.session = D.id => x.input # Input(D, e.at)
    BY <1>4 DEF OpenSummaries
  <2> HIDE DEF Ds
  <2> QED BY <2>1, <2>2 DEF Fresh
<1>7. \A x \in summaries : x.to = Open => x \in C
  <2> SUFFICES ASSUME NEW x \in summaries, x.to = Open,
                      NEW D \in Ds, D.id = x.session, Rows(D, e.at) # {}
               PROVE  Keyed(D, e) = {} /\ (Told(D, e.at) = {} \/ D \in F)
    BY DEF Closing, OpenSummaries
  <2> QED BY <1>5, <1>6
<1>8. \A x \in C : Shut(x, e).to # Open
  BY <1>1, <1>2, ShutFields DEF SInv
<1>9. \A D : New(D, e).to = Open
  BY NewFields
<1> HIDE DEF Ds, C, F
<1>10. OpenSummaries' = {New(D, e) : D \in F}
  BY <1>1, <1>7, <1>8, <1>9 DEF OpenSummaries
<1>11. F = {D \in Ds : Told(D, e.at) # {}}
  BY <1>1, <1>6
<1> QED BY <1>10, <1>11 DEF Ds

\* When every stored summary is older than the event, the rebuild leaves what the
\* temporal service answers as of its instant, and no source in two open summaries
\* (GroundedSummaryCoordinator.process, TemporalService.query).
THEOREM RebuildAlwaysTrue == SummariesSpec => RebuildTellsTheTruth
<1> DEFINE Truth == \A e \in Outbox :
             (\A x \in summaries : x.input.at < e.at) /\ Process(e) =>
               /\ Statements' = Answered(e.at)
               /\ \A x, y \in OpenSummaries' : x # y => x.input.members \cap y.input.members = {}
<1>1. ASSUME SInv, NEW e \in Outbox, Process(e), \A x \in summaries : x.input.at < e.at
      PROVE  /\ Statements' = Answered(e.at)
             /\ \A x, y \in OpenSummaries' : x # y => x.input.members \cap y.input.members = {}
  <2> DEFINE Ds == Definitions(Visible(e.at))
             Ts == {D \in Ds : Told(D, e.at) # {}}
  <2>1. OpenSummaries' = {New(D, e) : D \in Ts}
    BY <1>1, NewestIsOpen
  <2>2. \A D : New(D, e).input.told = Told(D, e.at) /\ New(D, e).input.members = D.members
    BY NewFields, InputFields
  <2>3. Statements' = {Statement(y) : y \in UNION {x.input.told : x \in OpenSummaries'}}
    BY DEF Statements, Statement
  <2>4. UNION {x.input.told : x \in OpenSummaries'} = UNION {Told(D, e.at) : D \in Ds}
    <3> HIDE DEF Ds
    <3> QED BY <2>1, <2>2
  <2>5. UNION {Told(D, e.at) : D \in Ds} = Tellable(e.at)
    BY ToldIsTellable
  <2>6. Statements' = Answered(e.at)
    BY <1>1, <2>3, <2>4, <2>5, AnsweredIsTellable
  <2>7. \A D, E \in Ds : D # E => D.members \cap E.members = {}
    <3>1. Visible(e.at) \in SUBSET Sources
      BY DEF Visible
    <3> QED BY <3>1, SessionsDivide
  <2>8. \A x, y \in OpenSummaries' : x # y => x.input.members \cap y.input.members = {}
    <3> HIDE DEF Ds
    <3> SUFFICES ASSUME NEW D \in Ts, NEW E \in Ts, New(D, e) # New(E, e)
                 PROVE  D.members \cap E.members = {}
      BY <2>1, <2>2
    <3> QED BY <2>7
  <2> QED BY <2>6, <2>8
<1>2. SInv => Truth
  BY <1>1
<1>3. SInv /\ [SummariesNext]_summaryVars => [Truth]_summaryVars
  BY <1>2
<1> QED BY <1>3, SInvAlways, PTL DEF SummariesSpec, RebuildTellsTheTruth

-----------------------------------------------------------------------------
\* Relations: their ids say what they join and since when.

InstantOf(i) == IF i[1] = "checked" THEN Since(i[2]) ELSE i[2].at

\* i is the id of a relation that decisions D or resolutions Q have left.
Linked(i, D, Q) ==
  \/ \E d \in D : i = <<"checked", d>> /\ d.verdict.label \notin {"unrelated", "ambiguity"}
  \/ \E r \in Q : i = <<"supersedes", r>> /\ r.decision.verdict.label \in {"correction", "refinement"}

LEMMA RelationFields ==
  ASSUME NEW D, NEW Q, NEW z \in Checked(D) \cup Superseding(Q)
  PROVE  z.pair = Pair(Behind(z.id)) /\ z.at = InstantOf(z.id) /\ Linked(z.id, D, Q)
<1>1. CASE z \in Checked(D)
  <2>1. PICK d \in D : /\ z = [id |-> <<"checked", d>>, pair |-> Pair(d),
                              created |-> d.classifiedAt, at |-> Since(d)]
                       /\ d.verdict.label \notin {"unrelated", "ambiguity"}
    BY <1>1 DEF Checked
  <2>2. z.id = <<"checked", d>> /\ z.pair = Pair(d) /\ z.at = Since(d)
    BY <2>1
  <2>3. z.id[1] = "checked" /\ z.id[2] = d
    BY <2>2
  <2> QED BY <2>1, <2>2, <2>3 DEF Behind, InstantOf, Linked
<1>2. CASE z \in Superseding(Q)
  <2>1. PICK r \in Q : /\ z = [id |-> <<"supersedes", r>>, pair |-> Pair(r.decision),
                              created |-> r.at, at |-> r.at]
                       /\ r.decision.verdict.label \in {"correction", "refinement"}
    BY <1>2 DEF Superseding
  <2>2. z.id = <<"supersedes", r>> /\ z.pair = Pair(r.decision) /\ z.at = r.at
    BY <2>1
  <2>3. z.id[1] = "supersedes" /\ z.id[2] = r
    BY <2>2
  <2> QED BY <2>1, <2>2, <2>3 DEF Behind, InstantOf, Linked
<1> QED BY <1>1, <1>2

LEMMA LinkedRelations ==
  ASSUME NEW D, NEW Q, NEW i, Linked(i, D, Q)
  PROVE  \E z \in Checked(D) \cup Superseding(Q) : z.id = i
<1>1. ASSUME NEW d \in D, i = <<"checked", d>>,
             d.verdict.label \notin {"unrelated", "ambiguity"}
      PROVE  \E z \in Checked(D) : z.id = i
  <2> DEFINE z == [id |-> <<"checked", d>>, pair |-> Pair(d),
                   created |-> d.classifiedAt, at |-> Since(d)]
  <2>1. z \in Checked(D)
    BY <1>1 DEF Checked
  <2> QED BY <1>1, <2>1
<1>2. ASSUME NEW r \in Q, i = <<"supersedes", r>>, r.decision.verdict.label \in {"correction", "refinement"}
      PROVE  \E z \in Superseding(Q) : z.id = i
  <2> DEFINE z == [id |-> <<"supersedes", r>>, pair |-> Pair(r.decision),
                   created |-> r.at, at |-> r.at]
  <2>1. z \in Superseding(Q)
    BY <1>2 DEF Superseding
  <2> QED BY <1>2, <2>1
<1> QED BY <1>1, <1>2 DEF Linked

\* The relations of the tables, and those of an instant.
LEMMA RelationsAreLinked ==
  /\ \A i : i \in {q.id : q \in Relations} <=> Linked(i, decisions, resolutions)
  /\ \A i, at : i \in {q.id : q \in {z \in Relations : z.at <= at}} <=>
                  Linked(i, decisions, resolutions) /\ InstantOf(i) <= at
<1>1. \A z \in Relations : z.at = InstantOf(z.id) /\ Linked(z.id, decisions, resolutions)
  BY RelationFields DEF Relations
<1>2. \A i : Linked(i, decisions, resolutions) => \E z \in Relations : z.id = i
  BY LinkedRelations DEF Relations
<1> QED BY <1>1, <1>2

-----------------------------------------------------------------------------
\* The invariant.

\* What is so of a record because of how it was built.
Shaped(x) ==
  /\ \/ x.of[1] = "atomic" /\ \A y \in x.says : x.of = <<"atomic", Id(y)>>
     \/ /\ x.of[1] = "session" /\ x.relations = {}
        /\ x.says = {Says(y[1], y[2]) : y \in x.of[3].told}
  /\ \A y \in x.says : y.claim \notin Restricted /\ y.status # "excluded"
  /\ \A i \in x.relations : \E y \in x.says : y.claim \in Pair(Behind(i))

\* Anchored, in versions S, evidence ev, decisions D, resolutions Q and summaries X.
AnchoredIn(x, S, ev, D, Q, X) ==
  /\ \A y \in x.says : (\E v \in S : Id(v) = Id(y)) /\ <<y.claim, y.source>> \in ev
  /\ \A i \in x.relations : Linked(i, D, Q)
  /\ x.of[1] = "session" => \E z \in X : x.of = <<"session", z.session, z.input>>

LEMMA AnchoredNow ==
  \A x : Anchored(x) <=> AnchoredIn(x, versions, evidence, decisions, resolutions, summaries)
<1>1. \A z : OfSession(z).of = <<"session", z.session, z.input>>
  BY DEF OfSession
<1> QED BY <1>1, RelationsAreLinked DEF Anchored, AnchoredIn

RInv ==
  /\ SInv /\ RetrievalTypeOK
  /\ \A b, c \in loaded : b = c
  /\ \A r, q \in runs : r.key = q.key => r = q
  /\ \A x, y \in records : x.record = y.record => x = y
  /\ \A b \in loaded \cup runs :
       b.at \in Times /\ \A x \in b.records : Shaped(x) /\ x.from <= b.at /\ b.at < x.to
  /\ \A x \in records :
       AnchoredIn(x.record, versions, evidence, decisions, resolutions, summaries)

LEMMA RInvSound == RInv => RetrievalIsGrounded
<1> SUFFICES ASSUME RInv PROVE RetrievalIsGrounded
  OBVIOUS
<1>1. ASSUME NEW x \in records
      PROVE  /\ \E r \in runs : r.key = x.run /\ x.record.from <= r.at /\ r.at < x.record.to
             /\ Anchored(x.record)
             /\ Shaped(x.record)
  BY AnchoredNow DEF RInv, RetrievalTypeOK
<1>2. ASSUME NEW x \in records, NEW y \in x.record.says
      PROVE  y.source \notin forgotten /\ y.claim \notin Restricted /\ y.status # "excluded"
  <2>1. <<y.claim, y.source>> \in evidence
    BY <1>1 DEF Anchored
  <2> QED BY <1>1, <2>1 DEF Shaped, RInv, SInv, OutboxIsDated
<1>3. ASSUME NEW x \in records, NEW q \in Relations, q.id \in x.record.relations
      PROVE  \E y \in x.record.says : y.claim \in q.pair
  <2>1. q.pair = Pair(Behind(q.id))
    BY RelationFields DEF Relations
  <2> QED BY <1>1, <1>3, <2>1 DEF Shaped
<1> QED BY <1>1, <1>2, <1>3 DEF RInv, RetrievalIsGrounded

-----------------------------------------------------------------------------
\* What a build reads.

LEMMA SaysFields ==
  ASSUME NEW v, NEW s
  PROVE  /\ Says(v, s).claim = v.claim /\ Says(v, s).key = v.key /\ Says(v, s).status = v.status
         /\ Says(v, s).from = v.from /\ Says(v, s).source = s /\ Id(Says(v, s)) = Id(v)
BY DEF Says, Id

LEMMA AtomicFields ==
  ASSUME NEW v, NEW at
  PROVE  LET x == Atomic(v, at)
         IN  /\ x.of = <<"atomic", Id(v)>> /\ x.of[1] = "atomic"
             /\ x.from = v.from /\ x.to = v.to
             /\ x.says = {Says(v, s) : s \in Support(v.claim, at)}
             /\ x.relations = {q.id : q \in {z \in Relations : v.claim \in z.pair /\ z.created <= at}}
BY DEF Atomic

LEMMA SessionFieldsOf ==
  ASSUME NEW z
  PROVE  LET x == OfSession(z)
         IN  /\ x.of = <<"session", z.session, z.input>> /\ x.of[1] = "session" /\ x.of[3] = z.input
             /\ x.from = z.input.at /\ x.to = z.to /\ x.relations = {}
             /\ x.says = {Says(y[1], y[2]) : y \in z.input.told}
BY DEF OfSession

LEMMA AtomicIsShaped ==
  ASSUME NEW at, NEW v, Support(v.claim, at) # {}, v.status # "excluded", v.claim \notin Restricted
  PROVE  Shaped(Atomic(v, at))
<1> DEFINE x == Atomic(v, at)
           ss == Support(v.claim, at)
<1>1. /\ x.of = <<"atomic", Id(v)>> /\ x.of[1] = "atomic" /\ x.says = {Says(v, s) : s \in ss}
      /\ x.relations = {q.id : q \in {z \in Relations : v.claim \in z.pair /\ z.created <= at}}
  BY AtomicFields
<1> HIDE DEF x, ss
<1>2. \A y \in x.says : Id(y) = Id(v) /\ y.claim = v.claim /\ y.status = v.status
  BY <1>1, SaysFields
<1>3. \E y \in x.says : y.claim = v.claim
  BY <1>1, <1>2 DEF ss
<1>4. \A i \in x.relations : v.claim \in Pair(Behind(i))
  BY <1>1, RelationFields DEF Relations
<1>5. Shaped(x)
  BY <1>1, <1>2, <1>3, <1>4 DEF Shaped
<1> QED BY <1>5 DEF x

LEMMA SessionIsShaped ==
  ASSUME SInv, NEW z \in summaries
  PROVE  Shaped(OfSession(z))
<1> DEFINE x == OfSession(z)
<1>1. /\ x.of[1] = "session" /\ x.of[3] = z.input /\ x.relations = {}
      /\ x.says = {Says(y[1], y[2]) : y \in z.input.told}
  BY SessionFieldsOf
<1> HIDE DEF x
<1>2. \A y \in z.input.told : y[1].claim \notin Restricted /\ y[1].status # "excluded"
  BY RetrievalAssumption DEF SInv, GoodSummary, Rooted, Supported
<1>3. \A y \in x.says : y.claim \notin Restricted /\ y.status # "excluded"
  BY <1>1, <1>2, SaysFields
<1>4. Shaped(x)
  BY <1>1, <1>3 DEF Shaped
<1> QED BY <1>4 DEF x

LEMMA InputsAreShaped ==
  ASSUME SInv, NEW at, NEW x \in Inputs(at)
  PROVE  Shaped(x) /\ x.from <= at /\ at < x.to
<1>1. CASE x \in AtomicInputs(at)
  <2>1. PICK v \in versions : /\ x = Atomic(v, at) /\ Recorded(v, at) /\ Support(v.claim, at) # {}
                              /\ v.status # "excluded" /\ v.claim \notin Restricted
    BY <1>1 DEF AtomicInputs
  <2> QED BY <2>1, AtomicIsShaped, AtomicFields DEF Recorded
<1>2. CASE x \in SessionInputs(at)
  <2>1. PICK z \in summaries : x = OfSession(z) /\ z.input.at <= at /\ at < z.to
    BY <1>2 DEF SessionInputs
  <2> QED BY <2>1, SessionIsShaped, SessionFieldsOf
<1> QED BY <1>1, <1>2 DEF Inputs

-----------------------------------------------------------------------------
\* A deletion takes no decision and no resolution but those it takes back.

AsTables(db) ==
  db = Tables(db.versions, db.transitions, db.announced, db.decisions, db.resolutions)

LEMMA RedoneAdds ==
  ASSUME NEW db, AsTables(db), NEW r, NEW s
  PROVE  /\ AsTables(Redone(db, r, s))
         /\ \A d \in db.decisions : d \in Redone(db, r, s).decisions
         /\ \A q \in db.resolutions : q \in Redone(db, r, s).resolutions
<1>1. CASE Eligible(db, r, s)
  <2> DEFINE S == db.versions
             T == db.transitions
             N == db.announced
             D == db.decisions
             Q == db.resolutions
             E == D \cup {r.decision}
             W == Q \cup {r}
             R == MovedVersions(S, ActedOn(S, r), r.key, r.acts, r.at)
             U == T \cup MovedRows(ActedOn(S, r), r.key, r.acts, r.at)
             M == N \cup MovedEvents(ActedOn(S, r), r.key)
             new == Redone(db, r, s)
  <2>1. db = Tables(S, T, N, D, Q) /\ new = Enact(Reinstated(db, r), r)
    BY <1>1 DEF AsTables, Redone
  <2> HIDE DEF new, S, T, N, D, Q
  <2>2. Reinstated(db, r) = Tables(S, T, N, E, Q)
    BY <2>1, ReinstatedTables
  <2> HIDE DEF E
  <2>3. Enact(Tables(S, T, N, E, Q), r) = TablesEnacted(S, T, N, E, Q, r)
    BY EnactedTables
  <2>4. TablesEnacted(S, T, N, E, Q, r) = Tables(R, U, M, E, W)
    BY DEF TablesEnacted
  <2> HIDE DEF R, U, M, W
  <2>5. new = Tables(R, U, M, E, W)
    BY <2>1, <2>2, <2>3, <2>4
  <2>6. /\ new.versions = R /\ new.transitions = U /\ new.announced = M
        /\ new.decisions = E /\ new.resolutions = W
    BY <2>5, FieldsOfTables
  <2>7. AsTables(new)
    BY <2>5, <2>6 DEF AsTables
  <2>8. \A d \in D : d \in new.decisions
    BY <2>6 DEF E
  <2>9. \A q \in Q : q \in new.resolutions
    BY <2>6 DEF W
  <2> QED BY <2>7, <2>8, <2>9 DEF new, D, Q
<1>2. CASE ~Eligible(db, r, s)
  BY <1>2 DEF Redone
<1> QED BY <1>1, <1>2

LEMMA ReplayAdds ==
  ASSUME NEW n \in Nat, NEW o, Len(o) = n, NEW s, NEW start, AsTables(start)
  PROVE  /\ \A d \in start.decisions : d \in Replayed(o, start, s)[n].decisions
         /\ \A q \in start.resolutions : q \in Replayed(o, start, s)[n].resolutions
<1> DEFINE R == Replayed(o, start, s)
           Ok(i) == /\ AsTables(R[i])
                    /\ \A d \in start.decisions : d \in R[i].decisions
                    /\ \A q \in start.resolutions : q \in R[i].resolutions
           B == {i \in 0 .. n : ~Ok(i)}
<1>1. /\ R[0] = start
      /\ \A i \in 1 .. n : R[i] = Redone(R[i-1], o[i], s)
  <2>0. Chain(R, n, o, start, s)
    BY ReplayedIsAChain
  <2> HIDE DEF R
  <2>1. R = [i \in 0 .. n |-> IF i = 0 THEN start ELSE Redone(R[i-1], o[i], s)]
    BY <2>0 DEF Chain
  <2> QED BY <2>1
<1>2. Ok(0)
  BY <1>1
<1>3. ASSUME NEW i \in 1 .. n, Ok(i-1) PROVE Ok(i)
  <2> DEFINE db == R[i-1]
             r == o[i]
  <2>1. /\ AsTables(db) /\ R[i] = Redone(db, r, s)
        /\ \A d \in start.decisions : d \in db.decisions
        /\ \A q \in start.resolutions : q \in db.resolutions
    BY <1>1, <1>3
  <2> HIDE DEF db, r, R
  <2>2. /\ AsTables(Redone(db, r, s))
        /\ \A d \in db.decisions : d \in Redone(db, r, s).decisions
        /\ \A q \in db.resolutions : q \in Redone(db, r, s).resolutions
    BY <2>1, RedoneAdds
  <2> QED BY <2>1, <2>2
<1> HIDE DEF Ok
<1>4. B = {}
  <2> SUFFICES ASSUME B # {} PROVE FALSE
    OBVIOUS
  <2>1. B \subseteq Nat
    OBVIOUS
  <2>2. PICK i \in B : \A j \in B : i <= j
    <3> HIDE DEF B
    <3> QED BY <2>1, LeastNumber
  <2>3. i \in 0 .. n /\ ~Ok(i)
    OBVIOUS
  <2>4. i \in 1 .. n /\ i - 1 \in 0 .. n
    BY <1>2, <2>3
  <2>5. Ok(i-1)
    BY <2>2, <2>4
  <2> QED BY <1>3, <2>3, <2>4, <2>5
<1>5. Ok(n)
  BY <1>4
<1> QED BY <1>5 DEF Ok

LEMMA DeletionLeavesTheRest ==
  ASSUME BInv, NEW s, DeleteSource(s)
  PROVE  /\ \A d \in decisions : d \notin Dropped(s, Undone(s)) => d \in decisions'
         /\ \A r \in resolutions : r \notin Undone(s) => r \in resolutions'
<1> DEFINE undone == Undone(s)
           rest == {r \in undone : r.decision \notin Direct(s)}
           gone == Retired(s)
           start == Cleared(Rewound(s, undone), gone)
           K == decisions \ Dropped(s, undone)
           Q == resolutions \ undone
<1>1. PICK db \in Outcomes(s) : Write(db)
  <2>1. DeleteSourceWith(s, {})
    BY DEF DeleteSource
  <2> QED BY <2>1 DEF DeleteSourceWith, Outcomes
<1>2. \E o \in Orders(rest) : db = Replayed(o, start, s)[Len(o)]
  <2>1. gone \cup {} = gone
    OBVIOUS
  <2>2. db \in OutcomesWith(s, {})
    BY DEF Outcomes
  <2> QED BY <2>1, <2>2 DEF OutcomesWith
<1>3. \E S, T, N : Rewound(s, undone) = Tables(S, T, N, K, Q)
  <2> DEFINE off == Unmade(undone)
             S == Uncovered(versions, off)
             T == Unrelated(transitions, off)
             N == Unrelated(announced, off)
  <2>1. Rewound(s, undone) = Tables(S, T, N, K, Q)
    BY DEF Rewound, Uncovered, Below, Unrelated, Tables
  <2> HIDE DEF S, T, N, K, Q, undone
  <2> QED BY <2>1
<1>4. IsFiniteSet(rest)
  <2>1. IsFiniteSet(resolutions) /\ rest \subseteq resolutions
    BY DEF BInv, Founded, Undone
  <2> HIDE DEF rest
  <2> QED BY <2>1, FS_Subset
<1> HIDE DEF K, Q, undone
<1>5. PICK S, T, N : start = Tables(S, T, N, K, Q)
  <2>1. PICK S, T, N : Rewound(s, undone) = Tables(S, T, N, K, Q)
    BY <1>3
  <2> DEFINE X == Outside(S, gone)
             Y == NotNaming(T, gone)
             Z == NotNaming(N, gone)
  <2>2. start = Cleared(Tables(S, T, N, K, Q), gone)
    BY <2>1
  <2> HIDE DEF gone, start
  <2>3. start = Tables(X, Y, Z, K, Q)
    BY <2>2, ClearedTables
  <2> HIDE DEF X, Y, Z
  <2> QED BY <2>3
<1> HIDE DEF start, rest
<1>6. start.decisions = K /\ start.resolutions = Q /\ AsTables(start)
  <2>1. /\ start.versions = S /\ start.transitions = T /\ start.announced = N
        /\ start.decisions = K /\ start.resolutions = Q
    BY <1>5, FieldsOfTables
  <2> QED BY <1>5, <2>1 DEF AsTables
<1>7. PICK o \in Orders(rest) : db = Replayed(o, start, s)[Len(o)]
  BY <1>2
<1> DEFINE n == Cardinality(rest)
<1>8. n \in Nat
  BY <1>4, FS_CardinalityType
<1> HIDE DEF n
<1>9. o \in [1 .. n -> rest]
  BY DEF Orders, n
<1>10. Len(o) = n
  BY <1>8, <1>9
<1>11. /\ \A d \in K : d \in db.decisions
       /\ \A q \in Q : q \in db.resolutions
  BY <1>6, <1>7, <1>8, <1>10, ReplayAdds
<1> QED BY <1>1, <1>11 DEF Write, K, Q, undone

-----------------------------------------------------------------------------
\* What a step leaves of a record's anchors.

LEMMA OneId == ASSUME NEW v \in Version, NEW w, w = [v EXCEPT !.to = w.to] PROVE Id(w) = Id(v)
<1>1. \A a : LET u == [v EXCEPT !.to = a]
             IN  u.claim = v.claim /\ u.key = v.key /\ u.status = v.status /\ u.from = v.from
  BY DEF Version
<1> QED BY <1>1 DEF Id

LEMMA IdFields ==
  ASSUME NEW v, NEW w, Id(v) = Id(w)
  PROVE  v.claim = w.claim /\ v.key = w.key /\ v.status = w.status /\ v.from = w.from
<1>1. /\ Id(v)[1] = v.claim /\ Id(v)[2] = v.key /\ Id(v)[3] = v.status /\ Id(v)[4] = v.from
      /\ Id(w)[1] = w.claim /\ Id(w)[2] = w.key /\ Id(w)[3] = w.status /\ Id(w)[4] = w.from
  BY DEF Id
<1> QED BY <1>1

\* More decisions and resolutions leave more linked.
LEMMA LinkedStays ==
  ASSUME NEW D, NEW Q, NEW E, NEW P, D \subseteq E, Q \subseteq P, NEW i, Linked(i, D, Q)
  PROVE  Linked(i, E, P)
BY DEF Linked

LEMMA DecideLeavesAnchors ==
  ASSUME SInv, Decide, UNCHANGED summaries, NEW x,
         AnchoredIn(x, versions, evidence, decisions, resolutions, summaries)
  PROVE  AnchoredIn(x, versions', evidence', decisions', resolutions', summaries')
<1>1. Keeps(versions, versions') /\ UNCHANGED evidence /\ versions \in SUBSET Version
  BY DecideStep DEF SInv, BInv, TypeOK, AllKept
<1>2. \A v \in versions : \E w \in versions' : Id(w) = Id(v)
  <2> SUFFICES ASSUME NEW v \in versions PROVE \E w \in versions' : Id(w) = Id(v)
    OBVIOUS
  <2>1. PICK w \in versions' : w = [v EXCEPT !.to = w.to]
    BY <1>1 DEF Keeps
  <2> QED BY <1>1, <2>1, OneId
<1>3. \A i \in x.relations : Linked(i, decisions', resolutions')
  BY DecideAdds, LinkedStays DEF AnchoredIn
<1>4. \A y \in x.says : (\E w \in versions' : Id(w) = Id(y)) /\ <<y.claim, y.source>> \in evidence'
  <2> SUFFICES ASSUME NEW y \in x.says
               PROVE  (\E w \in versions' : Id(w) = Id(y)) /\ <<y.claim, y.source>> \in evidence'
    OBVIOUS
  <2>1. PICK v \in versions : Id(v) = Id(y)
    BY DEF AnchoredIn
  <2>2. PICK w \in versions' : Id(w) = Id(v)
    BY <1>2
  <2> QED BY <1>1, <2>1, <2>2 DEF AnchoredIn
<1> QED BY <1>3, <1>4 DEF AnchoredIn

LEMMA ProcessLeavesAnchors ==
  ASSUME SInv, NEW e, Process(e), NEW x,
         AnchoredIn(x, versions, evidence, decisions, resolutions, summaries)
  PROVE  AnchoredIn(x, versions', evidence', decisions', resolutions', summaries')
<1> DEFINE C == Closing(Definitions(Visible(e.at)), e)
           F == Fresh(Definitions(Visible(e.at)), e)
<1>1. /\ UNCHANGED <<beliefVars, deletedAt>>
      /\ summaries' = (summaries \ C) \cup {Shut(z, e) : z \in C} \cup {New(D, e) : D \in F}
  BY ProcessParts
<1> HIDE DEF C, F
<1>2. UNCHANGED <<versions, evidence, decisions, resolutions>>
  BY <1>1 DEF beliefVars, vars
<1>3. ASSUME NEW z \in summaries
      PROVE  \E u \in summaries' : u.session = z.session /\ u.input = z.input
  <2>1. CASE z \in C
    BY <1>1, <2>1, ShutFields DEF SInv
  <2>2. CASE z \notin C
    BY <1>1, <2>2
  <2> QED BY <2>1, <2>2
<1>4. x.of[1] = "session" => \E u \in summaries' : x.of = <<"session", u.session, u.input>>
  <2> SUFFICES ASSUME x.of[1] = "session"
               PROVE  \E u \in summaries' : x.of = <<"session", u.session, u.input>>
    OBVIOUS
  <2>1. PICK z \in summaries : x.of = <<"session", z.session, z.input>>
    BY DEF AnchoredIn
  <2>2. PICK u \in summaries' : u.session = z.session /\ u.input = z.input
    BY <1>3
  <2> QED BY <2>1, <2>2
<1> QED BY <1>2, <1>4 DEF AnchoredIn

\* Nothing that a record rests on goes unless the record is cut.
LEMMA EraseLeavesAnchors ==
  ASSUME SInv, NEW s \in Sources, NEW t \in IngestedAt[s] .. MaxTime, Erase(s, t),
         NEW x, Shaped(x), ~Cut(x, s),
         AnchoredIn(x, versions, evidence, decisions, resolutions, summaries)
  PROVE  AnchoredIn(x, versions', evidence', decisions', resolutions', summaries')
<1>1. /\ DeleteSource(s) /\ summaries' = summaries \ Purged(s)
      /\ evidence' = {e \in evidence : e[2] # s}
      /\ \A v \in versions \ Unmade(Undone(s)) :
           \/ \E w \in versions' : w = [v EXCEPT !.to = w.to]
           \/ \A e \in evidence' : e[1] # v.claim
      /\ versions \subseteq Version
  BY DeleteStep DEF Erase, SInv, BInv, TypeOK
<1>2. /\ \A y \in x.says : y.source # s
      /\ \A v \in VersionsCut(s) : x.of # <<"atomic", Id(v)>>
      /\ \A q \in RelationsCut(s) : q.id \notin x.relations
      /\ \A z \in Purged(s) : x.of # OfSession(z).of
  BY DEF Cut
<1>3. \A y \in x.says : <<y.claim, y.source>> \in evidence'
  BY <1>1, <1>2 DEF AnchoredIn
<1>4. ASSUME x.of[1] = "session"
      PROVE  \E z \in summaries' : x.of = <<"session", z.session, z.input>>
  <2>1. PICK z \in summaries : x.of = <<"session", z.session, z.input>>
    BY <1>4 DEF AnchoredIn
  <2>2. z \notin Purged(s)
    BY <1>2, <2>1, SessionFieldsOf
  <2> QED BY <1>1, <2>1, <2>2
<1>5. ASSUME NEW y \in x.says
      PROVE  \E w \in versions' : Id(w) = Id(y)
  <2>1. CASE x.of[1] = "atomic"
    <3>1. x.of = <<"atomic", Id(y)>>
      BY <2>1 DEF Shaped
    <3>2. PICK v \in versions : Id(v) = Id(y)
      BY DEF AnchoredIn
    <3>3. v \notin Unmade(Undone(s))
      BY <1>2, <3>1, <3>2 DEF VersionsCut
    <3>4. v.claim = y.claim
      BY <3>2, IdFields
    <3>5. ~\A e \in evidence' : e[1] # v.claim
      BY <1>3, <3>4
    <3>6. PICK w \in versions' : w = [v EXCEPT !.to = w.to]
      BY <1>1, <3>3, <3>5
    <3>7. Id(w) = Id(v)
      BY <1>1, <3>6, OneId
    <3> QED BY <3>2, <3>7
  <2>2. CASE x.of[1] = "session"
    <3>1. PICK z \in summaries' : x.of = <<"session", z.session, z.input>>
      BY <1>4, <2>2
    <3>2. z \in summaries /\ Rooted(z, versions', evidence', forgotten') /\ GoodSummary(z)
      BY <3>1, DeletionsLeaveRoots DEF SInv
    <3>3. x.of[3] = z.input
      BY <3>1
    <3>4. PICK u \in z.input.told : y = Says(u[1], u[2])
      BY <2>2, <3>3 DEF Shaped
    <3>5. PICK w \in versions' : w = [u[1] EXCEPT !.to = w.to]
      BY <3>2 DEF Rooted, Supported
    <3>6. u[1] \in Version
      BY <3>2 DEF GoodSummary
    <3> QED BY <3>4, <3>5, <3>6, OneId, SaysFields
  <2> QED BY <2>1, <2>2 DEF Shaped
<1>6. ASSUME NEW i \in x.relations
      PROVE  Linked(i, decisions', resolutions')
  <2>1. Linked(i, decisions, resolutions)
    BY DEF AnchoredIn
  <2>2. ~Linked(i, Dropped(s, Undone(s)), Undone(s))
    BY <1>2, LinkedRelations DEF RelationsCut
  <2>3. /\ \A d \in decisions : d \notin Dropped(s, Undone(s)) => d \in decisions'
        /\ \A r \in resolutions : r \notin Undone(s) => r \in resolutions'
    BY <1>1, DeletionLeavesTheRest DEF SInv
  <2> QED BY <2>1, <2>2, <2>3 DEF Linked
<1> QED BY <1>3, <1>4, <1>5, <1>6 DEF AnchoredIn

-----------------------------------------------------------------------------
\* The invariant is inductive.

LEMMA RInvInit == RetrievalInit => RInv
<1> SUFFICES ASSUME RetrievalInit PROVE RInv
  OBVIOUS
<1>1. SInv
  BY SInvInit DEF RetrievalInit
<1>2. Cardinality({}) = 0
  BY FS_EmptySet
<1> QED BY <1>1, <1>2 DEF RetrievalInit, RInv, RetrievalTypeOK

\* A step of this module is one of the summaries', or leaves them alone.
LEMMA SummariesKeepOn == RInv /\ [RetrievalNext]_retrievalVars => SInv'
<1> SUFFICES ASSUME RInv, [RetrievalNext]_retrievalVars PROVE SInv'
  OBVIOUS
<1>1. [SummariesNext]_summaryVars
  BY DEF RetrievalNext, SummariesNext, EraseIndexed, Load, PersistIndex, Abandon,
         RecordFailure, retrievalVars
<1> QED BY <1>1, SInvStep DEF RInv

LEMMA DecideKeepsIndex ==
  ASSUME RInv, SInv', Decide, UNCHANGED <<summaries, deletedAt, indexVars>> PROVE RInv'
<1>1. SInv /\ UNCHANGED <<summaries, loaded, runs, records>>
  BY DEF RInv, indexVars
<1>2. \A x \in records :
        AnchoredIn(x.record, versions', evidence', decisions', resolutions', summaries')
  BY <1>1, DecideLeavesAnchors DEF RInv
<1> QED BY <1>1, <1>2 DEF RInv, RetrievalTypeOK

LEMMA ProcessKeepsIndex ==
  ASSUME RInv, SInv', NEW e, Process(e), UNCHANGED indexVars PROVE RInv'
<1>1. SInv /\ UNCHANGED <<loaded, runs, records>>
  BY DEF RInv, indexVars
<1>2. \A x \in records :
        AnchoredIn(x.record, versions', evidence', decisions', resolutions', summaries')
  BY <1>1, ProcessLeavesAnchors DEF RInv
<1> QED BY <1>1, <1>2 DEF RInv, RetrievalTypeOK

\* A stored record is one of its run's.
LEMMA StoredIsShaped == ASSUME RInv, NEW x \in records PROVE Shaped(x.record)
<1>1. \E r \in runs : x.record \in r.records
  BY DEF RInv, RetrievalTypeOK
<1> QED BY <1>1 DEF RInv

LEMMA EraseKeepsIndex ==
  ASSUME RInv, SInv', NEW s \in Sources, NEW t \in IngestedAt[s] .. MaxTime, EraseIndexed(s, t)
  PROVE  RInv'
<1>1. /\ SInv /\ Erase(s, t) /\ UNCHANGED <<loaded, runs>>
      /\ \A x \in records' : x \in records /\ ~Cut(x.record, s)
  BY DEF RInv, EraseIndexed
<1>2. \A x \in records' :
        AnchoredIn(x.record, versions', evidence', decisions', resolutions', summaries')
  <2> SUFFICES ASSUME NEW x \in records'
               PROVE  AnchoredIn(x.record, versions', evidence', decisions', resolutions', summaries')
    OBVIOUS
  <2>1. /\ Shaped(x.record) /\ ~Cut(x.record, s)
        /\ AnchoredIn(x.record, versions, evidence, decisions, resolutions, summaries)
    BY <1>1, StoredIsShaped DEF RInv
  <2> QED BY <1>1, <2>1, EraseLeavesAnchors
<1>3. RetrievalTypeOK'
  BY <1>1 DEF RInv, RetrievalTypeOK
<1> QED BY <1>1, <1>2, <1>3 DEF RInv

LEMMA LoadKeepsIndex == ASSUME RInv, SInv', NEW at \in Times, Load(at) PROVE RInv'
<1> DEFINE b == [at |-> at, records |-> Inputs(at)]
<1>1. /\ loaded' = {b} /\ UNCHANGED <<summaryVars, runs, records>>
      /\ b.at = at /\ b.records = Inputs(at)
  BY DEF Load
<1>2. \A x \in b.records : Shaped(x) /\ x.from <= at /\ at < x.to
  BY <1>1, InputsAreShaped DEF RInv
<1> HIDE DEF b
<1>3. Cardinality(loaded') <= 1
  BY <1>1, FS_Singleton
<1>4. UNCHANGED <<versions, evidence, decisions, resolutions, summaries, runs, records>>
  BY <1>1 DEF summaryVars, beliefVars, vars
<1>5. RetrievalTypeOK'
  BY <1>3, <1>4 DEF RInv, RetrievalTypeOK
<1> QED BY <1>1, <1>2, <1>4, <1>5 DEF RInv

LEMMA PersistKeepsIndex == ASSUME RInv, SInv', NEW k \in RunKeys, PersistIndex(k) PROVE RInv'
<1>1. PICK b \in loaded :
        /\ \A x \in b.records : Anchored(x) /\ \A y \in records : y.record # x
        /\ runs' = runs \cup
             {[key |-> k, at |-> b.at, succeeded |-> TRUE, records |-> b.records]}
        /\ records' = records \cup {[run |-> k, record |-> x] : x \in b.records}
  BY DEF PersistIndex
<1>2. Unstarted(k) /\ loaded' = {} /\ UNCHANGED summaryVars
  BY DEF PersistIndex
<1> DEFINE new == [key |-> k, at |-> b.at, succeeded |-> TRUE, records |-> b.records]
<1>3. /\ new.key = k /\ new.at = b.at /\ new.succeeded = TRUE /\ new.records = b.records
      /\ runs' = runs \cup {new}
  BY <1>1
<1> HIDE DEF new
<1>4. UNCHANGED <<versions, evidence, decisions, resolutions, summaries>>
  BY <1>2 DEF summaryVars, beliefVars, vars
<1>5. \A x \in records' :
        \/ x \in records
        \/ x.run = k /\ x.record \in b.records /\ x = [run |-> k, record |-> x.record]
  BY <1>1
<1>6. Cardinality(loaded') <= 1
  BY <1>2, FS_EmptySet
<1>7. b.at \in Times /\ \A x \in b.records : Shaped(x) /\ x.from <= b.at /\ b.at < x.to
  BY DEF RInv
<1>8. RetrievalTypeOK'
  <2>1. \A r \in runs' : /\ r.key \in RunKeys /\ r.at \in Times /\ r.succeeded \in BOOLEAN
                         /\ ~r.succeeded => r.records = {}
    BY <1>3, <1>7 DEF RInv, RetrievalTypeOK
  <2>2. \A x \in records' : \E r \in runs' : r.key = x.run /\ x.record \in r.records
    BY <1>3, <1>5 DEF RInv, RetrievalTypeOK
  <2> QED BY <1>6, <2>1, <2>2 DEF RetrievalTypeOK
<1>9. \A r, q \in runs' : r.key = q.key => r = q
  BY <1>2, <1>3 DEF RInv, Unstarted
<1>10. \A x, y \in records' : x.record = y.record => x = y
  BY <1>1, <1>5 DEF RInv
<1>11. \A r \in loaded' \cup runs' :
         r.at \in Times /\ \A x \in r.records : Shaped(x) /\ x.from <= r.at /\ r.at < x.to
  BY <1>2, <1>3, <1>7 DEF RInv
<1>12. \A x \in records' :
         AnchoredIn(x.record, versions, evidence, decisions, resolutions, summaries)
  BY <1>1, <1>5, AnchoredNow DEF RInv
<1> QED BY <1>2, <1>4, <1>8, <1>9, <1>10, <1>11, <1>12 DEF RInv

LEMMA FailureKeepsIndex ==
  ASSUME RInv, SInv', NEW k \in RunKeys, NEW at \in Times, RecordFailure(k, at) PROVE RInv'
<1> DEFINE new == [key |-> k, at |-> at, succeeded |-> FALSE, records |-> {}]
<1>1. /\ Unstarted(k) /\ runs' = runs \cup {new} /\ UNCHANGED <<summaryVars, loaded, records>>
      /\ new.key = k /\ new.at = at /\ new.succeeded = FALSE /\ new.records = {}
  BY DEF RecordFailure
<1> HIDE DEF new
<1>2. UNCHANGED <<versions, evidence, decisions, resolutions, summaries>>
  BY <1>1 DEF summaryVars, beliefVars, vars
<1>3. RetrievalTypeOK'
  BY <1>1 DEF RInv, RetrievalTypeOK
<1>4. \A r, q \in runs' : r.key = q.key => r = q
  BY <1>1 DEF RInv, Unstarted
<1>5. \A r \in loaded' \cup runs' :
        r.at \in Times /\ \A x \in r.records : Shaped(x) /\ x.from <= r.at /\ r.at < x.to
  BY <1>1 DEF RInv
<1> QED BY <1>1, <1>2, <1>3, <1>4, <1>5 DEF RInv

LEMMA RInvStep == RInv /\ [RetrievalNext]_retrievalVars => RInv'
<1> SUFFICES ASSUME RInv, [RetrievalNext]_retrievalVars PROVE RInv'
  OBVIOUS
<1>1. SInv'
  BY SummariesKeepOn
<1>2. CASE Decide /\ UNCHANGED <<summaries, deletedAt, indexVars>>
  BY <1>1, <1>2, DecideKeepsIndex
<1>3. ASSUME NEW e \in Outbox, Process(e), UNCHANGED indexVars PROVE RInv'
  BY <1>1, <1>3, ProcessKeepsIndex
<1>4. ASSUME NEW s \in Sources, NEW t \in IngestedAt[s] .. MaxTime, EraseIndexed(s, t) PROVE RInv'
  BY <1>1, <1>4, EraseKeepsIndex
<1>5. ASSUME NEW at \in Times, Load(at) PROVE RInv'
  BY <1>1, <1>5, LoadKeepsIndex
<1>6. ASSUME NEW k \in RunKeys, PersistIndex(k) PROVE RInv'
  BY <1>1, <1>6, PersistKeepsIndex
<1>7. CASE Abandon
  <2>1. loaded' = {} /\ UNCHANGED <<summaryVars, runs, records>> /\ Cardinality(loaded') <= 1
    BY <1>7, FS_EmptySet DEF Abandon
  <2>2. UNCHANGED <<versions, evidence, decisions, resolutions, summaries>>
    BY <2>1 DEF summaryVars, beliefVars, vars
  <2>3. RetrievalTypeOK'
    BY <2>1 DEF RInv, RetrievalTypeOK
  <2> QED BY <1>1, <2>1, <2>2, <2>3 DEF RInv
<1>8. ASSUME NEW k \in RunKeys, NEW at \in Times, RecordFailure(k, at) PROVE RInv'
  BY <1>1, <1>8, FailureKeepsIndex
<1>9. CASE UNCHANGED retrievalVars
  <2>1. UNCHANGED <<loaded, runs, records, versions, evidence, decisions, resolutions, summaries>>
    BY <1>9 DEF retrievalVars, indexVars, summaryVars, beliefVars, vars
  <2> QED BY <1>1, <2>1 DEF RInv, RetrievalTypeOK
<1> QED BY <1>2, <1>3, <1>4, <1>5, <1>6, <1>7, <1>8, <1>9 DEF RetrievalNext

THEOREM RInvAlways == RetrievalSpec => []RInv
BY RInvInit, RInvStep, PTL DEF RetrievalSpec

\* Whatever is deleted, rewound and replayed between the reads of a build and its
\* writes and afterwards, a stored record says only what stored versions say, on
\* stored evidence, and names only relations that are stored (migration 0008,
\* RetrievalIndexRepository.persist).
THEOREM RetrievalAlwaysGrounded == RetrievalSpec => []RetrievalIsGrounded
BY RInvAlways, RInvSound, PTL

-----------------------------------------------------------------------------
\* A search in two transactions.

\* A bound filter finds again what it has found, and nothing else.
LEMMA BoundIsTheSame ==
  ASSUME RInv, RInv', forgotten \subseteq forgotten',
         NEW q \in Queries, NEW r \in runs,
         NEW f, f = [query |-> q, run |-> r, rows |-> Of(r.key),
                     eligible |-> {x \in Of(r.key) : Retrievable(x, q)}],
         Bound(f)'
  PROVE  f.eligible = {x \in Of(f.run.key)' : Retrievable(x, q)'}
<1>1. /\ f.query = q /\ f.run = r /\ f.rows = Of(r.key)
      /\ f.eligible = {x \in Of(r.key) : Retrievable(x, q)}
  OBVIOUS
<1>2. Of(r.key)' = Of(r.key) /\ \A x \in f.eligible : Rests(x, q.at)'
  BY <1>1 DEF Bound
<1>3. ASSUME NEW x \in Of(r.key), Retrievable(x, q) PROVE Retrievable(x, q)'
  <2>1. Rests(x, q.at)'
    BY <1>1, <1>2, <1>3
  <2> QED BY <1>3, <2>1 DEF Retrievable
<1>4. ASSUME NEW x \in Of(r.key), Retrievable(x, q)' PROVE Retrievable(x, q)
  <2>1. Rests(x, q.at)'
    BY <1>4 DEF Retrievable
  <2>2. Visible(q.at)' \subseteq Visible(q.at)
    BY DEF Visible
  <2>3. \A i \in x.relations : Linked(i, decisions, resolutions)
    BY DEF Of, RInv, AnchoredIn
  <2>4. \A i \in x.relations : InstantOf(i) <= q.at
    <3> SUFFICES ASSUME NEW i \in x.relations PROVE InstantOf(i) <= q.at
      OBVIOUS
    <3>1. PICK z \in Relations' : z.id = i /\ z.at <= q.at
      BY <2>1 DEF Rests
    <3>2. z \in Checked(decisions') \cup Superseding(resolutions')
      BY DEF Relations
    <3> QED BY <3>1, <3>2, RelationFields
  <2>5. x.relations \subseteq {z.id : z \in {y \in Relations : y.at <= q.at}}
    BY <2>3, <2>4, RelationsAreLinked
  <2>6. Rests(x, q.at)
    BY <2>1, <2>2, <2>5 DEF Rests
  <2> QED BY <1>4, <2>6 DEF Retrievable
<1> QED BY <1>1, <1>2, <1>3, <1>4

\* Sources that are deleted stay deleted.
LEMMA ForgottenForGood == RInv /\ [RetrievalNext]_retrievalVars => forgotten \subseteq forgotten'
<1> SUFFICES ASSUME RInv, [RetrievalNext]_retrievalVars PROVE forgotten \subseteq forgotten'
  OBVIOUS
<1>1. CASE Decide
  BY <1>1, DecideStep DEF RInv, SInv, AllKept
<1>2. ASSUME NEW s, NEW t, EraseIndexed(s, t) PROVE forgotten \subseteq forgotten'
  BY <1>2 DEF EraseIndexed, Erase, DeleteSource, DeleteSourceWith
<1>3. ASSUME UNCHANGED beliefVars PROVE forgotten \subseteq forgotten'
  BY <1>3 DEF beliefVars, vars
<1>4. ASSUME UNCHANGED summaryVars PROVE forgotten \subseteq forgotten'
  BY <1>3, <1>4 DEF summaryVars
<1> QED BY <1>1, <1>2, <1>3, <1>4
    DEF RetrievalNext, Process, Load, PersistIndex, Abandon, RecordFailure, retrievalVars

\* A search that goes on with what a filter of an earlier transaction found, and is
\* not refused, has what it would find itself, whatever the step in between
\* (RetrievalSearchRepository._bind_snapshot).
THEOREM FiltersAlwaysAgeWell == RetrievalSpec => FiltersAgeWell
<1> DEFINE Ages == \A q \in Queries : \A f \in Filtered(q) :
              Bound(f)' => f.eligible = {x \in Of(f.run.key)' : Retrievable(x, q)'}
<1>1. ASSUME RInv, [RetrievalNext]_retrievalVars, NEW q \in Queries, NEW f \in Filtered(q), Bound(f)'
      PROVE  f.eligible = {x \in Of(f.run.key)' : Retrievable(x, q)'}
  <2>1. PICK r \in runs : f = [query |-> q, run |-> r, rows |-> Of(r.key),
                               eligible |-> {x \in Of(r.key) : Retrievable(x, q)}]
    BY DEF Filtered, Newest, Searchable
  <2> QED BY <1>1, <2>1, RInvStep, ForgottenForGood, BoundIsTheSame
<1>2. RInv /\ [RetrievalNext]_retrievalVars => [Ages]_retrievalVars
  BY <1>1
<1> QED BY <1>2, RInvAlways, PTL DEF RetrievalSpec, FiltersAgeWell

-----------------------------------------------------------------------------
\* What a fresh index answers.

Anything(at) == [at |-> at, statuses |-> Statuses \ {"excluded"}]

LEMMA RelationsAreDated == SInv => \A z \in Relations : z.at \in Times
<1> SUFFICES ASSUME SInv, NEW z \in Relations PROVE z.at \in Times
  OBVIOUS
<1>1. \A d \in decisions : GoodDecision(d)
  BY DEF SInv, BInv, Founded
<1>2. \A r \in resolutions : GoodResolution(r)
  BY DEF SInv, BInv, Founded
<1>3. CASE z \in Checked(decisions)
  <2>1. PICK d \in decisions : z.at = Since(d)
    BY <1>3 DEF Checked
  <2> QED BY <1>1, <2>1 DEF GoodDecision, Since
<1>4. CASE z \in Superseding(resolutions)
  <2>1. PICK r \in resolutions : z.at = r.at
    BY <1>4 DEF Superseding
  <2> QED BY <1>2, <2>1 DEF GoodResolution
<1> QED BY <1>3, <1>4 DEF Relations

\* A search finds the record of a version unless a relation of it is premature.
LEMMA AtomicIsFound ==
  ASSUME SInv, NEW at \in Times, NEW v \in versions, Recorded(v, at), Support(v.claim, at) # {},
         v.status # "excluded"
  PROVE  Retrievable(Atomic(v, at), Anything(at)) <=> v.claim \notin Premature(at)
<1> DEFINE x == Atomic(v, at)
           q == Anything(at)
<1>1. /\ x.from = v.from /\ x.to = v.to /\ x.says = {Says(v, s) : s \in Support(v.claim, at)}
      /\ x.relations = {z.id : z \in {y \in Relations : v.claim \in y.pair /\ y.created <= at}}
      /\ q.at = at /\ q.statuses = Statuses \ {"excluded"}
  BY AtomicFields DEF Anything
<1> HIDE DEF x, q
<1>2. \A y \in x.says : y.source \in Visible(at) /\ y.status = v.status
  <2>1. \A s \in Support(v.claim, at) : s \in Visible(at)
    BY DEF Support, Visible, SInv, OutboxIsDated
  <2> QED BY <1>1, <2>1, SaysFields
<1>3. v.status \in Statuses
  BY DEF SInv, BInv, TypeOK, Version
<1>4. x.says # {}
  BY <1>1
<1>5. {y.status : y \in x.says} \cap q.statuses # {}
  BY <1>1, <1>2, <1>3, <1>4
<1>6. \A z \in Relations : z.at <= at <=> ~(at < z.at)
  BY RelationsAreDated, Clocks
<1>7. Rests(x, at) <=> v.claim \notin Premature(at)
  <2>1. {y.source : y \in x.says} \subseteq Visible(at)
    BY <1>2
  <2>2. ASSUME v.claim \notin Premature(at)
        PROVE  x.relations \subseteq {z.id : z \in {y \in Relations : y.at <= at}}
    BY <1>1, <1>6, <2>2 DEF Premature
  <2>3. ASSUME x.relations \subseteq {z.id : z \in {y \in Relations : y.at <= at}},
               NEW z \in Relations, v.claim \in z.pair, z.created <= at
        PROVE  z.at <= at
    <3>1. PICK y \in Relations : y.id = z.id /\ y.at <= at
      BY <1>1, <2>3
    <3>2. y.at = InstantOf(y.id) /\ z.at = InstantOf(z.id)
      BY RelationFields DEF Relations
    <3> QED BY <3>1, <3>2
  <2>4. ASSUME x.relations \subseteq {z.id : z \in {y \in Relations : y.at <= at}}
        PROVE  v.claim \notin Premature(at)
    BY <1>6, <2>3, <2>4 DEF Premature
  <2> QED BY <1>4, <2>1, <2>2, <2>4 DEF Rests
<1>8. Retrievable(x, q) <=> v.claim \notin Premature(at)
  BY <1>1, <1>5, <1>7 DEF Retrievable, Recorded
<1> QED BY <1>8 DEF x, q

LEMMA SessionIsFound ==
  ASSUME SInv, NEW at \in Times, NEW z \in summaries, z.input.at <= at, at < z.to
  PROVE  Retrievable(OfSession(z), Anything(at))
<1> DEFINE x == OfSession(z)
           q == Anything(at)
<1>1. /\ x.from = z.input.at /\ x.to = z.to /\ x.relations = {}
      /\ x.says = {Says(y[1], y[2]) : y \in z.input.told}
      /\ q.at = at /\ q.statuses = Statuses \ {"excluded"}
  BY SessionFieldsOf DEF Anything
<1> HIDE DEF x, q
<1>2. /\ z.input.told # {} /\ z.input.at \in Times
      /\ \A y \in z.input.told :
           /\ y[1].status \in Statuses \ {"excluded"}
           /\ y[2] \in Sources \ forgotten /\ IngestedAt[y[2]] <= z.input.at
  BY DEF SInv, GoodSummary, Rooted, Version
<1>3. \A s \in Sources : IngestedAt[s] <= z.input.at => IngestedAt[s] <= at
  <2>1. \A s \in Sources : IngestedAt[s] \in Int
    BY LifecycleAssumption, Clocks
  <2> QED BY <1>2, <2>1, Clocks
<1>4. \A y \in x.says : y.source \in Visible(at) /\ y.status \in Statuses \ {"excluded"}
  BY <1>1, <1>2, <1>3, SaysFields DEF Visible
<1>5. x.says # {}
  BY <1>1, <1>2
<1>6. {y.status : y \in x.says} \cap q.statuses # {}
  BY <1>1, <1>4, <1>5
<1>7. Rests(x, at)
  <2>1. {y.source : y \in x.says} \subseteq Visible(at)
    BY <1>4
  <2> QED BY <1>1, <1>5, <2>1 DEF Rests
<1>8. Retrievable(x, q)
  BY <1>1, <1>6, <1>7 DEF Retrievable
<1> QED BY <1>8 DEF x, q

\* The two kinds of inputs.
LEMMA KindsOfInputs ==
  ASSUME NEW at
  PROVE  /\ OfKind(Inputs(at), "atomic") = AtomicInputs(at)
         /\ OfKind(Inputs(at), "session") = SessionInputs(at)
<1>1. \A x \in AtomicInputs(at) : x.of[1] = "atomic"
  BY AtomicFields DEF AtomicInputs
<1>2. \A x \in SessionInputs(at) : x.of[1] = "session"
  BY SessionFieldsOf DEF SessionInputs
<1> QED BY <1>1, <1>2 DEF Inputs, OfKind

LEMMA StatedIsAnswered ==
  ASSUME SInv, NEW at \in Times,
         NEW found, found = {x \in AtomicInputs(at) : Retrievable(x, Anything(at))}
  PROVE  Stated(found) = {a \in Answers(at) : a[1] \notin Premature(at)}
<1> DEFINE Kept(v) == /\ v \in versions /\ Recorded(v, at) /\ Support(v.claim, at) # {}
                       /\ v.status # "excluded" /\ v.claim \notin Restricted
<1>0. \A v : Kept(v) => (Retrievable(Atomic(v, at), Anything(at)) <=> v.claim \notin Premature(at))
  BY AtomicIsFound
<1>1. ASSUME NEW z \in Stated(found)
      PROVE  z \in Answers(at) /\ z[1] \notin Premature(at)
  <2>1. PICK x \in AtomicInputs(at) : /\ \E y \in x.says : z = <<y.claim, y.status, y.source>>
                                     /\ Retrievable(x, Anything(at))
    BY DEF Stated
  <2>2. PICK v : Kept(v) /\ x = Atomic(v, at)
    BY DEF AtomicInputs
  <2>7. v.claim \notin Premature(at)
    BY <1>0, <2>1, <2>2
  <2>3. PICK s \in Support(v.claim, at) :
          z = <<Says(v, s).claim, Says(v, s).status, Says(v, s).source>>
    BY <2>1, <2>2, AtomicFields
  <2>4. z = <<v.claim, v.status, s>>
    BY <2>3, SaysFields
  <2> DEFINE p == [claim |-> v.claim, status |-> v.status, from |-> v.from,
                   support |-> Support(v.claim, at)]
  <2>5. p \in Answer(at)
    BY <2>2 DEF Answer
  <2>6. z \in {p.claim} \X {p.status} \X p.support /\ p.status # "excluded" /\ p.claim \notin Restricted
    BY <2>2, <2>4
  <2>8. z[1] = v.claim
    BY <2>4
  <2> HIDE DEF p
  <2> QED BY <2>5, <2>6, <2>7, <2>8 DEF Answers
<1>2. ASSUME NEW z \in Answers(at), z[1] \notin Premature(at)
      PROVE  z \in Stated(found)
  <2>1. PICK v : /\ Kept(v)
                 /\ z \in {v.claim} \X {v.status} \X Support(v.claim, at)
    BY DEF Answers, Answer
  <2>2. PICK s \in Support(v.claim, at) : z = <<v.claim, v.status, s>>
    BY <2>1
  <2> DEFINE x == Atomic(v, at)
             y == Says(v, s)
  <2>3. x \in found
    <3>1. z[1] = v.claim
      BY <2>2
    <3>2. x \in AtomicInputs(at)
      BY <2>1 DEF AtomicInputs
    <3>3. Retrievable(Atomic(v, at), Anything(at))
      BY <1>0, <1>2, <2>1, <3>1
    <3> QED BY <3>2, <3>3
  <2>4. y \in x.says
    BY AtomicFields
  <2>5. z = <<y.claim, y.status, y.source>>
    BY <2>2, SaysFields
  <2> HIDE DEF x, y
  <2> QED BY <2>3, <2>4, <2>5 DEF Stated
<1> QED BY <1>1, <1>2

LEMMA StoredTellsTheTruth ==
  ASSUME RInv, NEW k \in RunKeys, NEW b \in loaded, PersistIndex(k), b.records = Inputs(b.at),
         NEW found, found = {x \in Of(k)' : Retrievable(x, Anything(b.at))'}
  PROVE  /\ Stated(OfKind(found, "atomic")) = {a \in Answers(b.at) : a[1] \notin Premature(b.at)}
         /\ OfKind(found, "session") = SessionInputs(b.at)
<1>1. records' = records \cup {[run |-> k, record |-> x] : x \in b.records}
  BY DEF PersistIndex, RInv
<1>2. Of(k)' = b.records
  <2>1. \A x \in records : x.run # k
    BY DEF RInv, RetrievalTypeOK, PersistIndex, Unstarted
  <2>2. \A x \in records' : x.run = k => x.record \in b.records
    BY <1>1, <2>1
  <2>3. \A x \in b.records : \E y \in records' : y.run = k /\ y.record = x
    <3> SUFFICES ASSUME NEW x \in b.records PROVE \E y \in records' : y.run = k /\ y.record = x
      OBVIOUS
    <3> DEFINE y == [run |-> k, record |-> x]
    <3>1. y \in records' /\ y.run = k /\ y.record = x
      BY <1>1
    <3> QED BY <3>1
  <2> QED BY <2>2, <2>3 DEF Of
<1>3. UNCHANGED <<forgotten, decisions, resolutions>>
  BY DEF PersistIndex, summaryVars, beliefVars, vars
<1>4. SInv /\ b.at \in Times
  BY DEF RInv
<1>5. \A x, q : Retrievable(x, q)' <=> Retrievable(x, q)
  <2>1. \A x, at : Rests(x, at)' <=> Rests(x, at)
    BY <1>3 DEF Rests, Visible, Relations
  <2> QED BY <2>1 DEF Retrievable
<1>6. found = {x \in Inputs(b.at) : Retrievable(x, Anything(b.at))}
  <2> DEFINE q == Anything(b.at)
  <2>1. found = {x \in Inputs(b.at) : Retrievable(x, q)'}
    BY <1>2
  <2> HIDE DEF q
  <2>2. found = {x \in Inputs(b.at) : Retrievable(x, q)}
    BY <1>5, <2>1
  <2> QED BY <2>2 DEF q
<1>7. OfKind(found, "atomic") = {x \in AtomicInputs(b.at) : Retrievable(x, Anything(b.at))}
  BY <1>6, KindsOfInputs DEF OfKind
<1>8. OfKind(found, "session") = SessionInputs(b.at)
  <2>1. \A x \in SessionInputs(b.at) : Retrievable(x, Anything(b.at))
    BY <1>4, SessionIsFound DEF SessionInputs
  <2> QED BY <1>6, <2>1, KindsOfInputs DEF OfKind
<1> QED BY <1>4, <1>7, <1>8, StatedIsAnswered

\* A build that nothing has overtaken leaves an index that answers as the temporal
\* service and the summaries of its cutoff do (RetrievalQueryRepository.filter,
\* TemporalService.query).
THEOREM IndexAlwaysTrue == RetrievalSpec => IndexTellsTheTruth
<1> DEFINE Truth == \A k \in RunKeys, b \in loaded :
              PersistIndex(k) /\ b.records = Inputs(b.at) =>
                LET q == [at |-> b.at, statuses |-> Statuses \ {"excluded"}]
                    found == {x \in Of(k)' : Retrievable(x, q)'}
                IN  /\ Stated(OfKind(found, "atomic")) =
                         {a \in Answers(b.at) : a[1] \notin Premature(b.at)}
                    /\ OfKind(found, "session") =
                         {OfSession(x) : x \in {y \in summaries : y.input.at <= b.at /\ b.at < y.to}}
<1>1. RInv => Truth
  BY StoredTellsTheTruth DEF Anything, SessionInputs
<1>2. RInv /\ [RetrievalNext]_retrievalVars => [Truth]_retrievalVars
  BY <1>1
<1> QED BY <1>2, RInvAlways, PTL DEF RetrievalSpec, IndexTellsTheTruth

-----------------------------------------------------------------------------
\* What is answered.

\* What hydrated records say is answered: a version recorded at the instant says it.
LEMMA HydratedIsAnswered ==
  ASSUME RInv, NEW r, NEW at, NEW x, Hydrates({x}, r, at), NEW y \in x.says
  PROVE  /\ \E v \in versions : Id(v) = Id(y) /\ Recorded(v, at)
         /\ y.status \in Statuses \ {"excluded"}
         /\ <<y.claim, y.status, y.source>> \in Answers(at)
<1>1. /\ Anchored(x) /\ y.claim \notin Restricted /\ y.status # "excluded"
      /\ IngestedAt[y.source] <= at
      /\ \E v \in versions : Id(v) = Id(y) /\ Recorded(v, at)
  BY DEF Hydrates, HydratedClaim
<1>2. PICK v \in versions : Id(v) = Id(y) /\ Recorded(v, at)
  BY <1>1
<1>3. v.claim = y.claim /\ v.status = y.status
  BY <1>2, IdFields
<1>4. v.status \in Statuses
  BY DEF RInv, SInv, BInv, TypeOK, Version
<1>5. y.source \in Support(v.claim, at)
  <2>1. <<y.claim, y.source>> \in evidence /\ evidence \subseteq ClaimIds \X Sources
    BY <1>1 DEF Anchored, RInv, SInv, BInv, TypeOK
  <2>2. y.source \in Sources
    BY <2>1
  <2> QED BY <1>1, <1>3, <2>1, <2>2 DEF Support
<1> DEFINE p == [claim |-> v.claim, status |-> v.status, from |-> v.from,
                 support |-> Support(v.claim, at)]
<1>6. p \in Answer(at)
  BY <1>2, <1>5 DEF Answer
<1>7. /\ <<y.claim, y.status, y.source>> \in {p.claim} \X {p.status} \X p.support
      /\ p.status # "excluded" /\ p.claim \notin Restricted
  BY <1>1, <1>3, <1>5
<1> HIDE DEF p
<1>8. <<y.claim, y.status, y.source>> \in Answers(at)
  BY <1>6, <1>7 DEF Answers
<1> QED BY <1>1, <1>3, <1>4, <1>8

\* One version of a claim is recorded at an instant.
LEMMA OneIsRecorded ==
  ASSUME SInv, NEW at \in Times, NEW v \in versions, NEW w \in versions,
         Recorded(v, at), Recorded(w, at), v.claim = w.claim
  PROVE  v = w
<1>1. v # w => v.to <= w.from \/ w.to <= v.from
  BY DEF SInv, BInv, Fits, Partitions
<1>2. v \in Version /\ w \in Version
  BY DEF SInv, BInv, TypeOK
<1>3. at \in Int /\ v.from \in Int /\ w.from \in Int /\ v.to \in Int /\ w.to \in Int
  BY <1>2, Clocks DEF Version
<1> QED BY <1>1, <1>3 DEF Recorded

\* Answers hold one status of a claim.
LEMMA AnswersAgree ==
  ASSUME SInv, NEW at \in Times, NEW v \in versions, Recorded(v, at),
         NEW a \in Answers(at), a[1] = v.claim
  PROVE  a[2] = v.status
<1>1. PICK p \in Answer(at) : a \in {p.claim} \X {p.status} \X p.support
  BY DEF Answers
<1>2. PICK w \in versions : Recorded(w, at) /\ p.claim = w.claim /\ p.status = w.status
  BY DEF Answer
<1>3. a[1] = w.claim /\ a[2] = w.status
  BY <1>1, <1>2
<1> QED BY <1>2, <1>3, OneIsRecorded

\* What a package says of what is said in y.
Entry(xs, y) ==
  [claim |-> y.claim, key |-> y.key, status |-> y.status, from |-> y.from,
   support |-> {z.source : z \in {w \in UNION {x.says : x \in xs} : Id(w) = Id(y)}},
   relations |-> UNION {x.relations : x \in {w \in xs : w.of = <<"atomic", Id(y)>>}}]

LEMMA EntryFields ==
  ASSUME NEW xs, NEW y
  PROVE  /\ Entry(xs, y).claim = y.claim /\ Entry(xs, y).status = y.status
         /\ \A z : Id(z) = Id(y) => Entry(xs, z) = Entry(xs, y)
<1>1. ASSUME NEW z, Id(z) = Id(y) PROVE Entry(xs, z) = Entry(xs, y)
  <2>1. z.claim = y.claim /\ z.key = y.key /\ z.status = y.status /\ z.from = y.from
    BY <1>1, IdFields
  <2> QED BY <1>1, <2>1 DEF Entry
<1> QED BY <1>1 DEF Entry

\* A package of hydrated records: what it says is answered, of each claim one thing.
Truthful(P, at) ==
  /\ \A e \in P : /\ e.status \in Statuses \ {"excluded"}
                  /\ \E a \in Answers(at) : a[1] = e.claim /\ a[2] = e.status
                  /\ \A a \in Answers(at) : a[1] = e.claim => a[2] = e.status
  /\ \A e, f \in P : e.claim = f.claim => e = f

LEMMA PackagesAreTruthful ==
  ASSUME RInv, NEW r, NEW at \in Times, NEW xs, \A x \in xs : Hydrates({x}, r, at)
  PROVE  Stated(xs) \subseteq Answers(at) /\ Truthful(Hydrated(xs), at)
<1> DEFINE P == Hydrated(xs)
           said == UNION {x.says : x \in xs}
<1>1. ASSUME NEW y \in said
      PROVE  /\ \E v \in versions : Id(v) = Id(y) /\ Recorded(v, at)
             /\ y.status \in Statuses \ {"excluded"}
             /\ <<y.claim, y.status, y.source>> \in Answers(at)
  <2>1. PICK x \in xs : y \in x.says
    OBVIOUS
  <2> QED BY <2>1, HydratedIsAnswered
<1>2. P = {Entry(xs, y) : y \in said}
  BY DEF Hydrated, Entry
<1>3. Stated(xs) \subseteq Answers(at)
  BY <1>1 DEF Stated
<1> HIDE DEF P, said
<1>4. ASSUME NEW e \in P
      PROVE  /\ e.status \in Statuses \ {"excluded"}
             /\ \E a \in Answers(at) : a[1] = e.claim /\ a[2] = e.status
             /\ \A a \in Answers(at) : a[1] = e.claim => a[2] = e.status
  <2>1. PICK y \in said : e.claim = y.claim /\ e.status = y.status
    BY <1>2, EntryFields
  <2>2. PICK v \in versions : Id(v) = Id(y) /\ Recorded(v, at)
    BY <1>1
  <2>3. v.claim = e.claim /\ v.status = e.status
    BY <2>1, <2>2, IdFields
  <2>4. \A a \in Answers(at) : a[1] = e.claim => a[2] = e.status
    BY <2>2, <2>3, AnswersAgree DEF RInv
  <2>5. \E a \in Answers(at) : a[1] = e.claim /\ a[2] = e.status
    <3> DEFINE a == <<y.claim, y.status, y.source>>
    <3>1. a \in Answers(at) /\ a[1] = e.claim /\ a[2] = e.status
      BY <1>1, <2>1
    <3> QED BY <3>1
  <2> QED BY <1>1, <2>1, <2>4, <2>5
<1>5. ASSUME NEW e \in P, NEW f \in P, e.claim = f.claim PROVE e = f
  <2>1. PICK y \in said : e = Entry(xs, y) /\ e.claim = y.claim
    BY <1>2, EntryFields
  <2>2. PICK z \in said : f = Entry(xs, z) /\ f.claim = z.claim
    BY <1>2, EntryFields
  <2>3. PICK v \in versions : Id(v) = Id(y) /\ Recorded(v, at)
    BY <1>1
  <2>4. PICK w \in versions : Id(w) = Id(z) /\ Recorded(w, at)
    BY <1>1
  <2>5. v.claim = w.claim
    BY <1>5, <2>1, <2>2, <2>3, <2>4, IdFields
  <2>6. v = w
    BY <2>3, <2>4, <2>5, OneIsRecorded DEF RInv
  <2>7. Id(y) = Id(z)
    BY <2>3, <2>4, <2>6
  <2> QED BY <2>1, <2>2, <2>7, EntryFields
<1> QED BY <1>3, <1>4, <1>5 DEF Truthful, P

LEMMA Categories ==
  ASSUME NEW e, e.status \in Statuses \ {"excluded"}, e.status # "candidate"
  PROVE  /\ Category(e) = "conflicting" <=> e.status = "disputed"
         /\ Category(e) # "historical" => e.status \in {"confirmed", "current", "disputed"}
BY DEF Category, Statuses

\* What answers a part is promoted, and about the current state nothing historical is.
LEMMA AcceptedParts ==
  ASSUME NEW p, NEW P, NEW at, NEW e \in Accepted(p, P, at)
  PROVE  /\ e \in P /\ e.status # "candidate"
         /\ p.kind = "current_state" => Category(e) # "historical"
<1> DEFINE f == Sieve(p, P, at)
<1>1. f.disputed \subseteq f.sound /\ f.meant \subseteq f.sound
  BY DEF Sieve
<1>2. \A x \in f.sound : x \in Promoted(P) /\ (p.kind = "current_state" => Category(x) # "historical")
  BY DEF Sieve
<1>3. e \in f.disputed \/ e \in f.meant
  BY DEF Accepted
<1> HIDE DEF f
<1> QED BY <1>1, <1>2, <1>3 DEF Promoted

LEMMA PolicyAnswers ==
  ASSUME NEW P, NEW q, NEW at, NEW d, d = Policy(P, q, at), d.decision = "answerable"
  PROVE  /\ d.accepted = UNION {Accepted(p, P, at) : p \in q.parts}
         /\ d.status \in {"answered", "disputed", "partially_answered"}
BY DEF Policy

LEMMA PolicyDisputes ==
  ASSUME NEW P, NEW q, NEW at, NEW d, d = Policy(P, q, at), d.decision = "answerable",
         d.status = "disputed"
  PROVE  \A e \in d.accepted : Category(e) = "conflicting"
BY DEF Policy

\* A dispute that a full answer tells has another side in it.
LEMMA DisputesHaveSides ==
  ASSUME NEW P, NEW q, NEW at, Truthful(P, at), NEW d \in Decisions(P, q, at),
         d.decision = "answerable", d.status # "partially_answered",
         NEW e \in d.accepted, NEW a \in Answers(at), a[1] = e.claim, a[2] = "disputed"
  PROVE  \E f \in d.accepted : f.claim # e.claim /\ f.status = "disputed"
<1>1. d = Policy(P, q, at) /\ Lawful(d)
  BY DEF Decisions
<1>2. \A x \in d.accepted : /\ x \in P /\ x.status \in Statuses \ {"excluded"}
                            /\ Category(x) = "conflicting" <=> x.status = "disputed"
  <2> SUFFICES ASSUME NEW x \in d.accepted
               PROVE  /\ x \in P /\ x.status \in Statuses \ {"excluded"}
                      /\ Category(x) = "conflicting" <=> x.status = "disputed"
    OBVIOUS
  <2>1. PICK p \in q.parts : x \in Accepted(p, P, at)
    BY <1>1, PolicyAnswers
  <2>2. x \in P /\ x.status # "candidate"
    BY <2>1, AcceptedParts
  <2>3. x.status \in Statuses \ {"excluded"}
    BY <2>2 DEF Truthful
  <2> QED BY <2>2, <2>3, Categories
<1>3. e.status = "disputed" /\ Category(e) = "conflicting"
  BY <1>2 DEF Truthful
<1>4. d.status # "answered"
  BY <1>1, <1>3 DEF Lawful
<1>5. d.status = "disputed"
  BY <1>1, <1>4, PolicyAnswers
<1>6. \A x \in d.accepted : Category(x) = "conflicting"
  BY <1>1, <1>5, PolicyDisputes
<1>7. Cardinality(d.accepted) >= 2
  BY <1>1, <1>5 DEF Lawful
<1>8. d.accepted # {e}
  <2>1. Cardinality({e}) = 1
    BY FS_Singleton
  <2> QED BY <1>7, <2>1
<1>9. PICK f \in d.accepted : f # e
  BY <1>8
<1>10. f.claim # e.claim
  BY <1>2, <1>9 DEF Truthful
<1> QED BY <1>2, <1>6, <1>9, <1>10

LEMMA RInvAnswers == RInv => AnswersAreTrue
<1> SUFFICES ASSUME RInv, NEW r \in runs, NEW at \in Times,
                    NEW xs \in SUBSET {x \in r.records : Hydrates({x}, r, at)}
             PROVE  /\ Stated(xs) \subseteq Answers(at)
                    /\ \A q \in Questions : \A d \in Decisions(Hydrated(xs), q, at) :
                        d.decision = "answerable" =>
                          /\ \A p \in q.parts : p.kind = "current_state" =>
                               \A e \in Accepted(p, Hydrated(xs), at) :
                                  \E s \in {"confirmed", "current", "disputed"} :
                                    \E a \in Answers(at) : a[1] = e.claim /\ a[2] = s
                          /\ \A e \in d.accepted :
                               (\E s \in {"disputed"} :
                                  \E a \in Answers(at) : a[1] = e.claim /\ a[2] = s) =>
                               \/ d.status = "partially_answered"
                               \/ \E f \in d.accepted : f.claim # e.claim /\ f.status = "disputed"
  BY DEF AnswersAreTrue
<1> DEFINE P == Hydrated(xs)
<1>1. Stated(xs) \subseteq Answers(at) /\ Truthful(P, at)
  BY PackagesAreTruthful
<1> HIDE DEF P
<1>2. ASSUME NEW q \in Questions, NEW p \in q.parts, p.kind = "current_state",
             NEW e \in Accepted(p, P, at)
      PROVE  \E s \in {"confirmed", "current", "disputed"} :
                \E a \in Answers(at) : a[1] = e.claim /\ a[2] = s
  <2>1. e \in P /\ e.status # "candidate" /\ Category(e) # "historical"
    BY <1>2, AcceptedParts
  <2>2. e.status \in Statuses \ {"excluded"} /\ \E a \in Answers(at) : a[1] = e.claim /\ a[2] = e.status
    BY <1>1, <2>1 DEF Truthful
  <2>3. e.status \in {"confirmed", "current", "disputed"}
    BY <2>1, <2>2, Categories
  <2> QED BY <2>2, <2>3
<1>3. ASSUME NEW q \in Questions, NEW d \in Decisions(P, q, at), d.decision = "answerable",
             NEW e \in d.accepted, NEW a \in Answers(at), a[1] = e.claim, a[2] = "disputed"
      PROVE  \/ d.status = "partially_answered"
             \/ \E f \in d.accepted : f.claim # e.claim /\ f.status = "disputed"
  BY <1>1, <1>3, DisputesHaveSides
<1> QED BY <1>1, <1>2, <1>3 DEF P

\* What answers a question is what the temporal service answers then: about the
\* current state nothing that is over or replaced, and of a dispute more than one
\* side (EvidencePackageRepository.hydrate, decide_answerability).
THEOREM AnswersAlwaysTrue == RetrievalSpec => []AnswersAreTrue
BY RInvAlways, RInvAnswers, PTL
=============================================================================
