----------------------------- MODULE Summaries -----------------------------
(***************************************************************************)
(* Session summaries on top of Beliefs: the coordinator that rebuilds one  *)
(* user's summaries from an outbox event (src/summaries/grounded.py), the  *)
(* versions it stores (src/summaries/summary_repository.py) and what the   *)
(* triggers and foreign keys of migration 0006 do when a source goes.      *)
(*                                                                         *)
(* A summary is its input: what it says is rendered from the claim         *)
(* versions and the evidence that it cites.                                *)
(*                                                                         *)
(* An operator whose comment begins with "Mistake" is a wrong version of   *)
(* the next operator; nothing uses it.                                     *)
(***************************************************************************)
EXTENDS Recomputation

CONSTANT
  Omitted     \* claims that are restricted or hypothetical

VARIABLE
  summaries   \* session_summaries: [session, event, input, to]; from is input.at

summaryVars == <<beliefVars, summaries, deletedAt>>

SummariesInit ==
  /\ BeliefInit
  /\ summaries = {}
  /\ NothingDeleted

-----------------------------------------------------------------------------
\* load_visible_evidence: the versions recorded at the cutoff with each support in
\* the session.
Rows(D, at) ==
  {x \in versions \X D.members : Recorded(x[1], at) /\ <<x[1].claim, x[2]>> \in evidence}

\* Mistake: excluded claims are told.
ToldAnyway(D, at) == {x \in Rows(D, at) : x[1].claim \notin Omitted}
\* _included.
Told(D, at) == {x \in Rows(D, at) : x[1].claim \notin Omitted /\ x[1].status # "excluded"}

\* The pairs that a contradicts relation joins.
Contradicting(at) ==
  {Pair(d) : d \in {e \in decisions : e.verdict.label = "contradiction" /\ e.asOf <= at}}

\* _dispute_links: the claims of the session that contradictions connect with c.
Sides(D, at, c) ==
  LET present == {x[1].claim : x \in Rows(D, at)}
      links == {p \in Contradicting(at) : p \subseteq present}
      closed == {cs \in SUBSET present :
                   c \in cs /\ \A p \in links : p \cap cs # {} => p \subseteq cs}
  IN {x \in present : \A cs \in closed : x \in cs}

Disputed(xs) == {x \in xs : x[1].status = "disputed"}

\* Every disputed claim of the session, told or not, has another side there; the
\* sides of one that is told are told and disputed.
Consistent(D, at) ==
  /\ \A x \in Disputed(Rows(D, at)) : Sides(D, at, x[1].claim) # {x[1].claim}
  /\ \A x \in Disputed(Told(D, at)) :
       Sides(D, at, x[1].claim) \subseteq {y[1].claim : y \in Disputed(Told(D, at))}

\* _snapshot: with the cutoff, which is part of the membership hash, and with the
\* end that a version has when it is read.
Input(D, at) ==
  [at |-> at, members |-> D.members, told |-> Told(D, at),
   sides |-> {Sides(D, at, x[1].claim) : x \in Disputed(Told(D, at))}]

-----------------------------------------------------------------------------
OpenSummaries == {x \in summaries : x.to = Open}
Keyed(D, e) == {x \in summaries : x.session = D.id /\ x.event = e.id}

\* persist_in_transaction inserts: no summary has the key, there is something to
\* tell, and the open summary has another input.
Fresh(Ds, e) ==
  {D \in Ds : /\ Keyed(D, e) = {} /\ Told(D, e.at) # {}
              /\ \A x \in OpenSummaries : x.session = D.id => x.input # Input(D, e.at)}

\* Mistake: summaries that are closed already are closed again.
ClosingAgain(Ds, e) ==
  {x \in summaries : \A D \in Ds : D.id = x.session => D \in Fresh(Ds, e)}

\* What is closed: it is replaced, has nothing left to tell, or its session is no
\* more (retire_definition, _close_current, retire_missing_current).
Closing(Ds, e) ==
  {x \in OpenSummaries : \A D \in Ds : D.id = x.session =>
     \/ Rows(D, e.at) = {}
     \/ Keyed(D, e) = {} /\ (Told(D, e.at) = {} \/ D \in Fresh(Ds, e))}

\* Mistake: an event from before the open summary is let through.
NeverStale(Ds, e) == TRUE
\* stale_summary_read, and the exclusion constraint on the intervals.
Succeeds(Ds, e) ==
  /\ \A x \in Closing(Ds, e) : x.input.at < e.at
  /\ \A x \in summaries \ OpenSummaries :
       (\E D \in Fresh(Ds, e) : D.id = x.session) => x.to <= e.at

\* GroundedSummaryCoordinator.process.
Process(e) ==
  LET Ds == Definitions(Visible(e.at))
  IN /\ UNCHANGED <<beliefVars, deletedAt>>
     /\ ~Unbounded(Visible(e.at))
     /\ \A D \in Ds : Rows(D, e.at) # {} =>
          Consistent(D, e.at) /\ \A x \in Keyed(D, e) : x.input = Input(D, e.at)
     /\ Succeeds(Ds, e)
     /\ summaries' = (summaries \ Closing(Ds, e)) \cup
          {[x EXCEPT !.to = e.at] : x \in Closing(Ds, e)} \cup
          {[session |-> D.id, event |-> e.id, input |-> Input(D, e.at), to |-> Open] :
             D \in Fresh(Ds, e)}

-----------------------------------------------------------------------------
\* The versions that a statement of x cites.
Cites(x, v) == \E y \in x.input.told : y[1].claim = v.claim /\ y[1].key = v.key

\* Foreign keys protect what summaries cite; the triggers that purge summaries fire
\* later, when evidence is deleted.
Unprotected(s) == \A x \in summaries, v \in Unmade(Undone(s)) : ~Cites(x, v)

\* Mistake: only summaries that tell something of the source.
PurgedTellers(s) == {x \in summaries : \E y \in x.input.told : y[2] = s}
Purged(s) == {x \in summaries : s \in x.input.members}

\* delete_source with the triggers of migration 0006.
Erase(s, t) ==
  /\ DeleteSource(s)
  /\ Unprotected(s)
  /\ summaries' = summaries \ Purged(s)
  /\ Records(s, t)

SummariesNext ==
  \/ Decide /\ UNCHANGED <<summaries, deletedAt>>
  \/ \E s \in Sources : \E t \in IngestedAt[s] .. MaxTime : Erase(s, t)
  \/ \E e \in Outbox : Process(e)

SummariesSpec == SummariesInit /\ [][SummariesNext]_summaryVars

-----------------------------------------------------------------------------
SummariesTypeOK ==
  /\ deletedAt \in [Sources -> Times \cup {Open}]
  /\ \A x \in summaries :
       /\ x.input.at \in Times /\ x.to \in Times \cup {Open}
       /\ x.input.members \subseteq Sources /\ x.input.members # {}
       /\ x.input.told \subseteq Version \X x.input.members
       /\ \A cs \in x.input.sides :
            /\ cs \subseteq {y[1].claim : y \in Disputed(x.input.told)}
            /\ \E c, d \in cs : c # d

\* A stored summary, closed ones included, has no member that is deleted, and each
\* thing it tells has its evidence and a stored version that says the same.
SummariesAreGrounded ==
  /\ SummariesTypeOK
  /\ \A x \in summaries :
       /\ x.input.members \cap forgotten = {}
       /\ \A y \in x.input.told :
            /\ <<y[1].claim, y[2]>> \in evidence
            /\ y[1].claim \notin Omitted
            /\ \E v \in versions : v = [y[1] EXCEPT !.to = v.to]

\* The summaries of a session follow each other in transaction time, although
\* sessions merge and split as sources come and go.
SummaryTimelines ==
  /\ \A x \in summaries : x.input.at < x.to
  /\ \A x, y \in summaries :
       x # y /\ x.input.at < y.to /\ y.input.at < x.to => x.session # y.session

\* A stored summary never changes but by being closed, once, and never goes but
\* with a member.
SummariesAreImmutable ==
  [][\A x \in summaries :
       \/ x.input.members \cap forgotten' # {}
       \/ x \in summaries'
       \/ x.to = Open /\ \E y \in summaries' : y = [x EXCEPT !.to = y.to]]_summaryVars

\* What the open summaries tell, each statement with its support.
Statements == {<<y[1].claim, y[1].status, y[2]>> : y \in UNION {x.input.told : x \in OpenSummaries}}

\* What the temporal service would answer as of the instant at.
Answered(at) ==
  UNION {{p.claim} \X {p.status} \X p.support :
           p \in {q \in Answer(at) : q.status # "excluded" /\ q.claim \notin Omitted}}

\* When the newest event has been processed, the open summaries and a query as of
\* its instant agree, and no source is told twice.
RebuildTellsTheTruth ==
  [][\A e \in Outbox :
       (\A x \in summaries : x.input.at < e.at) /\ Process(e) =>
         /\ Statements' = Answered(e.at)
         /\ \A x, y \in OpenSummaries' : x # y => x.input.members \cap y.input.members = {}]_summaryVars

\* "Source, span, and evidence deletion triggers physically purge every affected
\* summary version before protected predecessor rows are removed"
\* (docs/implementation-progress.md): no summary keeps a source from deletion.
SummariesDoNotProtect == \A s \in Sources \ forgotten : Outcomes(s) # {} => Unprotected(s)

=============================================================================
