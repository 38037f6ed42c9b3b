---------------------------- MODULE MCConflicts ----------------------------
(* Pairs of claims for Conflicts, in three groups: all kinds of valid time,   *)
(* all kinds of statement, and claims about other subjects.                   *)
EXTENDS Conflicts

MCFamily == [role |-> "work", desk |-> "work", plan |-> "goal"]

Day(f, t) == [precision |-> "day", from |-> f, to |-> t]
Periods ==
  {Day(1, 1), Day(1, 2), Day(2, 3), Day(3, 3), Day(1, Unbounded), Day(Unbounded, 2),
   [precision |-> "approximate", from |-> 1, to |-> 1],
   [precision |-> "approximate", from |-> 3, to |-> 3],
   [precision |-> "timestamp", from |-> 1, to |-> 2],
   [precision |-> "timestamp", from |-> 3, to |-> 3],
   [precision |-> "unknown", from |-> Unbounded, to |-> Unbounded]}

\* A claim that says object with predicate in period; the rest is ordinary.
Claim(predicate, object, period) ==
  [subject |-> "user", predicate |-> predicate, speaker |-> "ann", object |-> object,
   negated |-> FALSE, epistemic |-> "asserted", marked |-> FALSE, restricted |-> FALSE,
   official |-> FALSE, precision |-> period.precision, from |-> period.from, to |-> period.to]

Timed == {[Claim("role", {o}, x) EXCEPT !.official = b, !.speaker = IF o = "a" THEN "ann" ELSE "bob"] :
            o \in {"a", "b"}, x \in Periods, b \in BOOLEAN}

Said ==
  {[Claim(p, o, x) EXCEPT !.epistemic = e, !.negated = n] :
     p \in {"role", "plan"}, o \in {{"a"}, {"a", "b"}}, x \in {Day(1, 2), Day(1, Unbounded)},
     e \in {"asserted", "uncertain", "denied", "corrected"}, n \in {FALSE}}
  \cup {[Claim("role", {"a"}, Day(1, 2)) EXCEPT !.marked = m, !.negated = ~m] : m \in BOOLEAN}
About ==
  {[Claim(p, {o}, Day(1, 2)) EXCEPT !.subject = s, !.restricted = r, !.epistemic = e] :
     p \in {"role", "desk"}, o \in {"a", "b"}, s \in {"user", "carl"}, r \in BOOLEAN,
     e \in {"hypothetical", "asserted"}}

MCPairs == UNION {[Sides -> g] : g \in {Timed, Said, About}}
MCValidAt ==
  {[form |-> "day", at |-> 1], [form |-> "day", at |-> 2], [form |-> "day", at |-> 3],
   [form |-> "timestamp", at |-> 3]}
=============================================================================
