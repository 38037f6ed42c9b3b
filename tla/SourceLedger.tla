---------------------------- MODULE SourceLedger ----------------------------
(***************************************************************************)
(* What ingestion promises to the rest of the memory system, without       *)
(* leases, attempts, clocks or an outbox: a source is accepted at most     *)
(* once and deleted for good; each (source, extractor) job ends at most    *)
(* once and, when it succeeds, adds all its claims in one step; a claim    *)
(* keeps its content and is believed exactly while a live source supports  *)
(* it.  Module Ingestion implements it.                                    *)
(***************************************************************************)
CONSTANTS SourceIds, Extractors, ClaimIds, Contents, NoContent

Jobs == SourceIds \X Extractors

VARIABLES
  life,     \* of a source: absent, live or deleted
  job,      \* of a job: idle, open, done or dead
  content,  \* of a claim
  support   \* which source supports which claim: <<claim, source>>

vars == <<life, job, content, support>>

Init ==
  /\ life = [s \in SourceIds |-> "absent"]
  /\ job = [j \in Jobs |-> "idle"]
  /\ content = [c \in ClaimIds |-> NoContent]
  /\ support = {}

Accept(s, x) ==
  /\ life[s] = "absent"
  /\ life' = [life EXCEPT ![s] = "live"]
  /\ job' = [job EXCEPT ![<<s, x>>] = "open"]
  /\ UNCHANGED <<content, support>>

Open(j) ==
  /\ life[j[1]] = "live"
  /\ job[j] = "idle"
  /\ job' = [job EXCEPT ![j] = "open"]
  /\ UNCHANGED <<life, content, support>>

GiveUp(j) ==
  /\ job[j] = "open"
  /\ job' = [job EXCEPT ![j] = "dead"]
  /\ UNCHANGED <<life, content, support>>

\* The job of source j[1] found the claims cs.
Finish(j, cs) ==
  /\ job[j] = "open"
  /\ job' = [job EXCEPT ![j] = "done"]
  /\ \A c \in ClaimIds : content[c] # NoContent => content'[c] = content[c]
  /\ \A c \in ClaimIds \ cs : content'[c] = content[c]
  /\ content' \in [ClaimIds -> Contents \cup {NoContent}]
  /\ \A c \in cs : content'[c] # NoContent
  /\ support' = support \cup (cs \X {j[1]})
  /\ UNCHANGED life

Delete(s) ==
  /\ life[s] = "live"
  /\ life' = [life EXCEPT ![s] = "deleted"]
  /\ job' = [j \in Jobs |-> IF j[1] = s THEN "idle" ELSE job[j]]
  /\ support' = {p \in support : p[2] # s}
  /\ content' = [c \in ClaimIds |->
                   IF \E p \in support' : p[1] = c THEN content[c] ELSE NoContent]

Next ==
  \/ \E s \in SourceIds, x \in Extractors : Accept(s, x)
  \/ \E j \in Jobs : Open(j) \/ GiveUp(j)
  \/ \E j \in Jobs, cs \in SUBSET ClaimIds : Finish(j, cs)
  \/ \E s \in SourceIds : Delete(s)

Spec == Init /\ [][Next]_vars
=============================================================================
