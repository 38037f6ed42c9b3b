------------------------------ MODULE Sessions ------------------------------
(***************************************************************************)
(* Session boundaries (src/summaries/sessions.py): how the sources of one  *)
(* user that are visible at a cutoff fall into sessions.  Nothing is       *)
(* stored; the same sources give the same sessions on every call.          *)
(***************************************************************************)
EXTENDS Integers, FiniteSets

CONSTANTS
  Sources,
  SourceType,   \* [Sources -> SourceTypes]
  SessionId,    \* [Sources -> threads or NoThread]: the column session_id
  ThreadId,     \* [Sources -> threads, NoThread or BadThread]: metadata.thread_id
  ProducedAt,   \* [Sources -> Int]
  IdOrder,      \* [Sources -> Int]: the order of source ids
  Gap,          \* chat_unthreaded_gap_seconds
  NoThread,     \* there is none
  BadThread     \* it is there and not a nonempty string

SourceTypes == {"conversation", "calendar", "email", "chat"}

OfType(visible, types) == {s \in visible : SourceType[s] \in types}

\* The order in which visible sources are read.
Earlier(x, y) ==
  \/ ProducedAt[x] < ProducedAt[y]
  \/ ProducedAt[x] = ProducedAt[y] /\ IdOrder[x] < IdOrder[y]

\* session_id goes before the thread of the metadata.
Thread(s) == IF SessionId[s] # NoThread THEN SessionId[s] ELSE ThreadId[s]

\* Boundaries that raise: for an email the metadata is always read and must not
\* name another thread, for a chat it is read when there is no session id.
Unbounded(visible) ==
  \/ \E s \in OfType(visible, {"email"}) :
       \/ ThreadId[s] = BadThread
       \/ NoThread \notin {SessionId[s], ThreadId[s]} /\ SessionId[s] # ThreadId[s]
  \/ \E s \in OfType(visible, {"chat"}) : Thread(s) = BadThread

\* id stands for definition_id, a hash of the type, the kind and the boundary key.
Session(type, kind, key, members) ==
  [id |-> <<type, kind, key>>, members |-> members]

Alone(sources, kind) ==
  {Session(SourceType[s], kind, <<"source", s>>, {s}) : s \in sources}

Threaded(sources, type, kind) ==
  {Session(type, kind, <<"declared", k>>, {s \in sources : Thread(s) = k}) :
     k \in {Thread(s) : s \in sources} \ {NoThread}}

EmailSessions(visible) ==
  LET emails == OfType(visible, {"email"})
  IN Threaded(emails, "email", "declared_thread_or_source") \cup
     Alone({s \in emails : Thread(s) = NoThread}, "declared_thread_or_source")

\* An unthreaded chat goes on with the chat before it, if that is unthreaded too
\* and not too long ago.
Continues(s, chats) ==
  \E p \in chats :
    /\ Earlier(p, s)
    /\ \A q \in chats : ~(Earlier(p, q) /\ Earlier(q, s))
    /\ Thread(p) = NoThread
    /\ ProducedAt[s] - ProducedAt[p] <= Gap

ChatSessions(visible) ==
  LET chats == OfType(visible, {"chat"})
      loose == {s \in chats : Thread(s) = NoThread}
      openers == {s \in loose : ~Continues(s, chats)}
      \* The last opener that is not after s.
      Opener(s) == CHOOSE f \in openers :
        /\ ~Earlier(s, f)
        /\ \A g \in openers : ~Earlier(s, g) => ~Earlier(f, g)
  IN Threaded(chats, "chat", "declared_thread") \cup
     {Session("chat", "inactivity", <<"inactivity", f>>, {s \in loose : Opener(s) = f}) :
        f \in openers}

\* define_sessions.
Definitions(visible) ==
  Alone(OfType(visible, {"conversation", "calendar"}), "source") \cup
  EmailSessions(visible) \cup ChatSessions(visible)

=============================================================================
