------------------------- MODULE DocumentedSessions -------------------------
(* What the repository's documents and tests say of sessions, where the code *)
(* of ws-server.ts does otherwise.                                           *)
EXTENDS MCRealtimeSessions

\* No handler waits for session s: what it wrote is what remains.
Settled(s) == \A i \in Slots : tasks[i].kind # "hello" => tasks[i].sid # s

\* "Connection removal marks sessions disconnected and resumable": once a
\* connection is closed and its callbacks have run, it holds no active session.
ClosedConnectionHoldsNothing ==
  \A c \in Connections, s \in Sessions :
    link[c] = "closed" /\ teardown[c] = 0 =>
      ~(sessions[s].state = "active" /\ sessions[s].conn = c)

\* "Realtime server persists session start/end lifecycle through SessionStore":
\* a meeting that was started and closed, for which nothing waits and no error was
\* sent, has a row that says it ended.
LifecycleIsStored ==
  \A s \in Sessions :
    Settled(s) /\ s \in started \cap closed /\ s \notin reported => row[s] = "ended"
=============================================================================
