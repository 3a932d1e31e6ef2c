-------------------------- MODULE RealtimeSessions --------------------------
(***************************************************************************)
(* The life of a meeting session in the realtime service: SessionManager   *)
(* (services/realtime/src/session-manager.ts) driven by the WebSocket      *)
(* handlers of ws-server.ts, with the meeting_sessions rows that           *)
(* session-store.ts keeps in PostgreSQL.                                   *)
(*                                                                         *)
(* A message handler is asynchronous.  It runs without interruption up to  *)
(* its first await, and what follows the await is an action of its own:    *)
(* the handlers of one connection, and of several, interleave there.  A    *)
(* handler that waits occupies a slot of tasks.                            *)
(***************************************************************************)
EXTENDS Naturals

CONSTANTS
  Connections,     \* WebSocket connections, each used once
  Sessions,        \* session identifiers, each issued once
  Users,
  Workspaces,
  Members,         \* the <<user, workspace>> pairs with a membership
  Slots,           \* handlers that may be waiting at the same time
  MaxClientSeq,    \* bound: largest sequence number a client sends
  MaxServerSeq,    \* bound: no message is received for a session beyond it
  Faults,          \* what may go wrong around the server in this instance
  None

ASSUME SessionsAssumption ==
  /\ Members \subseteq Users \X Workspaces
  /\ MaxClientSeq \in Nat
  /\ MaxServerSeq \in Nat
  /\ Faults \subseteq {"repeated_hello", "socket_error", "store_failure"}
  /\ None \notin Connections \cup Sessions \cup Users \cup Workspaces

VARIABLES
  link,                 \* the socket: idle, open, closing, failed or closed
  closure,              \* the flags in the closure of each connection's handlers
  sessions,             \* SessionManager.sessions
  connectionToSession,  \* SessionManager.connectionToSession
  tasks,                \* the handlers that are waiting for an await
  teardown,             \* close and error callbacks of a socket still to finish
  row,                  \* status of the meeting_sessions row
  started,              \* history: sessions whose session.start was dispatched
  reported,             \* history: sessions told session_persistence_failed
  closed                \* history: sessions whose session.closed was sent

vars == <<link, closure, sessions, connectionToSession, tasks, teardown, row,
          started, reported, closed>>

manager == <<sessions, connectionToSession>>
history == <<started, reported, closed>>

Live == {"active", "disconnected"}
Kept == Live \cup {"ended"}          \* the session is in the sessions map

SessionState == Kept \cup {"unused", "deleted"}

Session == [state : SessionState,
            conn : Connections \cup {None},
            user : Users \cup {None},
            workspace : Workspaces \cup {None},
            clientSeq : Nat,
            serverSeq : Nat]

Absent(st) == [state |-> st, conn |-> None, user |-> None,
               workspace |-> None, clientSeq |-> 0, serverSeq |-> 0]

TaskKind == {"idle", "hello", "resume", "create", "end", "endSeq", "endRow"}

Task == [kind : TaskKind,
         conn : Connections \cup {None},
         sid : Sessions \cup {None},
         seq : Nat]

Idle == [kind |-> "idle", conn |-> None, sid |-> None, seq |-> 0]

-----------------------------------------------------------------------------
(* Helpers *)

Listening(c) == link[c] \in {"open", "closing"}

\* ws.close() of the server: no effect on a socket that is already going away.
CloseSocket(c) ==
  link' = [link EXCEPT ![c] = IF @ = "open" THEN "closing" ELSE @]

Larger(m, n) == IF m >= n THEN m ELSE n

\* nextServerSeq, on the sessions S: counts in every state, as long as the
\* session is in the map.
NextServerSeq(S, s) ==
  IF S[s].state \in Kept THEN [S EXCEPT ![s].serverSeq = @ + 1] ELSE S

\* A message reaches the session its connection is mapped to.
Mapped(c) == connectionToSession[c] # None

Receives(c, s) ==
  /\ Listening(c)
  /\ closure[c].authenticated
  /\ s = connectionToSession[c]
  /\ s # None
  /\ sessions[s].serverSeq < MaxServerSeq

\* advanceClientSeq: the message is dispatched only if its number is new.
Advances(s, n) == sessions[s].state = "active" /\ n > sessions[s].clientSeq

AdvanceClientSeq(s, n) == [sessions EXCEPT ![s].clientSeq = n]

Await(i, kind, c, s, n) ==
  /\ tasks[i] = Idle
  /\ tasks' = [tasks EXCEPT ![i] = [kind |-> kind, conn |-> c, sid |-> s, seq |-> n]]

Resumed(i, kind) == tasks[i].kind = kind

Done(i) == tasks' = [tasks EXCEPT ![i] = Idle]

\* A write that is rejected may have been committed all the same.
StoreFails == "store_failure" \in Faults

\* sendSessionPersistenceError: silent when the session is gone.
ReportPersistenceError(s) ==
  /\ sessions' = NextServerSeq(sessions, s)
  /\ reported' = IF sessions[s].state \in Kept THEN reported \cup {s} ELSE reported

-----------------------------------------------------------------------------
Init ==
  /\ link = [c \in Connections |-> "idle"]
  /\ closure = [c \in Connections |-> [authenticated |-> FALSE, persisted |-> FALSE]]
  /\ sessions = [s \in Sessions |-> Absent("unused")]
  /\ connectionToSession = [c \in Connections |-> None]
  /\ tasks = [i \in Slots |-> Idle]
  /\ teardown = [c \in Connections |-> 0]
  /\ row = [s \in Sessions |-> "absent"]
  /\ started = {}
  /\ reported = {}
  /\ closed = {}

-----------------------------------------------------------------------------
(* The socket *)

Connect(c) ==
  /\ link[c] = "idle"
  /\ link' = [link EXCEPT ![c] = "open"]
  /\ UNCHANGED <<closure, manager, tasks, teardown, row, history>>

\* The "error" event: its handler starts the same clean-up as "close", which
\* ws emits afterwards; no further message is delivered.
SocketError(c) ==
  /\ "socket_error" \in Faults
  /\ link[c] \in {"open", "closing"}
  /\ link' = [link EXCEPT ![c] = "failed"]
  /\ teardown' = [teardown EXCEPT ![c] = @ + 1]
  /\ UNCHANGED <<closure, manager, tasks, row, history>>

SocketCloses(c) ==
  /\ link[c] \in {"open", "closing", "failed"}
  /\ link' = [link EXCEPT ![c] = "closed"]
  /\ teardown' = [teardown EXCEPT ![c] = @ + 1]
  /\ UNCHANGED <<closure, manager, tasks, row, history>>

\* What the close of connection c makes of the sessions.
Disconnected(c) ==
  LET s == connectionToSession[c] IN
  IF s # None /\ sessions[s].state = "active"
  THEN [sessions EXCEPT ![s].state = "disconnected"]
  ELSE sessions

\* Mutant: the clean-up runs without an event.
RemoveConnectionUnasked(c) ==
  /\ teardown' = [teardown EXCEPT ![c] = @ - 1]
  /\ connectionToSession' = [connectionToSession EXCEPT ![c] = None]
  /\ sessions' = Disconnected(c)
  /\ UNCHANGED <<link, closure, tasks, row, history>>

\* The close and error handlers, once closeSttSession has settled.  The maps
\* they clear for an ended session belong to the suggestion guardrails.
RemoveConnection(c) ==
  /\ teardown[c] > 0
  /\ teardown' = [teardown EXCEPT ![c] = @ - 1]
  /\ connectionToSession' = [connectionToSession EXCEPT ![c] = None]
  /\ sessions' = Disconnected(c)
  /\ UNCHANGED <<link, closure, tasks, row, history>>

-----------------------------------------------------------------------------
(* auth.hello *)

\* A first frame that is not a valid auth.hello.
UnauthenticatedMessage(c) ==
  /\ Listening(c)
  /\ ~closure[c].authenticated
  /\ CloseSocket(c)
  /\ UNCHANGED <<closure, manager, tasks, teardown, row, history>>

HelloPending(c) == \E i \in Slots : tasks[i].kind = "hello" /\ tasks[i].conn = c

\* A valid auth.hello: the token, then the workspace policy, are awaited.  The
\* handler does not notice an earlier auth.hello that still waits; the desktop
\* client sends one for each socket.
AuthHello(c, i, n) ==
  /\ Listening(c)
  /\ ~closure[c].authenticated
  /\ "repeated_hello" \in Faults \/ ~HelloPending(c)
  /\ Await(i, "hello", c, None, n)
  /\ UNCHANGED <<link, closure, manager, teardown, row, history>>

\* An invalid token, another device, an unavailable policy, an actor without
\* membership, or a connection that already has a session.
RefuseHello(i) ==
  /\ Resumed(i, "hello")
  /\ Done(i)
  /\ CloseSocket(tasks[i].conn)
  /\ UNCHANGED <<closure, manager, teardown, row, history>>

\* SessionManager.authenticate followed by auth.accepted.
AcceptHello(i, s, u, w) ==
  LET c == tasks[i].conn IN
  /\ Resumed(i, "hello")
  /\ Done(i)
  /\ <<u, w>> \in Members
  /\ ~Mapped(c)
  /\ sessions[s].state = "unused"
  /\ sessions' = [sessions EXCEPT ![s] =
                    [state |-> "active", conn |-> c, user |-> u, workspace |-> w,
                     clientSeq |-> tasks[i].seq, serverSeq |-> 1]]
  /\ connectionToSession' = [connectionToSession EXCEPT ![c] = s]
  /\ closure' = [closure EXCEPT ![c].authenticated = TRUE]
  /\ UNCHANGED <<link, teardown, row, history>>

-----------------------------------------------------------------------------
(* Messages that leave the session where it is *)

\* "Session not found": the session of this connection ended or moved away.
UnmappedMessage(c) ==
  /\ Listening(c)
  /\ closure[c].authenticated
  /\ ~Mapped(c)
  /\ CloseSocket(c)
  /\ UNCHANGED <<closure, manager, tasks, teardown, row, history>>

\* Malformed, for another session, or with a stale sequence number: one error.
RejectedMessage(c, s) ==
  /\ Receives(c, s)
  /\ sessions' = NextServerSeq(sessions, s)
  /\ UNCHANGED <<link, closure, connectionToSession, tasks, teardown, row, history>>

\* Audio, gap, context and suggestion messages, which advance the sequence and
\* are handled by other components, with an error or without.
OtherMessage(c, s, n) ==
  /\ Receives(c, s)
  /\ Advances(s, n)
  /\ LET S == AdvanceClientSeq(s, n) IN sessions' \in {S, NextServerSeq(S, s)}
  /\ UNCHANGED <<link, closure, connectionToSession, tasks, teardown, row, history>>

\* Transcripts, suggestion tokens and errors sent by work already in progress.
ServerMessage(s) ==
  /\ sessions[s].state \in Kept
  /\ sessions[s].serverSeq < MaxServerSeq
  /\ sessions' = NextServerSeq(sessions, s)
  /\ UNCHANGED <<link, closure, connectionToSession, tasks, teardown, row, history>>

-----------------------------------------------------------------------------
(* resume.request *)

\* Mutants: an ended session, or another user's.
ResumableEnded(temp, s, prev) ==
  /\ sessions[s].state \in Kept
  /\ <<sessions[temp].user, sessions[temp].workspace>> \in Members
  /\ sessions[s].workspace = sessions[temp].workspace
  /\ sessions[s].user = sessions[temp].user
  /\ sessions[s].conn = prev
ResumableByColleague(temp, s, prev) ==
  /\ sessions[s].state \in Live
  /\ <<sessions[temp].user, sessions[temp].workspace>> \in Members
  /\ sessions[s].workspace = sessions[temp].workspace
  /\ sessions[s].conn = prev

\* The conditions of SessionManager.resumeSession; temp is the session the new
\* connection was given by auth.hello, with the actor and workspace of its token.
Resumable(temp, s, prev) ==
  /\ sessions[s].state \in Live
  /\ <<sessions[temp].user, sessions[temp].workspace>> \in Members
  /\ sessions[s].workspace = sessions[temp].workspace
  /\ sessions[s].user = sessions[temp].user
  /\ sessions[s].conn = prev

\* Mutant: the counters are those of the request.
ReattachedAsAsked(c, s, n, m) ==
  [sessions[s] EXCEPT !.conn = c, !.state = "active", !.clientSeq = n, !.serverSeq = m]

Reattached(c, s, n, m) ==
  [sessions[s] EXCEPT !.conn = c, !.state = "active",
                      !.clientSeq = Larger(@, n), !.serverSeq = Larger(@, m)]

\* Mutants: the last owner stays mapped; the two assignments are swapped.
RemappedTwice(prev, c, s) == [connectionToSession EXCEPT ![c] = s]
RemappedThenCleared(prev, c, s) == [connectionToSession EXCEPT ![c] = s, ![prev] = None]

Remapped(prev, c, s) == [connectionToSession EXCEPT ![prev] = None, ![c] = s]

Persisted(c) == [closure EXCEPT ![c].persisted = TRUE]

\* The session moves to c, its last owner loses its mapping, the temporary
\* session is deleted; the new sequence numbers are then awaited to be stored.
ResumeRequest(c, i, s, prev, n, m) ==
  LET temp == connectionToSession[c] IN
  /\ Receives(c, temp)
  /\ Resumable(temp, s, prev)
  /\ sessions' = [t \in Sessions |->
                    IF t = s THEN Reattached(c, s, n, m)
                    ELSE IF t = temp THEN Absent("deleted") ELSE sessions[t]]
  /\ connectionToSession' = Remapped(prev, c, s)
  /\ closure' = Persisted(c)
  /\ Await(i, "resume", c, s, 0)
  /\ UNCHANGED <<link, teardown, row, history>>

\* session_not_resumable, counted on the temporary session.
RefuseResume(c, s, prev) ==
  LET temp == connectionToSession[c] IN
  /\ Receives(c, temp)
  /\ ~Resumable(temp, s, prev)
  /\ sessions' = NextServerSeq(sessions, temp)
  /\ UNCHANGED <<link, closure, connectionToSession, tasks, teardown, row, history>>

\* updateSeqState settles; the replay that follows changes no session.
ResumeStored(i) ==
  /\ Resumed(i, "resume")
  /\ Done(i)
  /\ \/ UNCHANGED <<sessions, reported>>
     \/ StoreFails /\ ReportPersistenceError(tasks[i].sid)
  /\ UNCHANGED <<link, closure, connectionToSession, teardown, row, started, closed>>

-----------------------------------------------------------------------------
(* session.start *)

SessionStart(c, i, s, n) ==
  /\ Receives(c, s)
  /\ Advances(s, n)
  /\ sessions' = AdvanceClientSeq(s, n)
  /\ started' = started \cup {s}
  /\ IF closure[c].persisted THEN UNCHANGED tasks ELSE Await(i, "create", c, s, 0)
  /\ UNCHANGED <<link, closure, connectionToSession, teardown, row, reported, closed>>

\* session.start for a workspace the session was not authenticated for.
StartElsewhere(c, s, n) ==
  /\ Receives(c, s)
  /\ Advances(s, n)
  /\ sessions' = NextServerSeq(AdvanceClientSeq(s, n), s)
  /\ CloseSocket(c)
  /\ UNCHANGED <<closure, connectionToSession, tasks, teardown, row, history>>

\* create settles: the row is inserted, or the identifier is taken or the store
\* fails, in which case the row may still have been committed.
CreateStored(i) ==
  LET s == tasks[i].sid
      inserted == [row EXCEPT ![s] = IF @ = "absent" THEN "active" ELSE @] IN
  /\ Resumed(i, "create")
  /\ Done(i)
  /\ \/ /\ row[s] = "absent"
        /\ row' = inserted
        /\ closure' = Persisted(tasks[i].conn)
        /\ UNCHANGED <<sessions, reported>>
     \/ /\ StoreFails \/ row[s] # "absent"
        /\ row' \in {row, inserted}
        /\ ReportPersistenceError(s)
        /\ UNCHANGED closure
  /\ UNCHANGED <<link, connectionToSession, teardown, started, closed>>

-----------------------------------------------------------------------------
(* session.end *)

SessionEnd(c, i, s, n) ==
  /\ Receives(c, s)
  /\ Advances(s, n)
  /\ sessions' = AdvanceClientSeq(s, n)
  /\ Await(i, "end", c, s, 0)
  /\ UNCHANGED <<link, closure, connectionToSession, teardown, row, history>>

NotEnded(s) == sessions      \* mutant: the state is left as it was

\* What SessionManager.endSession makes of the sessions, and of the mapping; it
\* throws for a session that is over, which the handler ignores.
Ended(s) ==
  IF sessions[s].state \in Live THEN [sessions EXCEPT ![s].state = "ended"] ELSE sessions

Unmapped(s) ==
  IF sessions[s].state \in Live
  THEN [connectionToSession EXCEPT ![sessions[s].conn] = None]
  ELSE connectionToSession

\* Mutant: the handler returns when the session has left its connection.
EndSessionIfMapped(i) ==
  LET s == tasks[i].sid
      here == connectionToSession[tasks[i].conn] = s IN
  /\ Resumed(i, "end")
  /\ sessions' = IF here THEN NextServerSeq(Ended(s), s) ELSE sessions
  /\ connectionToSession' = IF here THEN Unmapped(s) ELSE connectionToSession
  /\ IF here /\ closure[tasks[i].conn].persisted
     THEN tasks' = [tasks EXCEPT ![i].kind = "endSeq"] /\ UNCHANGED closed
     ELSE Done(i) /\ closed' = IF here THEN closed \cup {s} ELSE closed
  /\ UNCHANGED <<link, closure, teardown, row, started, reported>>

\* closeSttSession has settled: SessionManager.endSession, then either the store
\* is awaited or session.closed is sent.
EndSession(i) ==
  LET s == tasks[i].sid IN
  /\ Resumed(i, "end")
  /\ sessions' = NextServerSeq(Ended(s), s)
  /\ connectionToSession' = Unmapped(s)
  /\ IF closure[tasks[i].conn].persisted
     THEN /\ tasks' = [tasks EXCEPT ![i].kind = "endSeq"]
          /\ UNCHANGED closed
     ELSE /\ Done(i)
          /\ closed' = closed \cup {s}
  /\ UNCHANGED <<link, closure, teardown, row, started, reported>>

\* Mutant: a failure is not reported.
EndSeqStoredSilently(i) ==
  LET s == tasks[i].sid IN
  /\ Resumed(i, "endSeq")
  /\ \/ tasks' = [tasks EXCEPT ![i].kind = "endRow"] /\ UNCHANGED closed
     \/ StoreFails /\ Done(i) /\ closed' = closed \cup {s}
  /\ UNCHANGED <<link, closure, manager, teardown, row, started, reported>>

\* updateSeqState settles; a failure skips the write of the ended status.
EndSeqStored(i) ==
  LET s == tasks[i].sid IN
  /\ Resumed(i, "endSeq")
  /\ \/ /\ tasks' = [tasks EXCEPT ![i].kind = "endRow"]
        /\ UNCHANGED <<sessions, reported, closed>>
     \/ /\ StoreFails
        /\ Done(i)
        /\ ReportPersistenceError(s)
        /\ closed' = closed \cup {s}
  /\ UNCHANGED <<link, closure, connectionToSession, teardown, row, started>>

\* SessionStore.endSession settles, and session.closed is sent in any case.
EndRowStored(i) ==
  LET s == tasks[i].sid
      ended == [row EXCEPT ![s] = IF @ = "absent" THEN @ ELSE "ended"] IN
  /\ Resumed(i, "endRow")
  /\ Done(i)
  /\ \/ /\ row' = ended
        /\ UNCHANGED <<sessions, reported>>
     \/ /\ StoreFails
        /\ row' \in {row, ended}
        /\ ReportPersistenceError(s)
  /\ closed' = closed \cup {s}
  /\ UNCHANGED <<link, closure, connectionToSession, teardown, started>>

-----------------------------------------------------------------------------
Socket(c) ==
  \/ Connect(c)
  \/ SocketError(c)
  \/ SocketCloses(c)
  \/ RemoveConnection(c)

Message(c) ==
  \/ UnauthenticatedMessage(c)
  \/ UnmappedMessage(c)
  \/ \E i \in Slots, n \in 0..MaxClientSeq : AuthHello(c, i, n)
  \/ \E s \in Sessions : RejectedMessage(c, s)
  \/ \E s \in Sessions, n \in 0..MaxClientSeq :
       \/ OtherMessage(c, s, n)
       \/ StartElsewhere(c, s, n)
       \/ \E i \in Slots : SessionStart(c, i, s, n) \/ SessionEnd(c, i, s, n)
  \/ \E s \in Sessions, prev \in Connections :
       \/ RefuseResume(c, s, prev)
       \/ \E i \in Slots, n \in 0..MaxClientSeq, m \in 0..MaxServerSeq :
            ResumeRequest(c, i, s, prev, n, m)

Continuation(i) ==
  \/ RefuseHello(i)
  \/ \E s \in Sessions, u \in Users, w \in Workspaces : AcceptHello(i, s, u, w)
  \/ ResumeStored(i)
  \/ CreateStored(i)
  \/ EndSession(i)
  \/ EndSeqStored(i)
  \/ EndRowStored(i)

Next ==
  \/ \E c \in Connections : Socket(c) \/ Message(c)
  \/ \E i \in Slots : Continuation(i)
  \/ \E s \in Sessions : ServerMessage(s)

Spec == Init /\ [][Next]_vars

\* Every await settles (the STT session and the store time out), the callbacks
\* of a socket run, and ws destroys a socket that does not finish closing.
Fairness ==
  /\ \A i \in Slots : WF_vars(Continuation(i))
  /\ \A c \in Connections :
       /\ WF_vars(RemoveConnection(c))
       /\ WF_vars(link[c] \in {"closing", "failed"} /\ SocketCloses(c))

FairSpec == Spec /\ Fairness

-----------------------------------------------------------------------------
(* Properties *)

\* Every variable stays in its range; a waiting handler knows its connection
\* and, once it has one, its session.
TypeOK ==
  /\ link \in [Connections -> {"idle", "open", "closing", "failed", "closed"}]
  /\ closure \in [Connections -> [authenticated : BOOLEAN, persisted : BOOLEAN]]
  /\ sessions \in [Sessions -> Session]
  /\ connectionToSession \in [Connections -> Sessions \cup {None}]
  /\ tasks \in [Slots -> Task]
  /\ teardown \in [Connections -> Nat]
  /\ row \in [Sessions -> {"absent", "active", "ended"}]
  /\ started \subseteq Sessions
  /\ reported \subseteq Sessions
  /\ closed \subseteq Sessions
  /\ \A i \in Slots :
       /\ tasks[i].kind # "idle" => tasks[i].conn \in Connections
       /\ tasks[i].kind \notin {"idle", "hello"} => tasks[i].sid \in Sessions

\* What the maps of SessionManager promise to each other: a connection is mapped
\* only to a session that is active and names it as its owner.  So a session has
\* one connection at most, and an ended session is never found by a connection.
OwnershipConsistent ==
  \A c \in Connections : LET s == connectionToSession[c] IN
    s # None => sessions[s].state = "active" /\ sessions[s].conn = c

\* Conversely an active session can be reached from the connection it names, so
\* that the close of that connection will disconnect it.
NoOrphanedSession ==
  "repeated_hello" \notin Faults =>
    \A s \in Sessions : sessions[s].state = "active" =>
                          connectionToSession[sessions[s].conn] = s

\* A meeting whose row says "ended" is not live: nobody can attach to it or
\* resume it, and no transcript is accepted for it.
EndedRowNotLive ==
  \A s \in Sessions : row[s] = "ended" => sessions[s].state \in {"ended", "deleted"}

\* A session that ended stays ended, and one that was deleted stays deleted,
\* whatever resume requests and continuations were under way.
EndIsFinal ==
  [][\A s \in Sessions : sessions[s].state \in {"ended", "deleted"} =>
       sessions'[s].state = sessions[s].state]_vars

\* No client message is dispatched twice for a session and no server number is
\* issued twice, across any number of resumes with any counters in the request.
SequencesNeverRewind ==
  [][\A s \in Sessions :
       sessions[s].state \in Kept /\ sessions'[s].state \in Kept =>
         /\ sessions'[s].clientSeq >= sessions[s].clientSeq
         /\ sessions'[s].serverSeq >= sessions[s].serverSeq]_vars

\* session.closed follows the durable end of the meeting: if the row is active
\* when the client of a session that is still known is told that it closed, the
\* row turns "ended" or a persistence error has been sent for it.
RowEndsBeforeClosed ==
  [][\A s \in closed' \ closed :
       row[s] = "active" /\ sessions[s].state \in Kept =>
         row'[s] = "ended" \/ s \in reported']_vars

\* Every session.end that was dispatched is answered with session.closed, also
\* when the store fails or the session moved to another connection meanwhile.
EndIsAnswered ==
  \A s \in Sessions :
    (\E i \in Slots : tasks[i].kind = "end" /\ tasks[i].sid = s) ~> (s \in closed)

-----------------------------------------------------------------------------
(* Refinement: what is promised, without sockets and handlers *)

Holder(s) ==
  IF sessions[s].state = "active" /\ connectionToSession[sessions[s].conn] = s
  THEN sessions[s].conn ELSE None

Phase(s) ==
  CASE sessions[s].state = "unused" -> "free"
    [] sessions[s].state \in Live -> "live"
    [] OTHER -> "over"

\* The principal of a session that is over has no meaning any more.
Principal(s) ==
  IF sessions[s].state \in Live THEN <<sessions[s].user, sessions[s].workspace>>
  ELSE None

Lease == INSTANCE SessionLease WITH
           Principals <- Users \X Workspaces,
           phase <- [s \in Sessions |-> Phase(s)],
           holder <- [s \in Sessions |-> Holder(s)],
           principal <- [s \in Sessions |-> Principal(s)]

\* The session manager and the handlers around it implement the lease.
LeaseSpec == Lease!Spec
=============================================================================
