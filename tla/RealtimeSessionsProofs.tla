----------------------- MODULE RealtimeSessionsProofs -----------------------
(***************************************************************************)
(* Theorems about RealtimeSessions, for every set of connections, sessions *)
(* and waiting handlers.                                                   *)
(***************************************************************************)
EXTENDS RealtimeSessions, TLAPS

USE DEF Disconnected, Remapped, Persisted, Ended, Unmapped

-----------------------------------------------------------------------------
(* Sequence numbers change neither who owns a session nor its state *)

\* The fields of session t that attaching is about are the same in S and T, and
\* its counters do not go back.
Agree(S, T, t) ==
  /\ T[t].state = S[t].state
  /\ T[t].conn = S[t].conn
  /\ T[t].user = S[t].user
  /\ T[t].workspace = S[t].workspace
  /\ T[t].clientSeq >= S[t].clientSeq
  /\ T[t].serverSeq >= S[t].serverSeq

AgreeAll(S, T) == \A t \in Sessions : Agree(S, T, t)

\* nextServerSeq only moves the server counter of one session, forward.
LEMMA NextServerSeqAgrees ==
  ASSUME NEW S \in [Sessions -> Session], NEW s \in Sessions
  PROVE  /\ NextServerSeq(S, s) \in [Sessions -> Session]
         /\ AgreeAll(S, NextServerSeq(S, s))
<1>1. CASE S[s].state \in Kept
  <2>. DEFINE T == [S EXCEPT ![s].serverSeq = @ + 1]
  <2>1. T[s] = [S[s] EXCEPT !.serverSeq = @ + 1]
    OBVIOUS
  <2>2. S[s].serverSeq \in Nat
    BY DEF Session
  <2>3. T[s] \in Session /\ Agree(S, T, s)
    BY <2>1, <2>2 DEF Session, Agree
  <2>4. \A t \in Sessions \ {s} : T[t] = S[t]
    OBVIOUS
  <2>5. \A t \in Sessions : Agree(S, S, t)
    BY DEF Agree, Session
  <2>6. T \in [Sessions -> Session] /\ AgreeAll(S, T)
    BY <2>3, <2>4, <2>5 DEF AgreeAll, Agree
  <2>. QED
    BY <1>1, <2>6 DEF NextServerSeq
<1>2. CASE S[s].state \notin Kept
  BY <1>2 DEF NextServerSeq, AgreeAll, Agree, Session
<1>. QED
  BY <1>1, <1>2

\* advanceClientSeq with a newer number only moves the client counter, forward.
LEMMA AdvanceClientSeqAgrees ==
  ASSUME TypeOK, NEW s \in Sessions, NEW n \in Nat, Advances(s, n)
  PROVE  /\ AdvanceClientSeq(s, n) \in [Sessions -> Session]
         /\ AgreeAll(sessions, AdvanceClientSeq(s, n))
<1>. DEFINE T == [sessions EXCEPT ![s].clientSeq = n]
<1>1. T[s] = [sessions[s] EXCEPT !.clientSeq = n]
  BY DEF TypeOK
<1>2. sessions[s] \in Session /\ n > sessions[s].clientSeq
  BY DEF TypeOK, Advances
<1>3. T[s] \in Session /\ Agree(sessions, T, s)
  BY <1>1, <1>2 DEF Session, Agree
<1>4. \A t \in Sessions \ {s} : T[t] = sessions[t]
  BY DEF TypeOK
<1>5. \A t \in Sessions : Agree(sessions, sessions, t)
  BY DEF Agree, Session, TypeOK
<1>6. T \in [Sessions -> Session] /\ AgreeAll(sessions, T)
  BY <1>3, <1>4, <1>5 DEF AgreeAll, Agree, TypeOK
<1>. QED
  BY <1>6 DEF AdvanceClientSeq

\* Agreement is transitive: a handler may advance both counters.
LEMMA AgreeTransitive ==
  ASSUME NEW S \in [Sessions -> Session], NEW T \in [Sessions -> Session],
         NEW U \in [Sessions -> Session], AgreeAll(S, T), AgreeAll(T, U)
  PROVE  AgreeAll(S, U)
<1>. SUFFICES ASSUME NEW t \in Sessions PROVE Agree(S, U, t)
  BY DEF AgreeAll
<1>1. Agree(S, T, t) /\ Agree(T, U, t)
  BY DEF AgreeAll
<1>2. /\ S[t].clientSeq \in Nat /\ T[t].clientSeq \in Nat /\ U[t].clientSeq \in Nat
      /\ S[t].serverSeq \in Nat /\ T[t].serverSeq \in Nat /\ U[t].serverSeq \in Nat
  BY DEF Session
<1>. QED
  BY <1>1, <1>2 DEF Agree

-----------------------------------------------------------------------------
(* What each step does to the sessions *)

\* A step that attaches, detaches, ends and deletes nothing.
Quiet ==
  /\ connectionToSession' = connectionToSession
  /\ sessions' \in [Sessions -> Session]
  /\ AgreeAll(sessions, sessions')

LEMMA UnchangedIsQuiet ==
  ASSUME TypeOK, UNCHANGED manager
  PROVE  Quiet
BY DEF TypeOK, manager, Quiet, AgreeAll, Agree, Session

LEMMA NextServerSeqIsQuiet ==
  ASSUME TypeOK, UNCHANGED connectionToSession, NEW s \in Sessions,
         sessions' = NextServerSeq(sessions, s)
  PROVE  Quiet
BY NextServerSeqAgrees DEF TypeOK, Quiet

LEMMA AdvanceIsQuiet ==
  ASSUME TypeOK, UNCHANGED connectionToSession, NEW s \in Sessions, NEW n \in Nat,
         Advances(s, n),
         \/ sessions' = AdvanceClientSeq(s, n)
         \/ sessions' = NextServerSeq(AdvanceClientSeq(s, n), s)
  PROVE  Quiet
<1>. DEFINE S == AdvanceClientSeq(s, n)
<1>1. S \in [Sessions -> Session] /\ AgreeAll(sessions, S)
  BY AdvanceClientSeqAgrees
<1>2. /\ NextServerSeq(S, s) \in [Sessions -> Session]
      /\ AgreeAll(S, NextServerSeq(S, s))
  BY <1>1, NextServerSeqAgrees
<1>3. sessions \in [Sessions -> Session]
  BY DEF TypeOK
<1>4. AgreeAll(sessions, NextServerSeq(S, s))
  BY <1>1, <1>2, <1>3, AgreeTransitive
<1>. QED
  BY <1>1, <1>2, <1>4 DEF Quiet

\* A continuation runs for a waiting handler, whose session is known.
LEMMA TaskSession ==
  ASSUME TypeOK, NEW i \in Slots, tasks[i].kind \notin {"idle", "hello"}
  PROVE  tasks[i].sid \in Sessions /\ tasks[i].conn \in Connections
BY DEF TypeOK

LEMMA ReceiverSession ==
  ASSUME TypeOK, NEW c \in Connections, NEW s, Receives(c, s)
  PROVE  s \in Sessions /\ connectionToSession[c] = s
BY DEF TypeOK, Receives

LEMMA BoundsAreNumbers ==
  /\ \A n \in 0..MaxClientSeq : n \in Nat
  /\ \A n \in 0..MaxServerSeq : n \in Nat
BY SessionsAssumption

\* Only four kinds of step attach, detach, end or delete a session.
Attaching ==
  \/ \E c \in Connections : RemoveConnection(c)
  \/ \E i \in Slots, s \in Sessions, u \in Users, w \in Workspaces : AcceptHello(i, s, u, w)
  \/ \E c \in Connections, i \in Slots, s \in Sessions, prev \in Connections,
        n \in 0..MaxClientSeq, m \in 0..MaxServerSeq : ResumeRequest(c, i, s, prev, n, m)
  \/ \E i \in Slots : EndSession(i)

LEMMA StepKinds ==
  ASSUME TypeOK, [Next]_vars
  PROVE  Quiet \/ Attaching
<1>. USE DEF manager
<1>1. CASE UNCHANGED vars
  BY <1>1, UnchangedIsQuiet DEF vars
<1>2. ASSUME NEW c \in Connections, Socket(c)
      PROVE  Quiet \/ Attaching
  BY <1>2, UnchangedIsQuiet DEF Socket, Connect, SocketError, SocketCloses, Attaching
<1>3. ASSUME NEW c \in Connections, Message(c)
      PROVE  Quiet \/ Attaching
  <2>1. CASE UnauthenticatedMessage(c) \/ UnmappedMessage(c)
    BY <2>1, UnchangedIsQuiet DEF UnauthenticatedMessage, UnmappedMessage
  <2>2. CASE \E i \in Slots, n \in 0..MaxClientSeq : AuthHello(c, i, n)
    BY <2>2, UnchangedIsQuiet DEF AuthHello
  <2>3. CASE \E s \in Sessions : RejectedMessage(c, s)
    BY <2>3, NextServerSeqIsQuiet DEF RejectedMessage
  <2>4. ASSUME NEW s \in Sessions, NEW n \in 0..MaxClientSeq,
               OtherMessage(c, s, n) \/ StartElsewhere(c, s, n)
        PROVE  Quiet
    BY <2>4, BoundsAreNumbers, AdvanceIsQuiet DEF OtherMessage, StartElsewhere
  <2>5. ASSUME NEW s \in Sessions, NEW n \in 0..MaxClientSeq, NEW i \in Slots,
               SessionStart(c, i, s, n) \/ SessionEnd(c, i, s, n)
        PROVE  Quiet
    BY <2>5, BoundsAreNumbers, AdvanceIsQuiet DEF SessionStart, SessionEnd
  <2>6. ASSUME NEW s \in Sessions, NEW prev \in Connections, RefuseResume(c, s, prev)
        PROVE  Quiet
    BY <2>6, ReceiverSession, NextServerSeqIsQuiet DEF RefuseResume
  <2>. QED
    BY <1>3, <2>1, <2>2, <2>3, <2>4, <2>5, <2>6 DEF Message, Attaching
<1>4. ASSUME NEW i \in Slots, Continuation(i)
      PROVE  Quiet \/ Attaching
  <2>1. CASE RefuseHello(i)
    BY <2>1, UnchangedIsQuiet DEF RefuseHello
  <2>2. CASE ResumeStored(i)
    BY <2>2, TaskSession, UnchangedIsQuiet, NextServerSeqIsQuiet
       DEF ResumeStored, ReportPersistenceError, Resumed
  <2>3. CASE CreateStored(i)
    BY <2>3, TaskSession, UnchangedIsQuiet, NextServerSeqIsQuiet
       DEF CreateStored, ReportPersistenceError, Resumed
  <2>4. CASE EndSeqStored(i)
    BY <2>4, TaskSession, UnchangedIsQuiet, NextServerSeqIsQuiet
       DEF EndSeqStored, ReportPersistenceError, Resumed
  <2>5. CASE EndRowStored(i)
    BY <2>5, TaskSession, UnchangedIsQuiet, NextServerSeqIsQuiet
       DEF EndRowStored, ReportPersistenceError, Resumed
  <2>. QED
    BY <1>4, <2>1, <2>2, <2>3, <2>4, <2>5 DEF Continuation, Attaching
<1>5. ASSUME NEW s \in Sessions, ServerMessage(s)
      PROVE  Quiet
  BY <1>5, NextServerSeqIsQuiet DEF ServerMessage
<1>. QED
  BY <1>1, <1>2, <1>3, <1>4, <1>5 DEF Next

-----------------------------------------------------------------------------
(* Type correctness *)

\* Writing a state into a session record leaves a session record.
LEMMA StateUpdateTypes ==
  ASSUME NEW r \in Session, NEW st \in SessionState
  PROVE  /\ [r EXCEPT !.state = st] \in Session
         /\ [r EXCEPT !.state = st].state = st
         /\ [r EXCEPT !.state = st].conn = r.conn
         /\ [r EXCEPT !.state = st].user = r.user
         /\ [r EXCEPT !.state = st].workspace = r.workspace
         /\ [r EXCEPT !.state = st].clientSeq = r.clientSeq
         /\ [r EXCEPT !.state = st].serverSeq = r.serverSeq
BY DEF Session

\* The four attaching steps keep the two maps of the session manager typed.
LEMMA AttachingTypes ==
  ASSUME TypeOK, Attaching
  PROVE  /\ sessions' \in [Sessions -> Session]
         /\ connectionToSession' \in [Connections -> Sessions \cup {None}]
<1>. USE DEF TypeOK
<1>1. ASSUME NEW c \in Connections, RemoveConnection(c)
      PROVE  /\ sessions' \in [Sessions -> Session]
             /\ connectionToSession' \in [Connections -> Sessions \cup {None}]
  <2>1. \A s \in Sessions : [sessions[s] EXCEPT !.state = "disconnected"] \in Session
    BY StateUpdateTypes DEF SessionState, Kept, Live
  <2>. QED
    BY <1>1, <2>1 DEF RemoveConnection
<1>2. ASSUME NEW i \in Slots, NEW s \in Sessions, NEW u \in Users, NEW w \in Workspaces,
             AcceptHello(i, s, u, w)
      PROVE  /\ sessions' \in [Sessions -> Session]
             /\ connectionToSession' \in [Connections -> Sessions \cup {None}]
  <2>1. tasks[i].conn \in Connections /\ tasks[i].seq \in Nat
    BY <1>2 DEF AcceptHello, Resumed, Task
  <2>. QED
    BY <1>2, <2>1 DEF AcceptHello, Session, SessionState, Kept, Live
<1>3. ASSUME NEW c \in Connections, NEW i \in Slots, NEW s \in Sessions,
             NEW prev \in Connections, NEW n \in 0..MaxClientSeq, NEW m \in 0..MaxServerSeq,
             ResumeRequest(c, i, s, prev, n, m)
      PROVE  /\ sessions' \in [Sessions -> Session]
             /\ connectionToSession' \in [Connections -> Sessions \cup {None}]
  <2>1. n \in Nat /\ m \in Nat
    BY BoundsAreNumbers
  <2>2. sessions[s] \in Session
    OBVIOUS
  <2>3. Reattached(c, s, n, m) \in Session
    BY <2>1, <2>2 DEF Reattached, Larger, Session, SessionState, Kept, Live
  <2>4. Absent("deleted") \in Session
    BY DEF Absent, Session, SessionState
  <2>. QED
    BY <1>3, <2>3, <2>4 DEF ResumeRequest
<1>4. ASSUME NEW i \in Slots, EndSession(i)
      PROVE  /\ sessions' \in [Sessions -> Session]
             /\ connectionToSession' \in [Connections -> Sessions \cup {None}]
  <2>1. tasks[i].sid \in Sessions
    BY <1>4, TaskSession DEF EndSession, Resumed
  <2>2. [sessions EXCEPT ![tasks[i].sid].state = "ended"] \in [Sessions -> Session]
    <3>1. \A s \in Sessions : [sessions[s] EXCEPT !.state = "ended"] \in Session
      BY StateUpdateTypes DEF SessionState, Kept
    <3>. QED
      BY <2>1, <3>1
  <2>3. sessions' \in [Sessions -> Session]
    BY <1>4, <2>1, <2>2, NextServerSeqAgrees DEF EndSession
  <2>. QED
    BY <1>4, <2>1, <2>3 DEF EndSession
<1>. QED
  BY <1>1, <1>2, <1>3, <1>4 DEF Attaching

\* The conjunct of TypeOK about waiting handlers, by itself.
TasksOK ==
  /\ tasks \in [Slots -> Task]
  /\ \A i \in Slots :
       /\ tasks[i].kind # "idle" => tasks[i].conn \in Connections
       /\ tasks[i].kind \notin {"idle", "hello"} => tasks[i].sid \in Sessions

\* Waiting, moving on to the next await and finishing keep the slots typed.
LEMMA AwaitTypes ==
  ASSUME TasksOK, NEW i \in Slots, NEW kind \in TaskKind \ {"idle"},
         NEW c \in Connections, NEW s \in Sessions \cup {None}, NEW n \in Nat,
         kind = "hello" \/ s \in Sessions, Await(i, kind, c, s, n)
  PROVE  TasksOK'
<1>1. [kind |-> kind, conn |-> c, sid |-> s, seq |-> n] \in Task
  BY DEF Task
<1>. QED
  BY <1>1 DEF Await, TasksOK

LEMMA DoneTypes ==
  ASSUME TasksOK, NEW i \in Slots, Done(i)
  PROVE  TasksOK'
<1>1. Idle \in Task /\ Idle.kind = "idle"
  BY DEF Task, TaskKind, Idle
<1>. QED
  BY <1>1 DEF Done, TasksOK

LEMMA NextAwaitTypes ==
  ASSUME TasksOK, NEW i \in Slots, tasks[i].kind \notin {"idle", "hello"},
         NEW kind \in TaskKind, tasks' = [tasks EXCEPT ![i].kind = kind]
  PROVE  TasksOK'
<1>1. tasks[i] \in Task
  BY DEF TasksOK
<1>2. [tasks[i] EXCEPT !.kind = kind] \in Task
  BY <1>1 DEF Task
<1>. QED
  BY <1>2 DEF TasksOK

LEMMA StepTasks ==
  ASSUME TypeOK, [Next]_vars
  PROVE  TasksOK'
<1>1. TasksOK
  BY DEF TypeOK, TasksOK
<1>2. CASE UNCHANGED tasks
  BY <1>1, <1>2 DEF TasksOK
<1>3. ASSUME NEW c \in Connections, Message(c)
      PROVE  TasksOK'
  <2>1. CASE UNCHANGED tasks
    BY <1>2, <2>1
  <2>2. ASSUME NEW i \in Slots, NEW n \in 0..MaxClientSeq, AuthHello(c, i, n)
        PROVE  TasksOK'
    BY <1>1, <2>2, AwaitTypes, BoundsAreNumbers DEF AuthHello, TaskKind
  <2>3. ASSUME NEW i \in Slots, NEW s \in Sessions, NEW n \in 0..MaxClientSeq,
               SessionStart(c, i, s, n) \/ SessionEnd(c, i, s, n)
        PROVE  TasksOK'
    BY <1>1, <1>2, <2>3, AwaitTypes DEF SessionStart, SessionEnd, TaskKind
  <2>4. ASSUME NEW i \in Slots, NEW s \in Sessions, NEW prev \in Connections,
               NEW n \in 0..MaxClientSeq, NEW m \in 0..MaxServerSeq,
               ResumeRequest(c, i, s, prev, n, m)
        PROVE  TasksOK'
    BY <1>1, <2>4, AwaitTypes DEF ResumeRequest, TaskKind
  <2>. QED
    BY <1>3, <2>1, <2>2, <2>3, <2>4
       DEF Message, UnauthenticatedMessage, UnmappedMessage, RejectedMessage,
           OtherMessage, StartElsewhere, RefuseResume
<1>4. ASSUME NEW i \in Slots, Continuation(i)
      PROVE  TasksOK'
  <2>1. CASE Done(i)
    BY <1>1, <2>1, DoneTypes
  <2>2. CASE EndSession(i) \/ EndSeqStored(i)
    BY <1>1, <2>1, <2>2, NextAwaitTypes DEF EndSession, EndSeqStored, Resumed, TaskKind
  <2>. QED
    BY <1>4, <2>1, <2>2
       DEF Continuation, RefuseHello, AcceptHello, ResumeStored, CreateStored, EndRowStored
<1>. QED
  BY <1>2, <1>3, <1>4
     DEF Next, vars, Socket, Connect, SocketError, SocketCloses, RemoveConnection,
         ServerMessage

\* Raising a flag in a connection's closure leaves a closure.
LEMMA ClosureTypes ==
  ASSUME TypeOK, NEW c \in Connections,
         \/ UNCHANGED closure
         \/ closure' = [closure EXCEPT ![c].authenticated = TRUE]
         \/ closure' = [closure EXCEPT ![c].persisted = TRUE]
  PROVE  closure' \in [Connections -> [authenticated : BOOLEAN, persisted : BOOLEAN]]
<1>. DEFINE Flags == [authenticated : BOOLEAN, persisted : BOOLEAN]
<1>1. closure \in [Connections -> Flags] /\ closure[c] \in Flags
  BY DEF TypeOK
<1>2. /\ [closure[c] EXCEPT !.authenticated = TRUE] \in Flags
      /\ [closure[c] EXCEPT !.persisted = TRUE] \in Flags
  BY <1>1
<1>3. CASE UNCHANGED closure
  BY <1>1, <1>3
<1>4. CASE closure' = [closure EXCEPT ![c].authenticated = TRUE]
  BY <1>1, <1>2, <1>4
<1>5. CASE closure' = [closure EXCEPT ![c].persisted = TRUE]
  BY <1>1, <1>2, <1>5
<1>. QED
  BY <1>3, <1>4, <1>5

LinkRange == {"idle", "open", "closing", "failed", "closed"}

LEMMA LinkTypes ==
  ASSUME TypeOK, NEW c, UNCHANGED link \/ CloseSocket(c)
  PROVE  link' \in [Connections -> LinkRange]
BY DEF TypeOK, CloseSocket, LinkRange

\* The flags, rows and histories stay in range.
FlagsOK ==
  /\ link \in [Connections -> LinkRange]
  /\ closure \in [Connections -> [authenticated : BOOLEAN, persisted : BOOLEAN]]
  /\ teardown \in [Connections -> Nat]
  /\ row \in [Sessions -> {"absent", "active", "ended"}]
  /\ started \subseteq Sessions
  /\ reported \subseteq Sessions
  /\ closed \subseteq Sessions

LEMMA StepFlags ==
  ASSUME TypeOK, [Next]_vars
  PROVE  FlagsOK'
<1>0. FlagsOK
  BY DEF TypeOK, FlagsOK, LinkRange
<1>. USE DEF FlagsOK, manager, history
<1>1. CASE UNCHANGED vars
  BY <1>0, <1>1 DEF vars
<1>2. ASSUME NEW c \in Connections, Socket(c)
      PROVE  FlagsOK'
  <2>1. CASE Connect(c)
    BY <1>0, <2>1 DEF Connect, LinkRange
  <2>2. CASE SocketError(c)
    BY <1>0, <2>2 DEF SocketError, LinkRange
  <2>3. CASE SocketCloses(c)
    BY <1>0, <2>3 DEF SocketCloses, LinkRange
  <2>4. CASE RemoveConnection(c)
    <3>1. teardown[c] \in Nat /\ teardown[c] > 0
      BY <1>0, <2>4 DEF RemoveConnection
    <3>2. teardown[c] - 1 \in Nat
      BY <3>1
    <3>. QED
      BY <1>0, <2>4, <3>2 DEF RemoveConnection
  <2>. QED
    BY <1>2, <2>1, <2>2, <2>3, <2>4 DEF Socket
<1>3. ASSUME NEW c \in Connections, Message(c)
      PROVE  FlagsOK'
  <2>1. CASE UnauthenticatedMessage(c) \/ UnmappedMessage(c)
    BY <1>0, <2>1, LinkTypes DEF UnauthenticatedMessage, UnmappedMessage
  <2>2. ASSUME NEW i \in Slots, NEW n \in 0..MaxClientSeq, AuthHello(c, i, n)
        PROVE  FlagsOK'
    BY <1>0, <2>2 DEF AuthHello
  <2>3. ASSUME NEW s \in Sessions, RejectedMessage(c, s)
        PROVE  FlagsOK'
    BY <1>0, <2>3 DEF RejectedMessage
  <2>4. ASSUME NEW s \in Sessions, NEW n \in 0..MaxClientSeq, OtherMessage(c, s, n)
        PROVE  FlagsOK'
    BY <1>0, <2>4 DEF OtherMessage
  <2>5. ASSUME NEW s \in Sessions, NEW n \in 0..MaxClientSeq, StartElsewhere(c, s, n)
        PROVE  FlagsOK'
    BY <1>0, <2>5, LinkTypes DEF StartElsewhere
  <2>6. ASSUME NEW s \in Sessions, NEW n \in 0..MaxClientSeq, NEW i \in Slots,
               SessionStart(c, i, s, n)
        PROVE  FlagsOK'
    <3>1. started' = started \cup {s} /\ UNCHANGED <<link, closure, teardown, row, reported, closed>>
      BY <2>6 DEF SessionStart
    <3>. QED
      BY <1>0, <3>1
  <2>7. ASSUME NEW s \in Sessions, NEW n \in 0..MaxClientSeq, NEW i \in Slots,
               SessionEnd(c, i, s, n)
        PROVE  FlagsOK'
    BY <1>0, <2>7 DEF SessionEnd
  <2>8. ASSUME NEW s \in Sessions, NEW prev \in Connections, RefuseResume(c, s, prev)
        PROVE  FlagsOK'
    BY <1>0, <2>8 DEF RefuseResume
  <2>9. ASSUME NEW i \in Slots, NEW s \in Sessions, NEW prev \in Connections,
               NEW n \in 0..MaxClientSeq, NEW m \in 0..MaxServerSeq,
               ResumeRequest(c, i, s, prev, n, m)
        PROVE  FlagsOK'
    <3>1. /\ closure' = [closure EXCEPT ![c].persisted = TRUE]
          /\ UNCHANGED <<link, teardown, row, history>>
      BY <2>9 DEF ResumeRequest
    <3>. QED
      BY <1>0, <3>1, ClosureTypes
  <2>. QED
    BY <1>3, <2>1, <2>2, <2>3, <2>4, <2>5, <2>6, <2>7, <2>8, <2>9 DEF Message
<1>4. ASSUME NEW i \in Slots, Continuation(i)
      PROVE  FlagsOK'
  <2>1. CASE RefuseHello(i)
    BY <1>0, <2>1, LinkTypes DEF RefuseHello
  <2>2. ASSUME NEW s \in Sessions, NEW u \in Users, NEW w \in Workspaces, AcceptHello(i, s, u, w)
        PROVE  FlagsOK'
    <3>1. /\ closure' = [closure EXCEPT ![tasks[i].conn].authenticated = TRUE]
          /\ UNCHANGED <<link, teardown, row, history>>
          /\ tasks[i].conn \in Connections
      BY <2>2 DEF AcceptHello, Resumed, TypeOK
    <3>. QED
      BY <1>0, <3>1, ClosureTypes
  <2>. DEFINE s == tasks[i].sid
  <2>3. ASSUME tasks[i].kind \notin {"idle", "hello"},
               \/ UNCHANGED reported
               \/ ReportPersistenceError(s)
        PROVE  s \in Sessions /\ tasks[i].conn \in Connections /\ reported' \subseteq Sessions
    <3>1. s \in Sessions /\ tasks[i].conn \in Connections
      BY <2>3, TaskSession
    <3>2. reported' \in {reported, reported \cup {s}}
      BY <2>3 DEF ReportPersistenceError
    <3>. QED
      BY <1>0, <3>1, <3>2
  <2>4. CASE ResumeStored(i)
    <3>1. /\ tasks[i].kind = "resume"
          /\ UNCHANGED reported \/ ReportPersistenceError(s)
          /\ UNCHANGED <<link, closure, teardown, row, started, closed>>
      BY <2>4 DEF ResumeStored, Resumed
    <3>. QED
      BY <1>0, <2>3, <3>1
  <2>5. CASE CreateStored(i)
    <3>1. /\ tasks[i].kind = "create"
          /\ UNCHANGED reported \/ ReportPersistenceError(s)
          /\ UNCHANGED <<link, teardown, started, closed>>
          /\ UNCHANGED closure \/ closure' = [closure EXCEPT ![tasks[i].conn].persisted = TRUE]
          /\ row' \in {row, [row EXCEPT ![s] = IF @ = "absent" THEN "active" ELSE @]}
      BY <2>5 DEF CreateStored, Resumed
    <3>2. row' \in [Sessions -> {"absent", "active", "ended"}]
      BY <1>0, <3>1
    <3>. QED
      BY <1>0, <2>3, <3>1, <3>2, ClosureTypes
  <2>6. CASE EndSession(i)
    <3>1. /\ tasks[i].kind = "end"
          /\ closed' \in {closed, closed \cup {s}}
          /\ UNCHANGED <<link, closure, teardown, row, started, reported>>
      BY <2>6 DEF EndSession, Resumed
    <3>. QED
      BY <1>0, <2>3, <3>1
  <2>7. CASE EndSeqStored(i)
    <3>1. /\ tasks[i].kind = "endSeq"
          /\ UNCHANGED reported \/ ReportPersistenceError(s)
          /\ closed' \in {closed, closed \cup {s}}
          /\ UNCHANGED <<link, closure, teardown, row, started>>
      BY <2>7 DEF EndSeqStored, Resumed
    <3>. QED
      BY <1>0, <2>3, <3>1
  <2>8. CASE EndRowStored(i)
    <3>1. /\ tasks[i].kind = "endRow"
          /\ UNCHANGED reported \/ ReportPersistenceError(s)
          /\ closed' = closed \cup {s}
          /\ UNCHANGED <<link, closure, teardown, started>>
          /\ row' \in {row, [row EXCEPT ![s] = IF @ = "absent" THEN @ ELSE "ended"]}
      BY <2>8 DEF EndRowStored, Resumed
    <3>2. row' \in [Sessions -> {"absent", "active", "ended"}]
      BY <1>0, <3>1
    <3>. QED
      BY <1>0, <2>3, <3>1, <3>2
  <2>. QED
    BY <1>4, <2>1, <2>2, <2>4, <2>5, <2>6, <2>7, <2>8 DEF Continuation
<1>5. ASSUME NEW s \in Sessions, ServerMessage(s)
      PROVE  FlagsOK'
  BY <1>0, <1>5 DEF ServerMessage
<1>. QED
  BY <1>1, <1>2, <1>3, <1>4, <1>5 DEF Next

LEMMA TypeStep ==
  ASSUME TypeOK, [Next]_vars
  PROVE  TypeOK'
<1>1. /\ sessions' \in [Sessions -> Session]
      /\ connectionToSession' \in [Connections -> Sessions \cup {None}]
  BY StepKinds, AttachingTypes DEF Quiet, TypeOK
<1>. QED
  BY <1>1, StepTasks, StepFlags DEF TypeOK, TasksOK, FlagsOK, LinkRange

\* Type correctness: TypeOK is inductive.
THEOREM TypeCorrect == Spec => []TypeOK
<1>1. Init => TypeOK
  BY DEF Init, TypeOK, Absent, Idle, Session, SessionState, Task, TaskKind
<1>2. TypeOK /\ [Next]_vars => TypeOK'
  BY TypeStep
<1>. QED
  BY <1>1, <1>2, PTL DEF Spec

-----------------------------------------------------------------------------
(* The maps of the session manager *)

\* OwnershipConsistent is inductive relative to TypeOK.
LEMMA OwnershipStep ==
  ASSUME TypeOK, OwnershipConsistent, [Next]_vars
  PROVE  OwnershipConsistent'
<1>. USE DEF OwnershipConsistent, TypeOK
<1>. None \notin Connections \cup Sessions
  BY SessionsAssumption
<1>1. CASE Quiet
  BY <1>1 DEF Quiet, AgreeAll, Agree
<1>2. ASSUME NEW c \in Connections, RemoveConnection(c)
      PROVE  OwnershipConsistent'
  <2>. DEFINE s == connectionToSession[c]
  <2>1. \A d \in Connections \ {c} : connectionToSession[d] # None => connectionToSession[d] # s
    OBVIOUS
  <2>2. \A t \in Sessions \ {s} : sessions'[t] = sessions[t]
    BY <1>2 DEF RemoveConnection
  <2>. QED
    BY <1>2, <2>1, <2>2 DEF RemoveConnection
<1>3. ASSUME NEW i \in Slots, NEW s \in Sessions, NEW u \in Users, NEW w \in Workspaces,
             AcceptHello(i, s, u, w)
      PROVE  OwnershipConsistent'
  <2>1. tasks[i].conn \in Connections
    BY <1>3 DEF AcceptHello, Resumed
  <2>. QED
    BY <1>3, <2>1 DEF AcceptHello
<1>4. ASSUME NEW c \in Connections, NEW i \in Slots, NEW s \in Sessions,
             NEW prev \in Connections, NEW n \in 0..MaxClientSeq, NEW m \in 0..MaxServerSeq,
             ResumeRequest(c, i, s, prev, n, m)
      PROVE  OwnershipConsistent'
  <2>. DEFINE temp == connectionToSession[c]
  <2>1. /\ temp \in Sessions
        /\ sessions[s].conn = prev
        /\ sessions'[s] = Reattached(c, s, n, m)
        /\ \A t \in Sessions \ {s, temp} : sessions'[t] = sessions[t]
        /\ connectionToSession' = [connectionToSession EXCEPT ![prev] = None, ![c] = s]
    BY <1>4, ReceiverSession DEF ResumeRequest, Resumable
  <2>2. Reattached(c, s, n, m).state = "active" /\ Reattached(c, s, n, m).conn = c
    BY DEF Reattached, Session
  <2>3. ASSUME NEW d \in Connections, d # c, connectionToSession'[d] # None
        PROVE  connectionToSession'[d] = connectionToSession[d] /\ connectionToSession[d] \notin {s, temp}
    BY <2>1, <2>3
  <2>. QED
    BY <2>1, <2>2, <2>3
<1>5. ASSUME NEW i \in Slots, EndSession(i)
      PROVE  OwnershipConsistent'
  <2>. DEFINE s == tasks[i].sid
              S == IF sessions[s].state \in Live
                   THEN [sessions EXCEPT ![s].state = "ended"] ELSE sessions
  <2>1. s \in Sessions
    BY <1>5, TaskSession DEF EndSession, Resumed
  <2>2. \A t \in Sessions : [sessions[t] EXCEPT !.state = "ended"] \in Session
    BY StateUpdateTypes DEF SessionState, Kept
  <2>3. S \in [Sessions -> Session] /\ \A t \in Sessions \ {s} : S[t] = sessions[t]
    BY <2>1, <2>2
  <2>4. AgreeAll(S, sessions')
    BY <1>5, <2>1, <2>3, NextServerSeqAgrees DEF EndSession
  <2>5. ASSUME NEW d \in Connections, connectionToSession'[d] # None
        PROVE  connectionToSession'[d] = connectionToSession[d]
    BY <1>5, <2>5 DEF EndSession
  <2>6. ASSUME NEW d \in Connections, connectionToSession'[d] # None
        PROVE  connectionToSession[d] # s
    BY <1>5, <2>6 DEF EndSession, Live
  <2>7. ASSUME NEW d \in Connections, connectionToSession'[d] # None
        PROVE  /\ sessions'[connectionToSession'[d]].state = "active"
               /\ sessions'[connectionToSession'[d]].conn = d
    <3>. DEFINE t == connectionToSession'[d]
    <3>1. t \in Sessions \ {s} /\ sessions[t].state = "active" /\ sessions[t].conn = d
      BY <2>5, <2>6, <2>7
    <3>2. S[t] = sessions[t] /\ Agree(S, sessions', t)
      BY <2>3, <2>4, <3>1 DEF AgreeAll
    <3>. QED
      BY <3>1, <3>2 DEF Agree
  <2>. QED
    BY <2>7
<1>. QED
  BY <1>1, <1>2, <1>3, <1>4, <1>5, StepKinds DEF Attaching

\* A connection is mapped only to an active session that names it.
THEOREM Ownership == Spec => []OwnershipConsistent
<1>1. Init => OwnershipConsistent
  BY DEF Init, OwnershipConsistent
<1>2. TypeOK /\ OwnershipConsistent /\ [Next]_vars => OwnershipConsistent'
  BY OwnershipStep
<1>. QED
  BY <1>1, <1>2, TypeCorrect, PTL DEF Spec

-----------------------------------------------------------------------------
(* What may become of one session in one step *)

\* Session t changes as RemoveConnection, AcceptHello, ResumeRequest (as the
\* session resumed, then as the temporary one) or EndSession change it.
Detached(t) ==
  /\ sessions[t].state = "active"
  /\ sessions'[t] = [sessions[t] EXCEPT !.state = "disconnected"]

Opened(t) ==
  /\ sessions[t].state = "unused"
  /\ sessions'[t].state = "active"

TakenOver(t) ==
  /\ sessions[t].state \in Live
  /\ sessions'[t].state = "active"
  /\ sessions'[t].user = sessions[t].user
  /\ sessions'[t].workspace = sessions[t].workspace
  /\ sessions'[t].clientSeq >= sessions[t].clientSeq
  /\ sessions'[t].serverSeq >= sessions[t].serverSeq

Discarded(t) ==
  /\ sessions[t].state = "active"
  /\ sessions'[t] = Absent("deleted")

Finished(t) ==
  /\ sessions[t].state \in Live
  /\ sessions'[t].state = "ended"
  /\ sessions'[t].conn = sessions[t].conn
  /\ sessions'[t].user = sessions[t].user
  /\ sessions'[t].workspace = sessions[t].workspace
  /\ sessions'[t].clientSeq >= sessions[t].clientSeq
  /\ sessions'[t].serverSeq >= sessions[t].serverSeq

Untouched(t) == Agree(sessions, sessions', t)

LEMMA SameAgrees ==
  ASSUME NEW S \in [Sessions -> Session], NEW T, NEW t \in Sessions, T[t] = S[t]
  PROVE  Agree(S, T, t)
BY DEF Agree, Session

\* endSession changes the state of its session, when live, and the next number.
LEMMA EndSessionEffect ==
  ASSUME TypeOK, NEW i \in Slots, EndSession(i)
  PROVE  /\ tasks[i].sid \in Sessions
         /\ \A t \in Sessions \ {tasks[i].sid} : Untouched(t)
         /\ Finished(tasks[i].sid) \/ Untouched(tasks[i].sid)
         /\ sessions'[tasks[i].sid].state \notin Live
<1>. DEFINE s == tasks[i].sid
            live == sessions[s].state \in Live
            S == IF live THEN [sessions EXCEPT ![s].state = "ended"] ELSE sessions
<1>1. s \in Sessions
  BY TaskSession DEF EndSession, Resumed
<1>2. sessions \in [Sessions -> Session] /\ sessions[s] \in Session
  BY <1>1 DEF TypeOK
<1>3. /\ [sessions[s] EXCEPT !.state = "ended"] \in Session
      /\ [sessions[s] EXCEPT !.state = "ended"].state = "ended"
      /\ [sessions[s] EXCEPT !.state = "ended"].conn = sessions[s].conn
      /\ [sessions[s] EXCEPT !.state = "ended"].user = sessions[s].user
      /\ [sessions[s] EXCEPT !.state = "ended"].workspace = sessions[s].workspace
      /\ [sessions[s] EXCEPT !.state = "ended"].clientSeq = sessions[s].clientSeq
      /\ [sessions[s] EXCEPT !.state = "ended"].serverSeq = sessions[s].serverSeq
  BY <1>2, StateUpdateTypes DEF SessionState, Kept
<1>4. /\ S \in [Sessions -> Session]
      /\ \A t \in Sessions \ {s} : S[t] = sessions[t]
      /\ S[s] = IF live THEN [sessions[s] EXCEPT !.state = "ended"] ELSE sessions[s]
  BY <1>1, <1>2, <1>3
<1>5. \A t \in Sessions : Agree(S, sessions', t)
  BY <1>1, <1>4, NextServerSeqAgrees DEF EndSession, AgreeAll
<1>6. \A t \in Sessions \ {s} : Untouched(t)
  BY <1>4, <1>5 DEF Untouched, Agree
<1>7. CASE live
  <2>1. Finished(s)
    BY <1>1, <1>3, <1>4, <1>5, <1>7 DEF Finished, Agree
  <2>. QED
    BY <1>1, <1>6, <2>1 DEF Finished, Live
<1>8. CASE ~live
  <2>1. Untouched(s) /\ sessions'[s].state = sessions[s].state
    BY <1>1, <1>4, <1>5, <1>8 DEF Untouched, Agree
  <2>. QED
    BY <1>1, <1>6, <1>8, <2>1
<1>. QED
  BY <1>7, <1>8

\* The effect of a resume: s is taken over, temp is discarded unless it is s.
LEMMA ResumeEffect ==
  ASSUME TypeOK, OwnershipConsistent, NEW c \in Connections, NEW i \in Slots,
         NEW s \in Sessions, NEW prev \in Connections, NEW n \in 0..MaxClientSeq,
         NEW m \in 0..MaxServerSeq, ResumeRequest(c, i, s, prev, n, m)
  PROVE  /\ connectionToSession[c] \in Sessions
         /\ TakenOver(s)
         /\ sessions'[s].conn = c
         /\ connectionToSession[c] # s => Discarded(connectionToSession[c])
         /\ \A t \in Sessions \ {s, connectionToSession[c]} : sessions'[t] = sessions[t]
         /\ connectionToSession' = [connectionToSession EXCEPT ![prev] = None, ![c] = s]
         /\ sessions[s].conn = prev
         /\ closure[c].authenticated
<1>. DEFINE temp == connectionToSession[c]
<1>. None \notin Connections \cup Sessions
  BY SessionsAssumption
<1>1. temp \in Sessions /\ temp # None /\ closure[c].authenticated
  BY DEF ResumeRequest, Receives, TypeOK
<1>2. sessions[temp].state = "active"
  BY <1>1 DEF OwnershipConsistent
<1>3. /\ sessions[s].state \in Live
      /\ sessions[s].conn = prev
      /\ sessions'[s] = Reattached(c, s, n, m)
      /\ temp # s => sessions'[temp] = Absent("deleted")
      /\ \A t \in Sessions \ {s, temp} : sessions'[t] = sessions[t]
      /\ connectionToSession' = [connectionToSession EXCEPT ![prev] = None, ![c] = s]
  BY <1>1 DEF ResumeRequest, Resumable
<1>4. sessions[s] \in Session /\ n \in Nat /\ m \in Nat
  BY BoundsAreNumbers DEF TypeOK
<1>5. /\ Reattached(c, s, n, m).state = "active"
      /\ Reattached(c, s, n, m).conn = c
      /\ Reattached(c, s, n, m).user = sessions[s].user
      /\ Reattached(c, s, n, m).workspace = sessions[s].workspace
      /\ Reattached(c, s, n, m).clientSeq >= sessions[s].clientSeq
      /\ Reattached(c, s, n, m).serverSeq >= sessions[s].serverSeq
  BY <1>4 DEF Reattached, Session, Larger
<1>6. TakenOver(s) /\ sessions'[s].conn = c
  BY <1>3, <1>5 DEF TakenOver
<1>7. temp # s => Discarded(temp)
  BY <1>2, <1>3 DEF Discarded
<1>. QED
  BY <1>1, <1>3, <1>6, <1>7

\* Every step treats every session in one of these six ways.
LEMMA SessionStep ==
  ASSUME TypeOK, OwnershipConsistent, [Next]_vars, NEW t \in Sessions
  PROVE  Untouched(t) \/ Detached(t) \/ Opened(t) \/ TakenOver(t) \/ Discarded(t) \/ Finished(t)
<1>0. sessions \in [Sessions -> Session]
  BY DEF TypeOK
<1>1. CASE Quiet
  BY <1>1 DEF Quiet, AgreeAll, Untouched
<1>2. ASSUME NEW c \in Connections, RemoveConnection(c)
      PROVE  Untouched(t) \/ Detached(t)
  <2>1. CASE connectionToSession[c] = t /\ sessions[t].state = "active"
    BY <1>0, <1>2, <2>1, SessionsAssumption DEF RemoveConnection, Detached
  <2>2. CASE ~(connectionToSession[c] = t /\ sessions[t].state = "active")
    <3>1. sessions'[t] = sessions[t]
      BY <1>0, <1>2, <2>2 DEF RemoveConnection, TypeOK
    <3>. QED
      BY <1>0, <3>1, SameAgrees DEF Untouched
  <2>. QED
    BY <2>1, <2>2
<1>3. ASSUME NEW i \in Slots, NEW s \in Sessions, NEW u \in Users, NEW w \in Workspaces,
             AcceptHello(i, s, u, w)
      PROVE  Untouched(t) \/ Opened(t)
  <2>1. CASE t = s
    BY <1>0, <1>3, <2>1 DEF AcceptHello, Opened
  <2>2. CASE t # s
    BY <1>0, <1>3, <2>2, SameAgrees DEF AcceptHello, Untouched
  <2>. QED
    BY <2>1, <2>2
<1>4. ASSUME NEW c \in Connections, NEW i \in Slots, NEW s \in Sessions,
             NEW prev \in Connections, NEW n \in 0..MaxClientSeq, NEW m \in 0..MaxServerSeq,
             ResumeRequest(c, i, s, prev, n, m)
      PROVE  Untouched(t) \/ TakenOver(t) \/ Discarded(t)
  BY <1>0, <1>4, ResumeEffect, SameAgrees DEF Untouched
<1>5. ASSUME NEW i \in Slots, EndSession(i)
      PROVE  Untouched(t) \/ Finished(t)
  BY <1>5, EndSessionEffect
<1>. QED
  BY <1>1, <1>2, <1>3, <1>4, <1>5, StepKinds DEF Attaching

-----------------------------------------------------------------------------
(* Action properties *)

\* No step revives a session that ended or was deleted.
LEMMA StepIsFinal ==
  ASSUME TypeOK, OwnershipConsistent, [Next]_vars, NEW t \in Sessions,
         sessions[t].state \in {"ended", "deleted"}
  PROVE  sessions'[t].state = sessions[t].state
BY SessionStep DEF Untouched, Agree, Detached, Opened, TakenOver, Discarded, Finished, Live

\* No interleaving of resume requests, closes and late continuations revives a
\* session that ended or was deleted.
THEOREM EndIsFinalHolds == Spec => EndIsFinal
<1>1. TypeOK /\ OwnershipConsistent /\ [Next]_vars =>
        [\A s \in Sessions : sessions[s].state \in {"ended", "deleted"} =>
            sessions'[s].state = sessions[s].state]_vars
  BY StepIsFinal
<1>. QED
  BY <1>1, TypeCorrect, Ownership, PTL DEF Spec, EndIsFinal

LEMMA StepCounts ==
  ASSUME TypeOK, OwnershipConsistent, [Next]_vars, NEW t \in Sessions,
         sessions[t].state \in Kept, sessions'[t].state \in Kept
  PROVE  /\ sessions'[t].clientSeq >= sessions[t].clientSeq
         /\ sessions'[t].serverSeq >= sessions[t].serverSeq
<1>. sessions[t] \in Session
  BY DEF TypeOK
<1>1. CASE Detached(t)
  <2>1. /\ sessions'[t].clientSeq = sessions[t].clientSeq
        /\ sessions'[t].serverSeq = sessions[t].serverSeq
        /\ sessions[t].clientSeq \in Nat /\ sessions[t].serverSeq \in Nat
    BY <1>1 DEF Detached, Session
  <2>. QED
    BY <2>1
<1>2. CASE Opened(t) \/ Discarded(t)
  BY <1>2 DEF Opened, Discarded, Absent, Kept, Live
<1>. QED
  BY <1>1, <1>2, SessionStep DEF Untouched, Agree, TakenOver, Finished

\* Both counters of a session only grow, whatever numbers a resume request names.
THEOREM SequencesHold == Spec => SequencesNeverRewind
<1>1. TypeOK /\ OwnershipConsistent /\ [Next]_vars =>
        [\A s \in Sessions :
           sessions[s].state \in Kept /\ sessions'[s].state \in Kept =>
             /\ sessions'[s].clientSeq >= sessions[s].clientSeq
             /\ sessions'[s].serverSeq >= sessions[s].serverSeq]_vars
  BY StepCounts
<1>. QED
  BY <1>1, TypeCorrect, Ownership, PTL DEF Spec, SequencesNeverRewind

-----------------------------------------------------------------------------
(* What may become of a waiting handler in one step *)

\* A handler of a mapped connection starts to wait, for the session it is mapped
\* to; an auth.hello starts to wait; or a session.end goes on to its next write.
Starts(i) ==
  /\ tasks[i] = Idle
  /\ tasks'[i].kind \in {"resume", "create", "end"}
  /\ tasks'[i].conn \in Connections
  /\ tasks'[i].sid = connectionToSession'[tasks'[i].conn]
  /\ tasks'[i].sid \in Sessions
  /\ tasks'[i].kind = "create" =>
       ~closure[tasks'[i].conn].persisted /\ UNCHANGED connectionToSession

Greets(i) ==
  /\ tasks'[i].kind = "hello"
  /\ tasks'[i].conn \in Connections
  /\ ~closure[tasks'[i].conn].authenticated
  /\ "repeated_hello" \in Faults \/ ~HelloPending(tasks'[i].conn)
  /\ \A j \in Slots \ {i} : tasks'[j] = tasks[j]
  /\ UNCHANGED <<closure, manager>>

Advanced(i) ==
  /\ \/ EndSession(i)
     \/ tasks[i].kind = "endSeq"
  /\ tasks'[i].kind \in {"endSeq", "endRow"}
  /\ tasks'[i].conn = tasks[i].conn
  /\ tasks'[i].sid = tasks[i].sid

LEMMA TaskStep ==
  ASSUME TypeOK, [Next]_vars, NEW j \in Slots
  PROVE  tasks'[j] = tasks[j] \/ tasks'[j] = Idle \/ Starts(j) \/ Greets(j) \/ Advanced(j)
<1>. DEFINE Goal == tasks'[j] = tasks[j] \/ tasks'[j] = Idle \/ Starts(j) \/ Greets(j) \/ Advanced(j)
<1>0. tasks \in [Slots -> Task]
  BY DEF TypeOK
<1>1. CASE UNCHANGED tasks
  BY <1>1
<1>2. ASSUME NEW c \in Connections, NEW i \in Slots, NEW n \in 0..MaxClientSeq, AuthHello(c, i, n)
      PROVE  Goal
  <2>1. CASE i = j
    BY <1>0, <1>2, <2>1 DEF AuthHello, Await, Greets
  <2>2. CASE i # j
    BY <1>0, <1>2, <2>2 DEF AuthHello, Await
  <2>. QED
    BY <2>1, <2>2
<1>3. ASSUME NEW c \in Connections, NEW i \in Slots, NEW s \in Sessions, NEW n \in 0..MaxClientSeq,
             SessionStart(c, i, s, n) \/ SessionEnd(c, i, s, n)
      PROVE  Goal
  <2>1. CASE i = j
    <3>1. connectionToSession'[c] = s
      BY <1>3 DEF SessionStart, SessionEnd, Receives
    <3>2. \/ UNCHANGED tasks
          \/ Await(i, "create", c, s, 0) /\ ~closure[c].persisted /\ UNCHANGED connectionToSession
          \/ Await(i, "end", c, s, 0)
      BY <1>3 DEF SessionStart, SessionEnd
    <3>. QED
      BY <1>0, <1>1, <2>1, <3>1, <3>2 DEF Await, Starts
  <2>2. CASE i # j
    BY <1>0, <1>3, <2>2 DEF SessionStart, SessionEnd, Await
  <2>. QED
    BY <2>1, <2>2
<1>4. ASSUME NEW c \in Connections, NEW i \in Slots, NEW s \in Sessions,
             NEW prev \in Connections, NEW n \in 0..MaxClientSeq, NEW m \in 0..MaxServerSeq,
             ResumeRequest(c, i, s, prev, n, m)
      PROVE  Goal
  <2>1. CASE i = j
    <3>1. connectionToSession'[c] = s /\ Await(i, "resume", c, s, 0)
      BY <1>4 DEF ResumeRequest, TypeOK
    <3>. QED
      BY <1>0, <2>1, <3>1 DEF Await, Starts
  <2>2. CASE i # j
    BY <1>0, <1>4, <2>2 DEF ResumeRequest, Await
  <2>. QED
    BY <2>1, <2>2
<1>5. ASSUME NEW i \in Slots, Continuation(i)
      PROVE  Goal
  <2>1. CASE Done(i)
    BY <1>0, <2>1 DEF Done
  <2>2. CASE EndSession(i) /\ tasks' = [tasks EXCEPT ![i].kind = "endSeq"]
    <3>1. CASE i = j
      <4>1. tasks'[i] = [tasks[i] EXCEPT !.kind = "endSeq"] /\ tasks[i] \in Task
        BY <1>0, <2>2
      <4>. QED
        BY <2>2, <3>1, <4>1 DEF Advanced, Task
    <3>. QED
      BY <1>0, <2>2, <3>1
  <2>3. CASE tasks[i].kind = "endSeq" /\ tasks' = [tasks EXCEPT ![i].kind = "endRow"]
    <3>1. CASE i = j
      <4>1. tasks'[i] = [tasks[i] EXCEPT !.kind = "endRow"] /\ tasks[i] \in Task
        BY <1>0, <2>3
      <4>. QED
        BY <2>3, <3>1, <4>1 DEF Advanced, Task
    <3>. QED
      BY <1>0, <2>3, <3>1
  <2>4. Done(i) \/ EndSession(i) \/ EndSeqStored(i)
    BY <1>5 DEF Continuation, RefuseHello, AcceptHello, ResumeStored, CreateStored, EndRowStored
  <2>. QED
    BY <2>1, <2>2, <2>3, <2>4 DEF EndSession, EndSeqStored, Resumed
<1>6. ASSUME NEW c \in Connections, Message(c)
      PROVE  Goal
  BY <1>1, <1>2, <1>3, <1>4, <1>6
     DEF Message, UnauthenticatedMessage, UnmappedMessage, RejectedMessage,
         OtherMessage, StartElsewhere, RefuseResume
<1>. QED
  BY <1>1, <1>5, <1>6
     DEF Next, vars, Socket, Connect, SocketError, SocketCloses, RemoveConnection,
         ServerMessage

-----------------------------------------------------------------------------
(* The row of a meeting *)

\* A row changes when a pending create or a pending end settles, and not back.
LEMMA RowStep ==
  ASSUME TypeOK, [Next]_vars, NEW s \in Sessions
  PROVE  \/ row'[s] = row[s]
         \/ \E i \in Slots : /\ CreateStored(i) /\ tasks[i].kind = "create" /\ tasks[i].sid = s
                             /\ row[s] = "absent" /\ row'[s] = "active"
         \/ \E i \in Slots : /\ EndRowStored(i) /\ tasks[i].kind = "endRow" /\ tasks[i].sid = s
                             /\ row[s] # "absent" /\ row'[s] = "ended"
<1>. row \in [Sessions -> {"absent", "active", "ended"}]
  BY DEF TypeOK
<1>1. CASE UNCHANGED row
  BY <1>1
<1>2. ASSUME NEW i \in Slots, CreateStored(i), row'[s] # row[s]
      PROVE  tasks[i].kind = "create" /\ tasks[i].sid = s /\ row[s] = "absent" /\ row'[s] = "active"
  <2>1. row' \in {row, [row EXCEPT ![tasks[i].sid] = IF @ = "absent" THEN "active" ELSE @]}
    BY <1>2 DEF CreateStored
  <2>. QED
    BY <1>2, <2>1 DEF CreateStored, Resumed
<1>3. ASSUME NEW i \in Slots, EndRowStored(i), row'[s] # row[s]
      PROVE  tasks[i].kind = "endRow" /\ tasks[i].sid = s /\ row[s] # "absent" /\ row'[s] = "ended"
  <2>1. row' \in {row, [row EXCEPT ![tasks[i].sid] = IF @ = "absent" THEN @ ELSE "ended"]}
    BY <1>3 DEF EndRowStored
  <2>. QED
    BY <1>3, <2>1 DEF EndRowStored, Resumed
<1>4. ASSUME NEW i \in Slots, Continuation(i)
      PROVE  UNCHANGED row \/ CreateStored(i) \/ EndRowStored(i)
  BY <1>4 DEF Continuation, RefuseHello, AcceptHello, ResumeStored, EndSession, EndSeqStored, history
<1>5. ASSUME NEW c \in Connections, Socket(c) \/ Message(c)
      PROVE  UNCHANGED row
  BY <1>5 DEF Socket, Connect, SocketError, SocketCloses, RemoveConnection,
              Message, UnauthenticatedMessage, UnmappedMessage, AuthHello, RejectedMessage,
              OtherMessage, StartElsewhere, SessionStart, SessionEnd, RefuseResume,
              ResumeRequest, history
<1>. QED
  BY <1>1, <1>2, <1>3, <1>4, <1>5 DEF Next, vars, ServerMessage

\* What makes EndedRowNotLive inductive: only sessions that were issued have a
\* row or a waiting handler, and the writes of a session.end come after endSession.
EndedFirst ==
  /\ \A i \in Slots : tasks[i].kind \notin {"idle", "hello"} =>
                        sessions[tasks[i].sid].state # "unused"
  /\ \A i \in Slots : tasks[i].kind \in {"endSeq", "endRow"} =>
                        sessions[tasks[i].sid].state \in {"ended", "deleted"}
  /\ \A s \in Sessions : row[s] # "absent" => sessions[s].state # "unused"
  /\ EndedRowNotLive

LEMMA EndedFirstStep ==
  ASSUME TypeOK, OwnershipConsistent, EndedFirst, [Next]_vars
  PROVE  EndedFirst'
<1>0. OwnershipConsistent' /\ TypeOK'
  BY OwnershipStep, TypeStep
<1>. None \notin Connections \cup Sessions
  BY SessionsAssumption
<1>1. \A t \in Sessions : sessions[t].state # "unused" => sessions'[t].state # "unused"
  <2>. SUFFICES ASSUME NEW t \in Sessions, sessions[t].state # "unused"
                PROVE  sessions'[t].state # "unused"
    OBVIOUS
  <2>1. CASE Detached(t)
    <3>1. sessions[t] \in Session
      BY DEF TypeOK
    <3>2. sessions'[t].state = "disconnected"
      BY <2>1, <3>1 DEF Detached, Session
    <3>. QED
      BY <3>2
  <2>. QED
    BY <2>1, SessionStep DEF Untouched, Agree, Opened, TakenOver, Discarded, Finished, Absent
<1>2. \A t \in Sessions : sessions[t].state \in {"ended", "deleted"} =>
                            sessions'[t].state \in {"ended", "deleted"}
  BY StepIsFinal
<1>3. ASSUME NEW i \in Slots, tasks'[i].kind \notin {"idle", "hello"}
      PROVE  sessions'[tasks'[i].sid].state # "unused"
  <2>1. CASE tasks'[i] = tasks[i]
    BY <1>1, <1>3, <2>1, TaskSession DEF EndedFirst
  <2>2. CASE Starts(i)
    BY <1>0, <2>2 DEF Starts, OwnershipConsistent
  <2>3. CASE Advanced(i)
    BY <1>1, <1>3, <2>3, TaskSession DEF EndedFirst, Advanced, EndSession, Resumed
  <2>. QED
    BY <1>3, <2>1, <2>2, <2>3, TaskStep DEF Greets, Idle
<1>4. ASSUME NEW i \in Slots, tasks'[i].kind \in {"endSeq", "endRow"}
      PROVE  sessions'[tasks'[i].sid].state \in {"ended", "deleted"}
  <2>1. CASE tasks'[i] = tasks[i]
    BY <1>2, <1>4, <2>1, TaskSession DEF EndedFirst
  <2>2. CASE Advanced(i) /\ EndSession(i)
    <3>1. tasks[i].kind = "end" /\ tasks[i].sid \in Sessions
      BY <2>2, TaskSession DEF EndSession, Resumed
    <3>2. sessions[tasks[i].sid].state # "unused"
      BY <3>1 DEF EndedFirst
    <3>3. sessions'[tasks[i].sid].state # "unused"
      BY <1>1, <3>1, <3>2
    <3>4. sessions'[tasks[i].sid].state \notin Live
      BY <2>2, EndSessionEffect
    <3>5. sessions'[tasks[i].sid] \in Session
      BY <1>0, <3>1 DEF TypeOK
    <3>. QED
      BY <2>2, <3>3, <3>4, <3>5 DEF Advanced, Session, SessionState, Kept
  <2>3. CASE Advanced(i) /\ tasks[i].kind = "endSeq"
    BY <1>2, <2>3, TaskSession DEF EndedFirst, Advanced
  <2>. QED
    BY <1>4, <2>1, <2>2, <2>3, TaskStep DEF Greets, Starts, Advanced, Idle
<1>5. ASSUME NEW s \in Sessions, row'[s] # "absent"
      PROVE  sessions'[s].state # "unused"
  BY <1>1, <1>5, RowStep DEF EndedFirst
<1>6. ASSUME NEW s \in Sessions, row'[s] = "ended"
      PROVE  sessions'[s].state \in {"ended", "deleted"}
  BY <1>2, <1>6, RowStep DEF EndedFirst, EndedRowNotLive
<1>. QED
  BY <1>3, <1>4, <1>5, <1>6 DEF EndedFirst, EndedRowNotLive

THEOREM EndedFirstHolds == Spec => []EndedFirst
<1>1. Init => EndedFirst
  BY DEF Init, EndedFirst, EndedRowNotLive, Idle
<1>2. TypeOK /\ OwnershipConsistent /\ EndedFirst /\ [Next]_vars => EndedFirst'
  BY EndedFirstStep
<1>. QED
  BY <1>1, <1>2, TypeCorrect, Ownership, PTL DEF Spec

\* A meeting whose row says "ended" is not live, whichever handlers still wait.
THEOREM EndedRowHolds == Spec => []EndedRowNotLive
<1>1. EndedFirst => EndedRowNotLive
  BY DEF EndedFirst
<1>. QED
  BY <1>1, EndedFirstHolds, PTL

-----------------------------------------------------------------------------
(* Every active session can be reached from the connection it names *)

\* A flag of a connection's closure is never lowered, and only an accepted
\* auth.hello raises the first.
LEMMA ClosureStep ==
  ASSUME TypeOK, [Next]_vars, NEW c \in Connections
  PROVE  /\ closure[c].authenticated => closure'[c].authenticated
         /\ closure[c].persisted => closure'[c].persisted
         /\ closure'[c].authenticated /\ ~closure[c].authenticated =>
              \E i \in Slots, s \in Sessions, u \in Users, w \in Workspaces :
                AcceptHello(i, s, u, w) /\ tasks[i].conn = c
<1>. DEFINE Accepted == \E i \in Slots, s \in Sessions, u \in Users, w \in Workspaces :
                          AcceptHello(i, s, u, w) /\ tasks[i].conn = c
            Goal == /\ closure[c].authenticated => closure'[c].authenticated
                    /\ closure[c].persisted => closure'[c].persisted
                    /\ closure'[c].authenticated /\ ~closure[c].authenticated => Accepted
<1>0. /\ closure \in [Connections -> [authenticated : BOOLEAN, persisted : BOOLEAN]]
      /\ closure[c] \in [authenticated : BOOLEAN, persisted : BOOLEAN]
  BY DEF TypeOK
<1>1. CASE UNCHANGED closure
  BY <1>1
<1>2. ASSUME NEW d \in Connections, closure' = [closure EXCEPT ![d].persisted = TRUE]
      PROVE  Goal
  <2>1. CASE c = d
    <3>1. closure'[c] = [closure[c] EXCEPT !.persisted = TRUE]
      BY <1>0, <1>2, <2>1
    <3>2. closure'[c].authenticated = closure[c].authenticated /\ closure'[c].persisted
      BY <1>0, <3>1
    <3>. QED
      BY <3>2
  <2>2. CASE c # d
    <3>1. closure'[c] = closure[c]
      BY <1>0, <1>2, <2>2
    <3>. QED
      BY <3>1
  <2>. QED
    BY <2>1, <2>2
<1>3. ASSUME NEW i \in Slots, NEW s \in Sessions, NEW u \in Users, NEW w \in Workspaces,
             AcceptHello(i, s, u, w)
      PROVE  Goal
  <2>1. closure' = [closure EXCEPT ![tasks[i].conn].authenticated = TRUE]
    BY <1>3 DEF AcceptHello
  <2>2. CASE tasks[i].conn = c
    <3>1. closure'[c] = [closure[c] EXCEPT !.authenticated = TRUE]
      BY <1>0, <2>1, <2>2
    <3>2. closure'[c].authenticated /\ closure'[c].persisted = closure[c].persisted
      BY <1>0, <3>1
    <3>3. Accepted
      BY <1>3, <2>2
    <3>. QED
      BY <3>2, <3>3
  <2>3. CASE tasks[i].conn # c
    <3>1. closure'[c] = closure[c]
      BY <1>0, <2>1, <2>3
    <3>. QED
      BY <3>1
  <2>. QED
    BY <2>2, <2>3
<1>4. ASSUME NEW d \in Connections, NEW i \in Slots, NEW s \in Sessions, NEW prev \in Connections,
             NEW n \in 0..MaxClientSeq, NEW m \in 0..MaxServerSeq,
             ResumeRequest(d, i, s, prev, n, m)
      PROVE  Goal
  <2>1. closure' = [closure EXCEPT ![d].persisted = TRUE]
    BY <1>4 DEF ResumeRequest
  <2>. QED
    BY <1>2, <2>1
<1>5. ASSUME NEW i \in Slots, CreateStored(i)
      PROVE  Goal
  <2>1. UNCHANGED closure \/ closure' = [closure EXCEPT ![tasks[i].conn].persisted = TRUE]
    BY <1>5 DEF CreateStored
  <2>2. tasks[i].conn \in Connections
    BY <1>5, TaskSession DEF CreateStored, Resumed
  <2>. QED
    BY <1>1, <1>2, <2>1, <2>2
<1>6. ASSUME NEW d \in Connections, Socket(d) \/ Message(d)
      PROVE  Goal
  <2>1. \/ UNCHANGED closure
        \/ \E i \in Slots, s \in Sessions, prev \in Connections,
              n \in 0..MaxClientSeq, m \in 0..MaxServerSeq : ResumeRequest(d, i, s, prev, n, m)
    BY <1>6 DEF Socket, Connect, SocketError, SocketCloses, RemoveConnection,
                Message, UnauthenticatedMessage, UnmappedMessage, AuthHello, RejectedMessage,
                OtherMessage, StartElsewhere, SessionStart, SessionEnd, RefuseResume
  <2>. QED
    BY <1>1, <1>4, <2>1
<1>7. ASSUME NEW i \in Slots, Continuation(i)
      PROVE  Goal
  <2>1. \/ UNCHANGED closure
        \/ CreateStored(i)
        \/ \E s \in Sessions, u \in Users, w \in Workspaces : AcceptHello(i, s, u, w)
    BY <1>7 DEF Continuation, RefuseHello, ResumeStored, EndSession, EndSeqStored, EndRowStored
  <2>. QED
    BY <1>1, <1>3, <1>5, <2>1
<1>. QED
  BY <1>1, <1>6, <1>7 DEF Next, vars, ServerMessage

\* What makes NoOrphanedSession inductive: a connection is given a session by
\* auth.hello once, so one that lost its session is not mapped again while that
\* session waits to be resumed.
AttachedOnce ==
  /\ \A s \in Sessions : sessions[s].state \in Kept =>
       sessions[s].conn \in Connections /\ closure[sessions[s].conn].authenticated
  /\ \A s \in Sessions : sessions[s].state = "active" => connectionToSession[sessions[s].conn] = s
  /\ \A s \in Sessions : sessions[s].state = "disconnected" => ~Mapped(sessions[s].conn)
  /\ \A i \in Slots : tasks[i].kind = "hello" => ~closure[tasks[i].conn].authenticated
  /\ \A i, j \in Slots : /\ tasks[i].kind = "hello" /\ tasks[j].kind = "hello"
                         /\ tasks[i].conn = tasks[j].conn
                         => i = j

LEMMA HelloStep ==
  ASSUME TypeOK, AttachedOnce, "repeated_hello" \notin Faults, [Next]_vars
  PROVE  /\ \A i \in Slots : tasks'[i].kind = "hello" => ~closure'[tasks'[i].conn].authenticated
         /\ \A i, j \in Slots : /\ tasks'[i].kind = "hello" /\ tasks'[j].kind = "hello"
                                /\ tasks'[i].conn = tasks'[j].conn
                                => i = j
<1>1. ASSUME NEW i \in Slots, tasks'[i].kind = "hello"
      PROVE  tasks'[i] = tasks[i] \/ Greets(i)
  BY <1>1, TaskStep DEF Idle, Starts, Advanced
<1>2. ASSUME NEW i \in Slots, tasks'[i].kind = "hello"
      PROVE  ~closure'[tasks'[i].conn].authenticated
  <2>1. CASE tasks'[i] = tasks[i]
    <3>. DEFINE c == tasks[i].conn
    <3>1. c \in Connections /\ ~closure[c].authenticated
      BY <1>2, <2>1 DEF AttachedOnce, TypeOK
    <3>2. ASSUME NEW j \in Slots, NEW s \in Sessions, NEW u \in Users, NEW w \in Workspaces,
                 AcceptHello(j, s, u, w), tasks[j].conn = c
          PROVE  FALSE
      <4>1. tasks[j].kind = "hello" /\ tasks' = [tasks EXCEPT ![j] = Idle]
        BY <3>2 DEF AcceptHello, Resumed, Done
      <4>2. i = j
        BY <1>2, <2>1, <3>2, <4>1 DEF AttachedOnce
      <4>. QED
        BY <1>2, <4>1, <4>2 DEF Idle, TypeOK
    <3>. QED
      BY <2>1, <3>1, <3>2, ClosureStep
  <2>2. CASE Greets(i)
    BY <2>2 DEF Greets
  <2>. QED
    BY <1>1, <1>2, <2>1, <2>2
<1>3. ASSUME NEW i \in Slots, NEW j \in Slots, tasks'[i].kind = "hello", tasks'[j].kind = "hello",
             tasks'[i].conn = tasks'[j].conn
      PROVE  i = j
  <2>1. CASE tasks'[i] = tasks[i] /\ tasks'[j] = tasks[j]
    BY <1>3, <2>1 DEF AttachedOnce
  <2>2. CASE Greets(i)
    BY <1>3, <2>2 DEF Greets, HelloPending
  <2>3. CASE Greets(j)
    BY <1>3, <2>3 DEF Greets, HelloPending
  <2>. QED
    BY <1>1, <1>3, <2>1, <2>2, <2>3
<1>. QED
  BY <1>2, <1>3

\* The three conjuncts of AttachedOnce about sessions.
Reachable ==
  \A s \in Sessions :
    /\ sessions[s].state \in Kept =>
         sessions[s].conn \in Connections /\ closure[sessions[s].conn].authenticated
    /\ sessions[s].state = "active" => connectionToSession[sessions[s].conn] = s
    /\ sessions[s].state = "disconnected" => ~Mapped(sessions[s].conn)

LEMMA ReachableStep ==
  ASSUME TypeOK, OwnershipConsistent, AttachedOnce, [Next]_vars
  PROVE  Reachable'
<1>. None \notin Connections \cup Sessions
  BY SessionsAssumption
<1>0. Reachable
  BY DEF AttachedOnce, Reachable
<1>1. \A c \in Connections : closure[c].authenticated => closure'[c].authenticated
  BY ClosureStep
<1>2. CASE Quiet
  <2>. SUFFICES ASSUME NEW s \in Sessions
                PROVE  /\ sessions'[s].state \in Kept =>
                            sessions'[s].conn \in Connections /\ closure'[sessions'[s].conn].authenticated
                       /\ sessions'[s].state = "active" => connectionToSession'[sessions'[s].conn] = s
                       /\ sessions'[s].state = "disconnected" => connectionToSession'[sessions'[s].conn] = None
    BY DEF Reachable, Mapped
  <2>1. Agree(sessions, sessions', s)
    BY <1>2 DEF Quiet, AgreeAll
  <2>. QED
    BY <1>0, <1>1, <1>2, <2>1 DEF Quiet, Agree, Reachable, Mapped
<1>3. ASSUME NEW c \in Connections, RemoveConnection(c)
      PROVE  Reachable'
  <2>1. /\ \A s \in Sessions : sessions'[s].conn = sessions[s].conn
        /\ connectionToSession' = [connectionToSession EXCEPT ![c] = None]
        /\ \A s \in Sessions :
             sessions'[s].state = IF connectionToSession[c] = s /\ sessions[s].state = "active"
                                  THEN "disconnected" ELSE sessions[s].state
    BY <1>3 DEF RemoveConnection, TypeOK, Session
  <2>2. UNCHANGED closure
    BY <1>3 DEF RemoveConnection
  <2>. SUFFICES ASSUME NEW s \in Sessions
                PROVE  /\ sessions'[s].state \in Kept =>
                            sessions'[s].conn \in Connections /\ closure'[sessions'[s].conn].authenticated
                       /\ sessions'[s].state = "active" => connectionToSession'[sessions'[s].conn] = s
                       /\ sessions'[s].state = "disconnected" => connectionToSession'[sessions'[s].conn] = None
    BY DEF Reachable, Mapped
  <2>3. CASE connectionToSession[c] = s /\ sessions[s].state = "active"
    <3>1. sessions[s].conn = c /\ c \in Connections /\ closure[c].authenticated
      BY <1>0, <2>3 DEF Reachable, OwnershipConsistent, Kept, Live
    <3>2. connectionToSession'[c] = None
      BY <2>1 DEF TypeOK
    <3>. QED
      BY <2>1, <2>2, <2>3, <3>1, <3>2
  <2>4. CASE ~(connectionToSession[c] = s /\ sessions[s].state = "active")
    <3>1. sessions'[s].state = sessions[s].state /\ sessions'[s].conn = sessions[s].conn
      BY <2>1, <2>4
    <3>2. sessions[s].state = "active" => sessions[s].conn # c
      BY <1>0, <2>4 DEF Reachable
    <3>3. sessions[s].state \in Kept => sessions[s].conn \in Connections
      BY <1>0 DEF Reachable
    <3>. QED
      BY <1>0, <2>1, <2>2, <3>1, <3>2, <3>3 DEF Reachable, Mapped, TypeOK, Kept, Live
  <2>. QED
    BY <2>3, <2>4
<1>4. ASSUME NEW i \in Slots, NEW s \in Sessions, NEW u \in Users, NEW w \in Workspaces,
             AcceptHello(i, s, u, w)
      PROVE  Reachable'
  <2>. DEFINE c == tasks[i].conn
  <2>1. c \in Connections /\ ~closure[c].authenticated
    BY <1>4 DEF AcceptHello, Resumed, AttachedOnce, TypeOK
  <2>2. /\ sessions'[s].state = "active" /\ sessions'[s].conn = c
        /\ \A t \in Sessions \ {s} : sessions'[t] = sessions[t]
        /\ connectionToSession' = [connectionToSession EXCEPT ![c] = s]
        /\ closure' = [closure EXCEPT ![c].authenticated = TRUE]
    BY <1>4 DEF AcceptHello, TypeOK
  <2>3. closure'[c].authenticated
    BY <2>1, <2>2 DEF TypeOK
  <2>4. \A t \in Sessions : sessions[t].state \in Kept => sessions[t].conn # c
    BY <1>0, <2>1 DEF Reachable
  <2>5. ASSUME NEW t \in Sessions
        PROVE  /\ sessions'[t].state \in Kept =>
                    sessions'[t].conn \in Connections /\ closure'[sessions'[t].conn].authenticated
               /\ sessions'[t].state = "active" => connectionToSession'[sessions'[t].conn] = t
               /\ sessions'[t].state = "disconnected" => connectionToSession'[sessions'[t].conn] = None
    <3>1. CASE t = s
      BY <2>1, <2>2, <2>3, <3>1 DEF TypeOK
    <3>2. CASE t # s
      BY <1>0, <1>1, <2>2, <2>4, <3>2 DEF Reachable, Mapped, TypeOK, Kept, Live
    <3>. QED
      BY <3>1, <3>2
  <2>. QED
    BY <2>5 DEF Reachable, Mapped
<1>5. ASSUME NEW c \in Connections, NEW i \in Slots, NEW s \in Sessions,
             NEW prev \in Connections, NEW n \in 0..MaxClientSeq, NEW m \in 0..MaxServerSeq,
             ResumeRequest(c, i, s, prev, n, m)
      PROVE  Reachable'
  <2>. DEFINE temp == connectionToSession[c]
  <2>1. /\ temp \in Sessions /\ TakenOver(s) /\ sessions'[s].conn = c
        /\ temp # s => Discarded(temp)
        /\ \A t \in Sessions \ {s, temp} : sessions'[t] = sessions[t]
        /\ connectionToSession' = [connectionToSession EXCEPT ![prev] = None, ![c] = s]
        /\ sessions[s].conn = prev
        /\ closure[c].authenticated
    BY <1>5, ResumeEffect
  <2>2. connectionToSession'[c] = s
    BY <2>1 DEF TypeOK
  <2>3. ASSUME NEW t \in Sessions
        PROVE  /\ sessions'[t].state \in Kept =>
                    sessions'[t].conn \in Connections /\ closure'[sessions'[t].conn].authenticated
               /\ sessions'[t].state = "active" => connectionToSession'[sessions'[t].conn] = t
               /\ sessions'[t].state = "disconnected" => connectionToSession'[sessions'[t].conn] = None
    <3>1. CASE t = s
      BY <1>1, <2>1, <2>2, <3>1 DEF TakenOver
    <3>2. CASE t = temp /\ t # s
      BY <2>1, <3>2 DEF Discarded, Absent, Kept, Live
    <3>3. CASE t \notin {s, temp}
      <4>1. sessions'[t] = sessions[t]
        BY <2>1, <3>3
      <4>2. sessions[t].state \in Live => sessions[t].conn # c
        BY <1>0, <2>1, <3>3 DEF Reachable, Mapped, Live
      <4>3. sessions[t].state = "active" => sessions[t].conn # prev
        BY <1>0, <2>1, <3>3 DEF Reachable, TakenOver, Mapped, Live
      <4>. QED
        BY <1>0, <1>1, <2>1, <4>1, <4>2, <4>3 DEF Reachable, Mapped, TypeOK, Kept, Live
    <3>. QED
      BY <3>1, <3>2, <3>3
  <2>. QED
    BY <2>3 DEF Reachable, Mapped
<1>6. ASSUME NEW i \in Slots, EndSession(i)
      PROVE  Reachable'
  <2>. DEFINE s == tasks[i].sid
  <2>1. /\ s \in Sessions
        /\ \A t \in Sessions \ {s} : Untouched(t)
        /\ Finished(s) \/ Untouched(s)
        /\ sessions'[s].state \notin Live
    BY <1>6, EndSessionEffect
  <2>2. \A t \in Sessions : sessions'[t].conn = sessions[t].conn
    BY <2>1 DEF Finished, Untouched, Agree
  <2>3. \A t \in Sessions : sessions'[t].state \in Kept => sessions[t].state \in Kept
    BY <2>1 DEF Finished, Untouched, Agree, Kept
  <2>4. connectionToSession' = connectionToSession \/
          (/\ sessions[s].state \in Live
           /\ connectionToSession' = [connectionToSession EXCEPT ![sessions[s].conn] = None])
    BY <1>6 DEF EndSession
  <2>5. ASSUME NEW t \in Sessions
        PROVE  /\ sessions'[t].state \in Kept =>
                    sessions'[t].conn \in Connections /\ closure'[sessions'[t].conn].authenticated
               /\ sessions'[t].state = "active" => connectionToSession'[sessions'[t].conn] = t
               /\ sessions'[t].state = "disconnected" => connectionToSession'[sessions'[t].conn] = None
    <3>1. sessions'[t].state \in Kept =>
            sessions'[t].conn \in Connections /\ closure'[sessions'[t].conn].authenticated
      BY <1>0, <1>1, <2>2, <2>3 DEF Reachable
    <3>2. CASE t = s
      BY <2>1, <3>1, <3>2 DEF Live
    <3>3. CASE t # s
      <4>1. sessions'[t].state = sessions[t].state
        BY <2>1, <3>3 DEF Untouched, Agree
      <4>2. sessions[s].state \in Live /\ sessions[t].state = "active" => sessions[t].conn # sessions[s].conn
        BY <1>0, <2>1, <3>3 DEF Reachable, Mapped, Live
      <4>. QED
        BY <1>0, <2>2, <2>4, <3>1, <4>1, <4>2 DEF Reachable, Mapped, TypeOK, Kept, Live
    <3>. QED
      BY <3>2, <3>3
  <2>. QED
    BY <2>5 DEF Reachable, Mapped
<1>. QED
  BY <1>2, <1>3, <1>4, <1>5, <1>6, StepKinds DEF Attaching

LEMMA AttachedOnceStep ==
  ASSUME TypeOK, OwnershipConsistent, AttachedOnce, "repeated_hello" \notin Faults, [Next]_vars
  PROVE  AttachedOnce'
BY ReachableStep, HelloStep DEF AttachedOnce, Reachable, Mapped

THEOREM AttachedOnceHolds == "repeated_hello" \notin Faults => (Spec => []AttachedOnce)
<1>. SUFFICES ASSUME "repeated_hello" \notin Faults PROVE Spec => []AttachedOnce
  OBVIOUS
<1>1. Init => AttachedOnce
  BY DEF Init, AttachedOnce, Absent, Kept, Live, Idle
<1>2. TypeOK /\ OwnershipConsistent /\ AttachedOnce /\ [Next]_vars => AttachedOnce'
  BY AttachedOnceStep
<1>. QED
  BY <1>1, <1>2, TypeCorrect, Ownership, PTL DEF Spec

\* The close of the connection an active session names always finds the session.
THEOREM NoOrphanHolds == Spec => []NoOrphanedSession
<1>1. CASE "repeated_hello" \in Faults
  <2>1. Init => NoOrphanedSession
    BY <1>1 DEF NoOrphanedSession
  <2>2. NoOrphanedSession /\ [Next]_vars => NoOrphanedSession'
    BY <1>1 DEF NoOrphanedSession
  <2>. QED
    BY <2>1, <2>2, PTL DEF Spec
<1>2. CASE "repeated_hello" \notin Faults
  <2>1. AttachedOnce => NoOrphanedSession
    BY DEF AttachedOnce, NoOrphanedSession
  <2>. QED
    BY <1>2, <2>1, AttachedOnceHolds, PTL
<1>. QED
  BY <1>1, <1>2

-----------------------------------------------------------------------------
(* session.closed follows the durable end *)

\* Connection c is attached to session s, or a handler it started for s waits.
Attends(c, s) ==
  \/ connectionToSession[c] = s
  \/ \E i \in Slots : /\ tasks[i].kind \notin {"idle", "hello"}
                      /\ tasks[i].conn = c
                      /\ tasks[i].sid = s

\* What makes RowEndsBeforeClosed hold: of the connections that attend a session
\* all but its first know that it is persisted, and so does the first, once the
\* row is there, unless a persistence error was sent.
KnownPersisted ==
  \A s \in Sessions, c \in Connections :
    Attends(c, s) /\ ~closure[c].persisted =>
      /\ \A d \in Connections : Attends(d, s) /\ ~closure[d].persisted => c = d
      /\ \A i \in Slots : tasks[i].kind = "create" /\ tasks[i].sid = s => c = tasks[i].conn
      /\ row[s] = "active" /\ sessions[s].state \in Kept => s \in reported

\* A persistence error, once sent, stays on record.
LEMMA ReportedGrows ==
  ASSUME TypeOK, [Next]_vars
  PROVE  reported \subseteq reported'
<1>1. ASSUME NEW i \in Slots, Continuation(i)
      PROVE  UNCHANGED reported \/ ReportPersistenceError(tasks[i].sid)
  BY <1>1 DEF Continuation, RefuseHello, AcceptHello, ResumeStored, CreateStored,
              EndSession, EndSeqStored, EndRowStored, history
<1>2. ASSUME NEW c \in Connections, Socket(c) \/ Message(c)
      PROVE  UNCHANGED reported
  BY <1>2 DEF Socket, Connect, SocketError, SocketCloses, RemoveConnection,
              Message, UnauthenticatedMessage, UnmappedMessage, AuthHello, RejectedMessage,
              OtherMessage, StartElsewhere, SessionStart, SessionEnd, RefuseResume,
              ResumeRequest, history
<1>. QED
  BY <1>1, <1>2 DEF Next, vars, ServerMessage, history, ReportPersistenceError

\* A connection comes to attend a session by auth.hello, for a new session, or by
\* a resume, which sets its flag.
LEMMA AttendsStep ==
  ASSUME TypeOK, OwnershipConsistent, [Next]_vars, NEW c \in Connections, NEW s \in Sessions,
         Attends(c, s)'
  PROVE  \/ Attends(c, s)
         \/ closure'[c].persisted
         \/ \E i \in Slots, u \in Users, w \in Workspaces :
              AcceptHello(i, s, u, w) /\ tasks[i].conn = c
<1>. DEFINE Goal == \/ Attends(c, s)
                    \/ closure'[c].persisted
                    \/ \E i \in Slots, u \in Users, w \in Workspaces :
                         AcceptHello(i, s, u, w) /\ tasks[i].conn = c
<1>. None \notin Connections \cup Sessions
  BY SessionsAssumption
<1>1. ASSUME connectionToSession'[c] = s
      PROVE  Goal
  <2>1. CASE Quiet
    BY <1>1, <2>1 DEF Quiet, Attends
  <2>2. ASSUME NEW d \in Connections, RemoveConnection(d)
        PROVE  Goal
    BY <1>1, <2>2 DEF RemoveConnection, TypeOK, Attends
  <2>3. ASSUME NEW i \in Slots, NEW t \in Sessions, NEW u \in Users, NEW w \in Workspaces,
               AcceptHello(i, t, u, w)
        PROVE  Goal
    <3>1. connectionToSession' = [connectionToSession EXCEPT ![tasks[i].conn] = t]
      BY <2>3 DEF AcceptHello
    <3>2. CASE tasks[i].conn = c
      BY <1>1, <2>3, <3>1, <3>2 DEF TypeOK
    <3>3. CASE tasks[i].conn # c
      BY <1>1, <3>1, <3>3 DEF TypeOK, Attends
    <3>. QED
      BY <3>2, <3>3
  <2>4. ASSUME NEW d \in Connections, NEW i \in Slots, NEW t \in Sessions,
               NEW prev \in Connections, NEW n \in 0..MaxClientSeq, NEW m \in 0..MaxServerSeq,
               ResumeRequest(d, i, t, prev, n, m)
        PROVE  Goal
    <3>1. /\ connectionToSession' = [connectionToSession EXCEPT ![prev] = None, ![d] = t]
          /\ closure' = [closure EXCEPT ![d].persisted = TRUE]
      BY <2>4 DEF ResumeRequest
    <3>2. CASE c = d
      <4>1. closure'[c] = [closure[c] EXCEPT !.persisted = TRUE]
        BY <3>1, <3>2 DEF TypeOK
      <4>2. closure[c] \in [authenticated : BOOLEAN, persisted : BOOLEAN]
        BY DEF TypeOK
      <4>. QED
        BY <4>1, <4>2
    <3>3. CASE c # d
      BY <1>1, <3>1, <3>3 DEF TypeOK, Attends
    <3>. QED
      BY <3>2, <3>3
  <2>5. ASSUME NEW i \in Slots, EndSession(i)
        PROVE  Goal
    BY <1>1, <2>5 DEF EndSession, TypeOK, Attends
  <2>. QED
    BY <2>1, <2>2, <2>3, <2>4, <2>5, StepKinds DEF Attaching
<1>2. ASSUME NEW i \in Slots, tasks'[i].kind \notin {"idle", "hello"},
             tasks'[i].conn = c, tasks'[i].sid = s
      PROVE  Goal
  <2>1. CASE tasks'[i] = tasks[i]
    BY <1>2, <2>1 DEF Attends
  <2>2. CASE Starts(i)
    BY <1>1, <1>2, <2>2 DEF Starts
  <2>3. CASE Advanced(i)
    BY <1>2, <2>3 DEF Advanced, EndSession, Resumed, Attends
  <2>. QED
    BY <1>2, <2>1, <2>2, <2>3, TaskStep DEF Greets, Idle
<1>. QED
  BY <1>1, <1>2 DEF Attends

LEMMA KnownPersistedStep ==
  ASSUME TypeOK, OwnershipConsistent, EndedFirst, KnownPersisted, [Next]_vars
  PROVE  KnownPersisted'
<1>. None \notin Connections \cup Sessions
  BY SessionsAssumption
<1>. SUFFICES ASSUME NEW s \in Sessions, NEW c \in Connections,
                     Attends(c, s)', ~closure'[c].persisted
              PROVE  /\ \A d \in Connections : Attends(d, s)' /\ ~closure'[d].persisted => c = d
                     /\ \A i \in Slots : tasks'[i].kind = "create" /\ tasks'[i].sid = s => c = tasks'[i].conn
                     /\ row'[s] = "active" /\ sessions'[s].state \in Kept => s \in reported'
  BY DEF KnownPersisted
<1>1. \A d \in Connections : closure[d].persisted => closure'[d].persisted
  BY ClosureStep
<1>2. CASE sessions[s].state = "unused"
  <2>1. \A d \in Connections : ~Attends(d, s)
    BY <1>2, TaskSession DEF Attends, OwnershipConsistent, EndedFirst
  <2>2. PICK i \in Slots, u \in Users, w \in Workspaces :
          AcceptHello(i, s, u, w) /\ tasks[i].conn = c
    BY <2>1, AttendsStep
  <2>3. ASSUME NEW d \in Connections, Attends(d, s)', ~closure'[d].persisted
        PROVE  c = d
    <3>1. PICK j \in Slots, v \in Users, x \in Workspaces :
            AcceptHello(j, s, v, x) /\ tasks[j].conn = d
      BY <2>1, <2>3, AttendsStep
    <3>. QED
      BY <2>2, <3>1 DEF AcceptHello, Mapped, TypeOK
  <2>4. ASSUME NEW j \in Slots, tasks'[j].kind = "create", tasks'[j].sid = s
        PROVE  FALSE
    <3>1. tasks' = [tasks EXCEPT ![i] = Idle]
      BY <2>2 DEF AcceptHello, Done
    <3>2. tasks[j].kind = "create" /\ tasks[j].sid = s
      BY <2>4, <3>1 DEF TypeOK, Idle
    <3>. QED
      BY <1>2, <3>2 DEF EndedFirst
  <2>5. row'[s] = "absent"
    <3>1. row[s] = "absent"
      BY <1>2 DEF EndedFirst, TypeOK
    <3>2. UNCHANGED row
      BY <2>2 DEF AcceptHello
    <3>. QED
      BY <3>1, <3>2
  <2>. QED
    BY <2>3, <2>4, <2>5
<1>3. CASE sessions[s].state # "unused"
  <2>1. \A d \in Connections : Attends(d, s)' /\ ~closure'[d].persisted =>
          Attends(d, s) /\ ~closure[d].persisted
    BY <1>1, <1>3, AttendsStep DEF AcceptHello
  <2>2. Attends(c, s) /\ ~closure[c].persisted
    BY <2>1
  <2>3. ASSUME NEW d \in Connections, Attends(d, s)', ~closure'[d].persisted
        PROVE  c = d
    BY <2>1, <2>2, <2>3 DEF KnownPersisted
  <2>4. ASSUME NEW i \in Slots, tasks'[i].kind = "create", tasks'[i].sid = s
        PROVE  c = tasks'[i].conn
    <3>1. CASE tasks'[i] = tasks[i]
      BY <2>2, <2>4, <3>1 DEF KnownPersisted
    <3>2. CASE Starts(i)
      <4>1. /\ tasks'[i].conn \in Connections
            /\ connectionToSession[tasks'[i].conn] = s
            /\ ~closure[tasks'[i].conn].persisted
        BY <2>4, <3>2 DEF Starts
      <4>2. Attends(tasks'[i].conn, s)
        BY <4>1 DEF Attends
      <4>. QED
        BY <2>2, <4>1, <4>2 DEF KnownPersisted
    <3>. QED
      BY <2>4, <3>1, <3>2, TaskStep DEF Greets, Advanced, Idle
  <2>5. ASSUME row'[s] = "active", sessions'[s].state \in Kept
        PROVE  s \in reported'
    <3>1. sessions[s].state \in Kept
      <4>1. sessions[s] \in Session
        BY DEF TypeOK
      <4>2. sessions[s].state # "deleted"
        BY <2>5, StepIsFinal DEF Kept, Live
      <4>. QED
        BY <1>3, <4>1, <4>2 DEF Session, SessionState
    <3>2. CASE row[s] = "active"
      BY <2>2, <3>1, <3>2, ReportedGrows DEF KnownPersisted
    <3>3. CASE row[s] # "active"
      <4>1. PICK i \in Slots : CreateStored(i) /\ tasks[i].kind = "create" /\ tasks[i].sid = s
        BY <2>5, <3>3, RowStep
      <4>2. c = tasks[i].conn
        BY <2>2, <4>1 DEF KnownPersisted
      <4>3. CASE closure' = [closure EXCEPT ![tasks[i].conn].persisted = TRUE]
        <5>1. closure'[c] = [closure[c] EXCEPT !.persisted = TRUE]
          BY <4>2, <4>3 DEF TypeOK
        <5>2. closure[c] \in [authenticated : BOOLEAN, persisted : BOOLEAN]
          BY DEF TypeOK
        <5>. QED
          BY <5>1, <5>2
      <4>4. CASE ReportPersistenceError(s)
        BY <3>1, <4>4 DEF ReportPersistenceError
      <4>. QED
        BY <4>1, <4>3, <4>4 DEF CreateStored
    <3>. QED
      BY <3>2, <3>3
  <2>. QED
    BY <2>3, <2>4, <2>5
<1>. QED
  BY <1>2, <1>3

THEOREM KnownPersistedHolds == Spec => []KnownPersisted
<1>1. Init => KnownPersisted
  BY SessionsAssumption DEF Init, KnownPersisted, Attends, Idle
<1>2. TypeOK /\ OwnershipConsistent /\ EndedFirst /\ KnownPersisted /\ [Next]_vars => KnownPersisted'
  BY KnownPersistedStep
<1>. QED
  BY <1>1, <1>2, TypeCorrect, Ownership, EndedFirstHolds, PTL DEF Spec

LEMMA ClosedStep ==
  ASSUME TypeOK, KnownPersisted, [Next]_vars, NEW s \in closed' \ closed,
         row[s] = "active", sessions[s].state \in Kept
  PROVE  row'[s] = "ended" \/ s \in reported'
<1>0. s \in Sessions
  BY TypeStep DEF TypeOK
<1>1. ASSUME NEW i \in Slots, EndSession(i)
      PROVE  s \in reported'
  <2>1. /\ tasks[i].kind = "end" /\ tasks[i].sid = s
        /\ ~closure[tasks[i].conn].persisted
        /\ UNCHANGED reported
    BY <1>1 DEF EndSession, Resumed
  <2>2. tasks[i].conn \in Connections /\ Attends(tasks[i].conn, s)
    BY <2>1, TaskSession DEF Attends
  <2>. QED
    BY <1>0, <2>1, <2>2 DEF KnownPersisted
<1>2. ASSUME NEW i \in Slots, EndSeqStored(i)
      PROVE  s \in reported'
  <2>1. tasks[i].sid = s /\ ReportPersistenceError(s)
    BY <1>2 DEF EndSeqStored
  <2>. QED
    BY <2>1 DEF ReportPersistenceError
<1>3. ASSUME NEW i \in Slots, EndRowStored(i)
      PROVE  row'[s] = "ended" \/ s \in reported'
  <2>1. tasks[i].sid = s
    BY <1>3 DEF EndRowStored
  <2>2. CASE row' = [row EXCEPT ![s] = IF @ = "absent" THEN @ ELSE "ended"]
    BY <1>0, <2>2 DEF TypeOK
  <2>3. CASE ReportPersistenceError(s)
    BY <2>3 DEF ReportPersistenceError
  <2>. QED
    BY <1>3, <2>1, <2>2, <2>3 DEF EndRowStored
<1>4. ASSUME NEW i \in Slots, Continuation(i)
      PROVE  UNCHANGED closed \/ EndSession(i) \/ EndSeqStored(i) \/ EndRowStored(i)
  BY <1>4 DEF Continuation, RefuseHello, AcceptHello, ResumeStored, CreateStored, history
<1>5. ASSUME NEW c \in Connections, Socket(c) \/ Message(c)
      PROVE  UNCHANGED closed
  BY <1>5 DEF Socket, Connect, SocketError, SocketCloses, RemoveConnection,
              Message, UnauthenticatedMessage, UnmappedMessage, AuthHello, RejectedMessage,
              OtherMessage, StartElsewhere, SessionStart, SessionEnd, RefuseResume,
              ResumeRequest, history
<1>. QED
  BY <1>1, <1>2, <1>3, <1>4, <1>5 DEF Next, vars, ServerMessage, history

\* A client is told that its session closed only when the row of the meeting says
\* so as well, or after it was told that this could not be stored.
THEOREM RowEndsBeforeClosedHolds == Spec => RowEndsBeforeClosed
<1>1. TypeOK /\ KnownPersisted /\ [Next]_vars =>
        [\A s \in closed' \ closed :
           row[s] = "active" /\ sessions[s].state \in Kept =>
             row'[s] = "ended" \/ s \in reported']_vars
  BY ClosedStep
<1>. QED
  BY <1>1, TypeCorrect, KnownPersistedHolds, PTL DEF Spec, RowEndsBeforeClosed

-----------------------------------------------------------------------------
(* The session manager implements the lease *)

\* The values of the refinement mapping, by name.
phases == [s \in Sessions |-> Phase(s)]
holders == [s \in Sessions |-> Holder(s)]
principals == [s \in Sessions |-> Principal(s)]

\* When no active session is orphaned, its holder is the connection it names.
LEMMA MappingNow ==
  ASSUME AttachedOnce, NEW s \in Sessions
  PROVE  /\ phases[s] = IF sessions[s].state = "unused" THEN "free"
                        ELSE IF sessions[s].state \in Live THEN "live" ELSE "over"
         /\ holders[s] = IF sessions[s].state = "active" THEN sessions[s].conn ELSE None
         /\ principals[s] = IF sessions[s].state \in Live
                            THEN <<sessions[s].user, sessions[s].workspace>> ELSE None
BY DEF AttachedOnce, phases, holders, principals, Phase, Holder, Principal, Live

LEMMA MappingNext ==
  ASSUME AttachedOnce', NEW s \in Sessions
  PROVE  /\ phases'[s] = IF sessions'[s].state = "unused" THEN "free"
                         ELSE IF sessions'[s].state \in Live THEN "live" ELSE "over"
         /\ holders'[s] = IF sessions'[s].state = "active" THEN sessions'[s].conn ELSE None
         /\ principals'[s] = IF sessions'[s].state \in Live
                             THEN <<sessions'[s].user, sessions'[s].workspace>> ELSE None
BY DEF AttachedOnce, phases, holders, principals, Phase, Holder, Principal, Live

LEMMA QuietStutters ==
  ASSUME TypeOK, AttachedOnce, AttachedOnce', NEW t \in Sessions, Untouched(t)
  PROVE  phases'[t] = phases[t] /\ holders'[t] = holders[t] /\ principals'[t] = principals[t]
BY MappingNow, MappingNext DEF Untouched, Agree

\* Each step of the service is a step of the lease or leaves the lease alone.
LEMMA LeaseStep ==
  ASSUME TypeOK, OwnershipConsistent, AttachedOnce, AttachedOnce', [Next]_vars
  PROVE  [Lease!Next]_(Lease!vars)
<1>. None \notin Connections \cup Sessions \cup Users \cup Workspaces
  BY SessionsAssumption
<1>. DEFINE Stutters == UNCHANGED <<phases, holders, principals>>
<1>0. ASSUME \A t \in Sessions : Untouched(t)
      PROVE  Stutters
  BY <1>0, QuietStutters DEF phases, holders, principals
<1>1. ASSUME Quiet
      PROVE  Stutters
  BY <1>0, <1>1 DEF Quiet, AgreeAll, Untouched
<1>2. ASSUME NEW c \in Connections, RemoveConnection(c)
      PROVE  Stutters \/ \E s \in Sessions : Lease!Detach(s)
  <2>. DEFINE s == connectionToSession[c]
  <2>1. CASE s # None /\ sessions[s].state = "active"
    <3>1. s \in Sessions
      BY <2>1 DEF TypeOK
    <3>2. /\ sessions'[s] = [sessions[s] EXCEPT !.state = "disconnected"]
          /\ \A t \in Sessions \ {s} : sessions'[t] = sessions[t]
          /\ sessions[s] \in Session
      BY <1>2, <2>1, <3>1 DEF RemoveConnection, TypeOK
    <3>3. \A t \in Sessions \ {s} :
            phases'[t] = phases[t] /\ holders'[t] = holders[t] /\ principals'[t] = principals[t]
      BY <3>2, QuietStutters, SameAgrees DEF Untouched, TypeOK
    <3>4. /\ sessions'[s].state = "disconnected"
          /\ sessions'[s].user = sessions[s].user
          /\ sessions'[s].workspace = sessions[s].workspace
      BY <3>2 DEF Session
    <3>5. phases'[s] = phases[s] /\ principals'[s] = principals[s]
      <4>1. phases[s] = "live"
        BY <2>1, <3>1, MappingNow DEF Live
      <4>2. phases'[s] = "live"
        BY <3>1, <3>4, MappingNext DEF Live
      <4>3. principals[s] = <<sessions[s].user, sessions[s].workspace>>
        BY <2>1, <3>1, MappingNow DEF Live
      <4>4. principals'[s] = <<sessions'[s].user, sessions'[s].workspace>>
        BY <3>1, <3>4, MappingNext DEF Live
      <4>. QED
        BY <3>4, <4>1, <4>2, <4>3, <4>4
    <3>6. holders'[s] = None
      BY <3>1, <3>4, MappingNext
    <3>7. /\ phases' = phases /\ principals' = principals
          /\ holders' = [holders EXCEPT ![s] = None]
      BY <3>1, <3>3, <3>5, <3>6 DEF phases, holders, principals
    <3>. QED
      BY <3>1, <3>7 DEF Lease!Detach, phases, holders, principals
  <2>2. CASE ~(s # None /\ sessions[s].state = "active")
    <3>1. sessions' = sessions
      BY <1>2, <2>2 DEF RemoveConnection
    <3>. QED
      BY <1>0, <3>1, SameAgrees DEF Untouched, TypeOK
  <2>. QED
    BY <2>1, <2>2
<1>3. ASSUME NEW i \in Slots, NEW s \in Sessions, NEW u \in Users, NEW w \in Workspaces,
             AcceptHello(i, s, u, w)
      PROVE  Lease!Open(s, tasks[i].conn, <<u, w>>) /\ tasks[i].conn \in Connections
  <2>. DEFINE c == tasks[i].conn
  <2>1. /\ c \in Connections /\ ~Mapped(c)
        /\ sessions[s].state = "unused"
        /\ sessions'[s].state = "active" /\ sessions'[s].conn = c
        /\ sessions'[s].user = u /\ sessions'[s].workspace = w
        /\ \A t \in Sessions \ {s} : sessions'[t] = sessions[t]
    BY <1>3 DEF AcceptHello, Resumed, TypeOK
  <2>2. ASSUME NEW t \in Sessions
        PROVE  holders[t] # c
    <3>1. holders[t] = IF sessions[t].state = "active" THEN sessions[t].conn ELSE None
      BY MappingNow
    <3>2. sessions[t].state = "active" => connectionToSession[sessions[t].conn] = t
      BY DEF AttachedOnce
    <3>. QED
      BY <2>1, <3>1, <3>2 DEF Mapped
  <2>3. \A t \in Sessions \ {s} :
          phases'[t] = phases[t] /\ holders'[t] = holders[t] /\ principals'[t] = principals[t]
    BY <2>1, QuietStutters, SameAgrees DEF Untouched, TypeOK
  <2>4. phases[s] = "free" /\ phases'[s] = "live" /\ principals'[s] = <<u, w>>
    BY <2>1, MappingNow, MappingNext DEF Live
  <2>5. holders'[s] = c
    BY <2>1, MappingNext
  <2>6. /\ phases[s] = "free"
        /\ phases' = [phases EXCEPT ![s] = "live"]
        /\ holders' = [holders EXCEPT ![s] = c]
        /\ principals' = [principals EXCEPT ![s] = <<u, w>>]
    BY <2>3, <2>4, <2>5 DEF phases, holders, principals
  <2>. QED
    BY <2>1, <2>2, <2>6 DEF Lease!Open, phases, holders, principals
<1>4. ASSUME NEW c \in Connections, NEW i \in Slots, NEW s \in Sessions,
             NEW prev \in Connections, NEW n \in 0..MaxClientSeq, NEW m \in 0..MaxServerSeq,
             ResumeRequest(c, i, s, prev, n, m)
      PROVE  \E t \in Sessions : Lease!TakeOver(s, t, c)
  <2>. DEFINE temp == connectionToSession[c]
  <2>1. /\ temp \in Sessions /\ TakenOver(s) /\ sessions'[s].conn = c
        /\ temp # s => Discarded(temp)
        /\ \A t \in Sessions \ {s, temp} : sessions'[t] = sessions[t]
    BY <1>4, ResumeEffect
  <2>2. /\ sessions[temp].state = "active" /\ sessions[temp].conn = c
        /\ sessions[s].state \in Live
        /\ sessions[s].user = sessions[temp].user
        /\ sessions[s].workspace = sessions[temp].workspace
    BY <1>4, <2>1 DEF OwnershipConsistent, ResumeRequest, Resumable
  <2>3. phases[s] = "live" /\ holders[temp] = c /\ principals[temp] = principals[s]
    <3>1. phases[s] = "live"
      BY <2>2, MappingNow DEF Live
    <3>2. holders[temp] = c
      BY <2>1, <2>2, MappingNow
    <3>3. principals[s] = <<sessions[s].user, sessions[s].workspace>>
      BY <2>2, MappingNow
    <3>4. principals[temp] = <<sessions[temp].user, sessions[temp].workspace>>
      BY <2>1, <2>2, MappingNow DEF Live
    <3>. QED
      BY <2>2, <3>1, <3>2, <3>3, <3>4
  <2>4. \A t \in Sessions \ {s, temp} :
          phases'[t] = phases[t] /\ holders'[t] = holders[t] /\ principals'[t] = principals[t]
    BY <2>1, QuietStutters, SameAgrees DEF Untouched, TypeOK
  <2>5. phases'[s] = "live" /\ principals'[s] = principals[s]
    <3>1. /\ sessions'[s].state = "active"
          /\ sessions'[s].user = sessions[s].user
          /\ sessions'[s].workspace = sessions[s].workspace
      BY <2>1 DEF TakenOver
    <3>2. phases'[s] = "live"
      BY <3>1, MappingNext DEF Live
    <3>3. principals[s] = <<sessions[s].user, sessions[s].workspace>>
      BY <2>2, MappingNow
    <3>4. principals'[s] = <<sessions'[s].user, sessions'[s].workspace>>
      BY <3>1, MappingNext DEF Live
    <3>. QED
      BY <3>1, <3>2, <3>3, <3>4
  <2>6. holders'[s] = c
    BY <2>1, MappingNext DEF TakenOver
  <2>7. temp # s => phases'[temp] = "over" /\ principals'[temp] = None /\ holders'[temp] = None
    <3>1. temp # s => sessions'[temp].state = "deleted"
      BY <2>1 DEF Discarded, Absent
    <3>. QED
      BY <2>1, <3>1, MappingNext DEF Live
  <2>8. /\ phases' = [x \in Sessions |-> IF x = temp /\ temp # s THEN "over" ELSE phases[x]]
        /\ holders' = [x \in Sessions |-> IF x = s THEN c ELSE IF x = temp THEN None ELSE holders[x]]
        /\ principals' = [x \in Sessions |-> IF x = temp /\ temp # s THEN None ELSE principals[x]]
    BY <2>1, <2>3, <2>4, <2>5, <2>6, <2>7 DEF phases, holders, principals
  <2>. QED
    BY <2>1, <2>3, <2>8 DEF Lease!TakeOver, phases, holders, principals
<1>5. ASSUME NEW i \in Slots, EndSession(i)
      PROVE  Stutters \/ \E s \in Sessions : Lease!Finish(s)
  <2>. DEFINE s == tasks[i].sid
  <2>1. /\ s \in Sessions
        /\ \A t \in Sessions \ {s} : Untouched(t)
        /\ Finished(s) \/ Untouched(s)
    BY <1>5, EndSessionEffect
  <2>2. CASE Untouched(s)
    BY <1>0, <2>1, <2>2
  <2>3. CASE Finished(s)
    <3>1. \A t \in Sessions \ {s} :
            phases'[t] = phases[t] /\ holders'[t] = holders[t] /\ principals'[t] = principals[t]
      BY <2>1, QuietStutters
    <3>2. phases[s] = "live" /\ phases'[s] = "over" /\ principals'[s] = None
      BY <2>1, <2>3, MappingNow, MappingNext DEF Finished, Live
    <3>3. holders'[s] = None
      BY <2>1, <2>3, MappingNext DEF Finished
    <3>4. /\ phases[s] = "live"
          /\ phases' = [phases EXCEPT ![s] = "over"]
          /\ holders' = [holders EXCEPT ![s] = None]
          /\ principals' = [principals EXCEPT ![s] = None]
      BY <2>1, <3>1, <3>2, <3>3 DEF phases, holders, principals
    <3>. QED
      BY <2>1, <3>4 DEF Lease!Finish, phases, holders, principals
  <2>. QED
    BY <2>1, <2>2, <2>3
<1>. DEFINE Moves == \E s \in Sessions :
                       \/ Lease!Detach(s) \/ Lease!Finish(s)
                       \/ \E c \in Connections, p \in Users \X Workspaces : Lease!Open(s, c, p)
                       \/ \E t \in Sessions, c \in Connections : Lease!TakeOver(s, t, c)
<1>6. ASSUME NEW i \in Slots, NEW s \in Sessions, NEW u \in Users, NEW w \in Workspaces,
             AcceptHello(i, s, u, w)
      PROVE  Moves
  <2>1. <<u, w>> \in Users \X Workspaces
    OBVIOUS
  <2>. QED
    BY <1>3, <1>6, <2>1
<1>7. ASSUME Attaching
      PROVE  Stutters \/ Moves
  <2>1. CASE \E c \in Connections : RemoveConnection(c)
    BY <1>2, <2>1
  <2>2. CASE \E i \in Slots : EndSession(i)
    BY <1>5, <2>2
  <2>3. CASE \E c \in Connections, i \in Slots, s \in Sessions, prev \in Connections,
               n \in 0..MaxClientSeq, m \in 0..MaxServerSeq : ResumeRequest(c, i, s, prev, n, m)
    BY <1>4, <2>3
  <2>. QED
    BY <1>6, <1>7, <2>1, <2>2, <2>3 DEF Attaching
<1>8. Stutters \/ Moves
  BY <1>1, <1>7, StepKinds
<1>. QED
  BY <1>8 DEF Lease!Next, Lease!vars, phases, holders, principals

\* As long as a client sends one auth.hello for a connection, everything the
\* service does to its sessions is a behaviour of the lease.
THEOREM ImplementsLease == "repeated_hello" \notin Faults => (Spec => LeaseSpec)
<1>. SUFFICES ASSUME "repeated_hello" \notin Faults PROVE Spec => LeaseSpec
  OBVIOUS
<1>1. Init => Lease!Init
  BY DEF Init, Lease!Init, Phase, Holder, Principal, Absent, Live
<1>2. TypeOK /\ OwnershipConsistent /\ AttachedOnce /\ AttachedOnce' /\ [Next]_vars
        => [Lease!Next]_(Lease!vars)
  BY LeaseStep
<1>. QED
  BY <1>1, <1>2, TypeCorrect, Ownership, AttachedOnceHolds, PTL DEF Spec, LeaseSpec, Lease!Spec
=============================================================================
