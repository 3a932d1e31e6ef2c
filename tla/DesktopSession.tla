--------------------------- MODULE DesktopSession ---------------------------
(***************************************************************************)
(* The realtime session of the desktop, desktopRealtimeSession.ts with its *)
(* audio buffer, against the server's side of the protocol.                *)
(*                                                                         *)
(* A session has its connections one after the other.  A connection that   *)
(* is lost takes the last messages of both directions with it, and what is *)
(* left on its way up may still reach the server after the client has a    *)
(* new connection.  A handler of the server is one step here; what happens *)
(* between its awaits is the subject of RealtimeSessions.                  *)
(***************************************************************************)
EXTENDS Naturals, Sequences

CONSTANTS
  MaxConnections,   \* bound: connections of a session
  MaxChunks,        \* bound: chunks of captured audio
  MaxServerSeq,     \* bound: no transcript and no error beyond it
  MaxUserSeq,       \* bound: no message of the user is numbered beyond it
  ConfiguredLimit,  \* chunks that audioBuffer of the options has room for
  PolicyLimit       \* max_local_audio_buffer_ms of the policy, in chunks

ASSUME DesktopAssumption ==
  /\ MaxConnections \in Nat \ {0}
  /\ {MaxChunks, MaxServerSeq, MaxUserSeq, ConfiguredLimit, PolicyLimit} \subseteq Nat

VARIABLES
  \* the client
  status,      \* state.status
  known,       \* whether state.sessionId is set
  own,         \* state.connectionId, 0 when undefined
  previous,    \* previousConnectionId, 0 when undefined
  resuming,    \* resumeRequested
  timer,       \* whether reconnectTimerId is set
  nextSeq,     \* protocolState.nextSeq
  lastClient,  \* state.lastClientSeq
  lastServer,  \* state.lastServerSeq
  buffer,      \* chunks of the InMemoryAudioBuffer
  gaps,        \* gaps of the InMemoryAudioBuffer, each with its dropped chunk
  limit,       \* limits of the InMemoryAudioBuffer
  captured,    \* chunks that the microphone delivered
  \* the sockets
  current,     \* the connection of transport, 0 when undefined
  link,        \* readyState of each connection
  up, down,    \* what is on its way to the server and to the client
  \* the server
  peer,        \* what connectionToSession has for a connection
  pending,     \* pendingAudio of its frame assembler, 0 when undefined
  lastIndex,   \* lastChunkIndexByStream of its frame assembler, 0 when undefined
  session,     \* the meeting's RealtimeSession
  heard,       \* history: audio given to the provider, announced and received
  refused,     \* history: numbers refused as not monotonic, with their connection
  told         \* history: gaps that were sent, with the chunks sent before

client == <<status, known, own, previous, resuming, timer, limit>>
numbers == <<nextSeq, lastClient, lastServer>>
audio == <<buffer, gaps, captured, told>>
sockets == <<current, link, up, down>>
server == <<peer, pending, lastIndex, session, heard, refused>>

vars == <<client, numbers, audio, sockets, server>>

Connections == 1..MaxConnections

Larger(m, n) == IF m >= n THEN m ELSE n

Smaller(m, n) == IF m <= n THEN m ELSE n

\* item: the chunk of audio.chunk_meta, of its binary frame, or of audio.gap; the
\* previous connection of resume.request, whose counters are client and server.
Up(type, seq, item) ==
  [type |-> type, seq |-> seq, item |-> item, client |-> 0, server |-> 0]

Down(type, seq) == [type |-> type, seq |-> seq, recoverable |-> TRUE]

Fatal(seq) == [type |-> "error", seq |-> seq, recoverable |-> FALSE]

Hangup == Down("close", 0)

Init ==
  /\ status = "idle"
  /\ known = FALSE /\ own = 0 /\ previous = 0
  /\ resuming = FALSE /\ timer = FALSE
  /\ nextSeq = 1 /\ lastClient = 0 /\ lastServer = 0
  /\ buffer = <<>> /\ gaps = <<>> /\ limit = ConfiguredLimit
  /\ captured = 0 /\ told = [sent |-> {}, dropped |-> {}]
  /\ current = 0
  /\ link = [c \in Connections |-> "none"]
  /\ up = [c \in Connections |-> <<>>]
  /\ down = [c \in Connections |-> <<>>]
  /\ peer = [c \in Connections |-> "new"]
  /\ pending = [c \in Connections |-> 0]
  /\ lastIndex = [c \in Connections |-> 0]
  /\ session = [state |-> "none", owner |-> 0, clientSeq |-> 0, serverSeq |-> 0]
  /\ heard = <<>>
  /\ refused = {}

-----------------------------------------------------------------------------
(* The client: sending *)

\* A closed socket discards what it is given.
Transmit(messages) ==
  up' = IF link[current] = "open" THEN [up EXCEPT ![current] = @ \o messages] ELSE up

\* Mutant: the number of the last message is taken, though a new connection began
\* to count from one.
SendCounted(messages, count) ==
  /\ Transmit(messages)
  /\ nextSeq' = nextSeq + count
  /\ lastClient' = nextSeq + count - 1

\* sendJson of numbered messages, among them binary frames.
Send(messages, count) ==
  /\ Transmit(messages)
  /\ nextSeq' = nextSeq + count
  /\ lastClient' = Larger(lastClient, nextSeq + count - 1)

\* trimToLimits: the oldest chunks make room, and leave a gap each.
Trimmed(b, max) == SubSeq(b, IF Len(b) > max THEN Len(b) - max + 1 ELSE 1, Len(b))

\* Mutant: a chunk that makes room leaves no gap when gaps are waiting already.
DroppedOnce(b, max) ==
  IF gaps # <<>> THEN <<>> ELSE SubSeq(b, 1, IF Len(b) > max THEN Len(b) - max ELSE 0)

DroppedOf(b, max) == SubSeq(b, 1, IF Len(b) > max THEN Len(b) - max ELSE 0)

\* flushBufferedAudio: the gaps, then each chunk's announcement and its bytes.
Flushed(g, b, seq) ==
  [k \in 1..Len(g) |-> Up("audio.gap", seq + k - 1, g[k])]
  \o [k \in 1..(2 * Len(b)) |->
        IF k % 2 = 1
        THEN Up("audio.chunk_meta", seq + Len(g) + k \div 2, b[(k + 1) \div 2])
        ELSE Up("binary", 0, b[k \div 2])]

Elements(s) == {s[k] : k \in 1..Len(s)}

Flush(g, b, before, ahead) ==
  /\ Send(before \o Flushed(g, b, nextSeq + ahead), ahead + Len(g) + Len(b))
  /\ buffer' = <<>>
  /\ gaps' = <<>>
  /\ told' = [sent |-> told.sent \cup Elements(b), dropped |-> told.dropped \cup Elements(g)]

\* sendAudioChunk, and sendAudioGap for a chunk that the microphone lost.
Captures(b, g) ==
  /\ captured < MaxChunks
  /\ status \notin {"idle", "closed", "failed"}
  /\ captured' = captured + 1
  /\ IF status = "streaming"
     THEN Flush(g, b, <<>>, 0)
     ELSE buffer' = b /\ gaps' = g /\ UNCHANGED <<up, nextSeq, lastClient, told>>
  /\ UNCHANGED <<client, lastServer, current, link, down, server>>

SendAudioChunk ==
  LET b == Append(buffer, captured + 1) IN
  Captures(Trimmed(b, limit), gaps \o DroppedOf(b, limit))

SendAudioGap == Captures(buffer, Append(gaps, captured + 1))

\* requestLiveSuggestion and any other message of the user.
RequestLiveSuggestion ==
  /\ status \in {"streaming", "degraded"}
  /\ nextSeq <= MaxUserSeq
  /\ Send(<<Up("suggestion.request", nextSeq, 0)>>, 1)
  /\ UNCHANGED <<client, lastServer, audio, current, link, down, server>>

\* The button is there until the session is closed or reconnects.
Stop ==
  /\ status \in {"streaming", "degraded"}
  /\ nextSeq <= MaxUserSeq
  /\ Send(<<Up("session.end", nextSeq, 0)>>, 1)
  /\ UNCHANGED <<client, lastServer, audio, current, link, down, server>>

-----------------------------------------------------------------------------
(* The client: connections *)

NextConnection ==
  /\ current < MaxConnections
  /\ current' = current + 1
  /\ link' = [link EXCEPT ![current + 1] = "connecting"]
  /\ nextSeq' = 1

StartSession ==
  /\ status = "idle"
  /\ status' = "connecting"
  /\ NextConnection
  /\ UNCHANGED <<known, own, previous, resuming, timer, limit, lastClient, lastServer, audio,
                 up, down, server>>

\* The timer of scheduleReconnect calls resume().
Resume ==
  /\ timer
  /\ timer' = FALSE
  /\ previous' = own
  /\ resuming' = TRUE
  /\ status' = "reconnecting"
  /\ NextConnection
  /\ UNCHANGED <<known, own, limit, lastClient, lastServer, audio, up, down, server>>

\* handleOpen: auth.hello is the first message of a connection.
Open ==
  /\ current # 0 /\ link[current] = "connecting"
  /\ link' = [link EXCEPT ![current] = "open"]
  /\ up' = [up EXCEPT ![current] = <<Up("auth.hello", nextSeq, 0)>>]
  /\ nextSeq' = nextSeq + 1
  /\ lastClient' = Larger(lastClient, nextSeq)
  /\ UNCHANGED <<client, lastServer, audio, current, down, server>>

\* handleClose: only a session that was streaming or degraded is taken up again.
Closed(s) ==
  IF s \in {"streaming", "degraded"}
  THEN status' = "reconnecting" /\ timer' = TRUE
  ELSE status' = "closed" /\ UNCHANGED timer

\* The connection is lost with the end of what was on its way in either direction,
\* with a close event, or with an error event before it.
LinkLost ==
  /\ current # 0 /\ link[current] \in {"connecting", "open"}
  /\ link' = [link EXCEPT ![current] = "closed"]
  /\ \E n \in 0..Len(up[current]) : up' = [up EXCEPT ![current] = SubSeq(@, 1, n)]
  /\ down' = [down EXCEPT ![current] = <<>>]
  /\ Closed(status) \/ Closed("failed")
  /\ UNCHANGED <<known, own, previous, resuming, limit, numbers, audio, current, server>>

-----------------------------------------------------------------------------
(* The client: handleTextMessage *)

Arrives(type) ==
  /\ current # 0 /\ link[current] = "open"
  /\ down[current] # <<>>
  /\ Head(down[current]).type = type
  /\ down' = [down EXCEPT ![current] = Tail(@)]

RecordServerSeq == lastServer' = Larger(lastServer, Head(down[current]).seq)

\* setLimits with what the policy allows.
Allowed == Smaller(ConfiguredLimit, PolicyLimit)

\* The first auth.accepted starts the session.
AuthAccepted ==
  /\ ~resuming
  /\ Arrives("auth.accepted")
  /\ RecordServerSeq
  /\ status' = "streaming"
  /\ known' = TRUE
  /\ own' = current
  /\ limit' = Allowed
  /\ buffer' = Trimmed(buffer, Allowed)
  /\ gaps' = gaps \o DroppedOf(buffer, Allowed)
  /\ Send(<<Up("session.start", nextSeq, 0)>>, 1)
  /\ UNCHANGED <<previous, resuming, timer, captured, told, current, link, server>>

\* Mutant: a resumed connection only sends its audio.
NothingFirst == <<>>

ResumeFirst ==
  <<[Up("resume.request", nextSeq, previous) EXCEPT !.client = lastClient, !.server = lastServer']>>

\* A later one asks for the session, and is not waited for with the audio.
AuthAcceptedAgain ==
  /\ resuming
  /\ Arrives("auth.accepted")
  /\ RecordServerSeq
  /\ own' = current
  /\ limit' = Allowed
  /\ Flush(gaps \o DroppedOf(buffer, Allowed), Trimmed(buffer, Allowed), ResumeFirst, 1)
  /\ UNCHANGED <<status, known, previous, resuming, timer, captured, current, link, server>>

\* upsertTranscript is what brings a resumed session back to streaming.
TranscriptArrives ==
  /\ Arrives("transcript")
  /\ RecordServerSeq
  /\ status' = IF status = "reconnecting" THEN "streaming" ELSE status
  /\ UNCHANGED <<known, own, previous, resuming, timer, limit, nextSeq, lastClient, audio,
                 current, link, up, server>>

ErrorArrives ==
  /\ Arrives("error")
  /\ RecordServerSeq
  /\ status' = IF Head(down[current]).recoverable THEN "degraded" ELSE "failed"
  /\ UNCHANGED <<known, own, previous, resuming, timer, limit, nextSeq, lastClient, audio,
                 current, link, up, server>>

SessionClosedArrives ==
  /\ Arrives("session.closed")
  /\ RecordServerSeq
  /\ status' = "closed"
  /\ UNCHANGED <<known, own, previous, resuming, timer, limit, nextSeq, lastClient, audio,
                 current, link, up, server>>

\* The server closed the socket after its last message.
HangupArrives ==
  /\ Arrives("close")
  /\ link' = [link EXCEPT ![current] = "closed"]
  /\ Closed(status)
  /\ UNCHANGED <<known, own, previous, resuming, limit, numbers, audio, current, up, server>>

-----------------------------------------------------------------------------
(* The server *)

\* The next message of c, a message of the type, is taken.
Takes(c, type) ==
  /\ peer[c] # "gone"
  /\ up[c] # <<>>
  /\ Head(up[c]).type = type
  /\ up' = [up EXCEPT ![c] = Tail(@)]

\* What the server sends is lost if the socket is.
Replies(c, messages) ==
  down' = IF link[c] = "open" THEN [down EXCEPT ![c] = @ \o messages] ELSE down

clientSide == <<client, numbers, audio, current, link>>

\* auth.hello: a connection starts with a session of its own, the first one with the
\* meeting's.
ServerHello(c) ==
  /\ Takes(c, "auth.hello")
  /\ IF c = 1
     THEN /\ peer' = [peer EXCEPT ![c] = "session"]
          /\ session' = [state |-> "active", owner |-> c,
                         clientSeq |-> Head(up[c]).seq, serverSeq |-> 1]
     ELSE /\ peer' = [peer EXCEPT ![c] = "temporary"]
          /\ UNCHANGED session
  /\ Replies(c, <<Down("auth.accepted", 1)>>)
  /\ UNCHANGED <<clientSide, pending, lastIndex, heard, refused>>

Resumable(m) ==
  /\ session.state \in {"active", "disconnected"}
  /\ session.owner = m.item

\* Mutant: the connection that loses the session keeps its mapping.
MovedTwice(c) == [peer EXCEPT ![c] = "session"]

Moved(c) == [peer EXCEPT ![session.owner] = IF @ = "session" THEN "none" ELSE @,
                         ![c] = "session"]

\* resumeSession: the session leaves its connection, and c its temporary session.
ServerResume(c) ==
  LET m == Head(up[c]) IN
  /\ Takes(c, "resume.request")
  /\ peer[c] \in {"temporary", "session"}
  /\ Resumable(m)
  /\ peer' = Moved(c)
  /\ session' = [state |-> "active", owner |-> c,
                 clientSeq |-> Larger(session.clientSeq, Larger(m.client, m.seq)),
                 serverSeq |-> Larger(session.serverSeq, m.server)]
  /\ UNCHANGED <<clientSide, down, pending, lastIndex, heard, refused>>

ServerRefusesResume(c) ==
  /\ Takes(c, "resume.request")
  /\ peer[c] \in {"temporary", "session"}
  /\ ~Resumable(Head(up[c]))
  /\ Replies(c, <<Fatal(2)>>)
  /\ UNCHANGED <<clientSide, peer, pending, lastIndex, session, heard, refused>>

SessionMessages == {"session.start", "session.end", "suggestion.request", "audio.gap",
                    "audio.chunk_meta"}

\* A connection whose session has ended, or moved, is closed.
ServerHangsUp(c) ==
  /\ \E type \in SessionMessages \cup {"binary", "resume.request"} : Takes(c, type)
  /\ peer[c] = "none"
  /\ Head(up[c]).type = "binary" => pending[c] # 0
  /\ Replies(c, <<Fatal(0), Hangup>>)
  /\ peer' = [peer EXCEPT ![c] = "gone"]
  /\ UNCHANGED <<clientSide, pending, lastIndex, session, heard, refused>>

\* The session of the message is not that of the connection.
ServerMismatch(c) ==
  /\ \E type \in SessionMessages : Takes(c, type)
  /\ peer[c] = "temporary"
  /\ Replies(c, <<Fatal(2)>>)
  /\ UNCHANGED <<clientSide, peer, pending, lastIndex, session, heard, refused>>

\* nextServerSeq, and the message with the number.
Numbered(c, messages) ==
  /\ Replies(c, messages)
  /\ session' = [session EXCEPT !.serverSeq = @ + 1]

\* advanceClientSeq refuses.
ServerRefusesNumber(c) ==
  /\ \E type \in SessionMessages : Takes(c, type)
  /\ peer[c] = "session"
  /\ Head(up[c]).seq <= session.clientSeq
  /\ Numbered(c, <<Down("error", session.serverSeq + 1)>>)
  /\ refused' = refused \cup {<<c, Head(up[c]).seq>>}
  /\ UNCHANGED <<clientSide, peer, pending, lastIndex, heard>>

\* The message is one that the session takes: its number is recorded.
Accepted(c) ==
  /\ peer[c] = "session"
  /\ Head(up[c]).seq > session.clientSeq

\* The frame assembler misses the bytes that were announced, or the announcement is
\* not of the next chunk.
AssemblerRefuses(c, type, item) ==
  \/ pending[c] # 0
  \/ type = "audio.chunk_meta" /\ lastIndex[c] # 0 /\ item # lastIndex[c] + 1

ServerAssemblerRefuses(c) ==
  LET m == Head(up[c]) IN
  /\ \E type \in SessionMessages : Takes(c, type)
  /\ Accepted(c)
  /\ AssemblerRefuses(c, m.type, m.item)
  /\ pending' = [pending EXCEPT ![c] = 0]
  /\ Replies(c, <<Down("error", session.serverSeq + 1)>>)
  /\ session' = [session EXCEPT !.clientSeq = m.seq, !.serverSeq = @ + 1]
  /\ UNCHANGED <<clientSide, peer, lastIndex, heard, refused>>

\* session.start, suggestion.request and audio.gap change nothing here; an
\* announcement is kept.
ServerAccepts(c) ==
  LET m == Head(up[c]) IN
  /\ \E type \in SessionMessages \ {"session.end"} : Takes(c, type)
  /\ Accepted(c)
  /\ ~AssemblerRefuses(c, m.type, m.item)
  /\ session' = [session EXCEPT !.clientSeq = m.seq]
  /\ pending' = [pending EXCEPT ![c] = IF m.type = "audio.chunk_meta" THEN m.item ELSE @]
  /\ UNCHANGED <<clientSide, down, peer, lastIndex, heard, refused>>

ServerEnds(c) ==
  /\ Takes(c, "session.end")
  /\ Accepted(c)
  /\ ~AssemblerRefuses(c, "session.end", 0)
  /\ peer' = [peer EXCEPT ![c] = "none"]
  /\ session' = [session EXCEPT !.state = "ended", !.clientSeq = Head(up[c]).seq,
                                !.serverSeq = @ + 1]
  /\ Replies(c, <<Down("session.closed", session.serverSeq + 1)>>)
  /\ UNCHANGED <<clientSide, pending, lastIndex, heard, refused>>

\* handleBinaryFrame: the bytes of the announced chunk go to the provider.
ServerHears(c) ==
  /\ Takes(c, "binary")
  /\ peer[c] = "session"
  /\ pending[c] # 0
  /\ pending' = [pending EXCEPT ![c] = 0]
  /\ lastIndex' = [lastIndex EXCEPT ![c] = pending[c]]
  /\ heard' = Append(heard, <<pending[c], Head(up[c]).item>>)
  /\ UNCHANGED <<clientSide, down, peer, session, refused>>

\* Bytes that nothing announced.
ServerUnexpected(c) ==
  /\ Takes(c, "binary")
  /\ peer[c] # "new"
  /\ pending[c] = 0
  /\ IF peer[c] = "session"
     THEN Numbered(c, <<Down("error", session.serverSeq + 1)>>)
     ELSE Replies(c, <<Down("error", IF peer[c] = "temporary" THEN 2 ELSE 0)>>) /\ UNCHANGED session
  /\ UNCHANGED <<clientSide, peer, pending, lastIndex, heard, refused>>

\* A transcript, or an error of a provider or of the store.
ServerReports(c) ==
  /\ peer[c] = "session"
  /\ session.state = "active"
  /\ heard # <<>>
  /\ session.serverSeq < MaxServerSeq
  /\ \/ Numbered(c, <<Down("transcript", session.serverSeq + 1)>>)
     \/ Numbered(c, <<Down("error", session.serverSeq + 1)>>)
  /\ UNCHANGED <<clientSide, up, peer, pending, lastIndex, heard, refused>>

\* removeConnection, once the server noticed.
ServerNotices(c) ==
  /\ link[c] = "closed"
  /\ peer[c] # "gone" \/ up[c] # <<>>
  /\ peer' = [peer EXCEPT ![c] = "gone"]
  /\ up' = [up EXCEPT ![c] = <<>>]
  /\ session' = IF peer[c] = "session" THEN [session EXCEPT !.state = "disconnected"] ELSE session
  /\ UNCHANGED <<clientSide, down, pending, lastIndex, heard, refused>>

-----------------------------------------------------------------------------
Receive ==
  \/ AuthAccepted \/ AuthAcceptedAgain \/ TranscriptArrives
  \/ ErrorArrives \/ SessionClosedArrives \/ HangupArrives

Serve(c) ==
  \/ ServerHello(c) \/ ServerResume(c) \/ ServerRefusesResume(c)
  \/ ServerHangsUp(c) \/ ServerMismatch(c) \/ ServerRefusesNumber(c)
  \/ ServerAssemblerRefuses(c) \/ ServerAccepts(c) \/ ServerEnds(c)
  \/ ServerHears(c) \/ ServerUnexpected(c)

Exchange ==
  \/ StartSession \/ Resume \/ Open \/ LinkLost \/ Receive
  \/ \E c \in Connections : Serve(c) \/ ServerReports(c) \/ ServerNotices(c)

Next == Exchange \/ SendAudioChunk \/ SendAudioGap \/ RequestLiveSuggestion \/ Stop

\* Timers fire, sockets open or close, and what was sent is handled at either end.
\* Nobody is forced to speak, and no link to be lost or kept.
Fairness ==
  /\ WF_vars(Resume)
  /\ WF_vars(Open)
  /\ WF_vars(Receive)
  /\ \A c \in Connections : WF_vars(Serve(c))

Spec == Init /\ [][Next]_vars /\ Fairness

-----------------------------------------------------------------------------
(* Properties *)

\* Every variable stays in its range; a client that knows its session has, or had, a
\* connection, and a timer is set only while it is reconnecting.
TypeOK ==
  /\ status \in {"idle", "connecting", "streaming", "reconnecting", "degraded", "closed", "failed"}
  /\ {known, resuming, timer} \subseteq BOOLEAN
  /\ {own, previous, current} \subseteq 0..MaxConnections
  /\ {nextSeq, lastClient, lastServer, captured, limit} \subseteq Nat
  /\ buffer \in Seq(Nat) /\ gaps \in Seq(Nat)
  /\ link \in [Connections -> {"none", "connecting", "open", "closed"}]
  /\ peer \in [Connections -> {"new", "temporary", "session", "none", "gone"}]
  /\ pending \in [Connections -> Nat] /\ lastIndex \in [Connections -> Nat]
  /\ session.state \in {"none", "active", "disconnected", "ended"}
  /\ session.owner \in 0..MaxConnections
  /\ {session.clientSeq, session.serverSeq} \subseteq Nat
  /\ heard \in Seq(Nat \X Nat)
  /\ timer => status = "reconnecting" /\ known
  /\ \A c \in Connections : peer[c] = "session" => session.owner = c

\* Captured audio does not vanish: each chunk was sent, or it is in the buffer, or a
\* gap that was sent or waits stands for it; nothing is both sent and given up.
Accounted ==
  /\ told.sent \cup told.dropped \cup Elements(buffer) \cup Elements(gaps) = 1..captured
  /\ told.sent \cap (told.dropped \cup Elements(gaps)) = {}
  /\ told.sent \cap Elements(buffer) = {}

\* The provider hears each chunk with the bytes that were announced for it, once and in
\* the order of capture, also when the session moves while an old connection still
\* has audio on its way.
HeardInOrder ==
  /\ \A k \in 1..Len(heard) : heard[k][1] = heard[k][2]
  /\ \A j, k \in 1..Len(heard) : j < k => heard[j][1] < heard[k][1]

\* The client knows of every number that the server has recorded from it, so that a
\* resume never asks the server to go on from a number that was used.
CountersAgree == session.clientSeq <= lastClient

\* A client that waits to reconnect opens its next connection and has its session back
\* there, unless the session has ended or that connection is lost, too: what an old
\* connection still delivers does not keep the session from moving.  (Of a client whose
\* next connection is lost this says nothing: it gives up.)
Reattaches ==
  \A c \in 1..(MaxConnections - 1) :
    timer /\ current = c
      ~> /\ current > c
         /\ \/ session.owner = current /\ session.state = "active"
            \/ session.state = "ended"
            \/ link[current] = "closed"
=============================================================================
