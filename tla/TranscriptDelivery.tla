------------------------- MODULE TranscriptDelivery -------------------------
(***************************************************************************)
(* The transcript of one session: what the speech-to-text sessions of its  *)
(* connections report, TranscriptProcessor, the numbered messages of       *)
(* sendTranscript with their replay after a resume, and the timeline sink, *)
(* as ws-server.ts of services/realtime puts them together.                *)
(*                                                                         *)
(* Each connection has a processor and a provider of its own, and both go  *)
(* on after the session was resumed elsewhere, until the socket closes.    *)
(* The adapters report one event at a time, or a partial and then a final, *)
(* between which no message is handled.  Events that the processor         *)
(* suppresses change nothing and have no action.                           *)
(***************************************************************************)
EXTENDS Naturals, Sequences

CONSTANTS
  Connections,
  Segments,
  StartOf,         \* start_ms of a segment
  Retaining,       \* connections whose workspace policy lets transcripts be stored
  Slots,           \* handlers that may be waiting at the same time
  Window,          \* MAX_REPLAYABLE_TRANSCRIPTS_PER_SESSION
  MaxServerSeq,    \* bound: no event and no resume beyond it
  None

ASSUME DeliveryAssumption ==
  /\ StartOf \in [Segments -> Nat]
  /\ Retaining \subseteq Connections
  /\ Window \in Nat \ {0}
  /\ MaxServerSeq \in Nat
  /\ None \notin Connections \cup Segments \cup Nat

VARIABLES
  state,       \* state of the session
  attached,    \* the connection that is mapped to the session
  link,        \* the socket: idle, open, closed, and removed after its callback
  temporary,   \* connections that hold the session of their auth.hello
  processor,   \* transcriptProcessor of each connection
  stt,         \* the provider session of each connection
  serverSeq,   \* RealtimeSession.serverSeq
  window,      \* replayableTranscriptsBySession
  jobs,        \* the handlers that are waiting for an await
  timeline,    \* segments with a row
  asked,       \* history: last_server_seq of the last resume
  live,        \* history: finals sent on the attached connection since then
  replayed,    \* history: finals replayed on it
  strays,      \* history: numbers of the finals heard on other connections after its replay
  kept,        \* history: finals that were to be stored and not rejected by the store
  finalSeq     \* history: final_server_seq of session.closed

vars == <<state, attached, link, temporary, processor, stt, serverSeq, window, jobs, timeline,
          asked, live, replayed, strays, kept, finalSeq>>

session == <<state, attached, temporary>>
audio == <<processor, stt>>
log == <<serverSeq, window>>
delivery == <<asked, live, replayed, strays>>
storage == <<timeline, kept>>

Event == [type : {"partial", "final"}, segment : Segments]

Message == [seq : Nat, segment : Segments]

Job == [stage : {"idle", "write", "resume", "end"},
        conn : Connections \cup {None},
        segment : Segments \cup {None},
        from : Nat]

Idle == [stage |-> "idle", conn |-> None, segment |-> None, from |-> 0]

NewProcessor == [closed |-> FALSE, open |-> {}, final |-> {}, lastStart |-> 0]

Larger(m, n) == IF m >= n THEN m ELSE n

Init ==
  /\ state = "active"
  /\ attached \in Connections
  /\ link = [c \in Connections |-> IF c = attached THEN "open" ELSE "idle"]
  /\ temporary = {}
  /\ processor = [c \in Connections |-> NewProcessor]
  /\ stt = [c \in Connections |-> "none"]
  /\ serverSeq = 1
  /\ window = <<>>
  /\ jobs = [i \in Slots |-> Idle]
  /\ timeline = {}
  /\ asked = 0
  /\ live = {}
  /\ replayed = {}
  /\ strays = {}
  /\ kept = {}
  /\ finalSeq = None

-----------------------------------------------------------------------------
(* Sockets *)

\* A further connection, with the temporary session of its auth.hello.
Connect(c) ==
  /\ link[c] = "idle"
  /\ link' = [link EXCEPT ![c] = "open"]
  /\ temporary' = temporary \cup {c}
  /\ UNCHANGED <<state, attached, audio, log, jobs, storage, delivery, finalSeq>>

\* closeSttSession marks the provider session closed before it first awaits.
CloseStt(c) == stt' = [stt EXCEPT ![c] = IF @ = "open" THEN "closed" ELSE @]

SocketCloses(c) ==
  /\ link[c] = "open"
  /\ link' = [link EXCEPT ![c] = "closed"]
  /\ CloseStt(c)
  /\ UNCHANGED <<session, processor, log, jobs, storage, delivery, finalSeq>>

\* Mutant: the session stays active.
RemoveQuietly(c) ==
  /\ link[c] = "closed"
  /\ link' = [link EXCEPT ![c] = "removed"]
  /\ temporary' = temporary \ {c}
  /\ attached' = IF attached = c THEN None ELSE attached
  /\ UNCHANGED <<state, audio, log, jobs, storage, delivery, finalSeq>>

\* The close callback, once closeSttSession has settled.
RemoveConnection(c) ==
  /\ link[c] = "closed"
  /\ link' = [link EXCEPT ![c] = "removed"]
  /\ temporary' = temporary \ {c}
  /\ IF attached = c
     THEN state' = "disconnected" /\ attached' = None
     ELSE UNCHANGED <<state, attached>>
  /\ UNCHANGED <<audio, log, jobs, storage, delivery, finalSeq>>

-----------------------------------------------------------------------------
(* Audio in, transcript out *)

At(i, stage) == jobs[i].stage = stage

\* The replay to connection c is still to come.
AwaitsReplay(c) == \E i \in Slots : At(i, "resume") /\ jobs[i].conn = c

\* The first chunk of a connection opens its provider session, or one that never
\* reports because it failed to open.
AudioChunk(c) ==
  /\ link[c] = "open"
  /\ attached = c
  /\ stt[c] = "none"
  /\ stt' = [stt EXCEPT ![c] = "open"]
  /\ UNCHANGED <<session, link, processor, log, jobs, storage, delivery, finalSeq>>

\* TranscriptProcessor.process: what is not suppressed.
Accepts(p, e) ==
  /\ ~p.closed
  /\ e.segment \notin p.final
  /\ e.segment \notin p.open => StartOf[e.segment] >= p.lastStart

Processed(p, e) ==
  [p EXCEPT !.open = IF e.type = "final" THEN @ \ {e.segment} ELSE @ \cup {e.segment},
            !.final = IF e.type = "final" THEN @ \cup {e.segment} ELSE @,
            !.lastStart = Larger(@, StartOf[e.segment])]

\* The last Window messages.
Bounded(w) == SubSeq(w, IF Len(w) > Window THEN Len(w) - Window + 1 ELSE 1, Len(w))

\* Mutant: the state of the session is not asked for.
Listens(c) == stt[c] = "open"

\* emitTranscriptEvents: the provider of c has something to say.
Heard(c) == state = "active" /\ stt[c] = "open"

\* A partial is numbered and sent, and nothing else.
PartialHeard(c, g) ==
  LET e == [type |-> "partial", segment |-> g] IN
  /\ Heard(c)
  /\ Accepts(processor[c], e)
  /\ serverSeq < MaxServerSeq
  /\ processor' = [processor EXCEPT ![c] = Processed(@, e)]
  /\ serverSeq' = serverSeq + 1
  /\ UNCHANGED <<session, link, stt, window, jobs, storage, delivery, finalSeq>>

\* sendTranscript: the final takes a number, is kept for replay, and is sent if
\* the socket it was heard on is still open, to nobody else: another connection that
\* resumed the session gets it with its replay, if that is still to come.
SendTranscript(c, g) ==
  LET m == [seq |-> serverSeq + 1, segment |-> g] IN
  /\ serverSeq' = serverSeq + 1
  /\ window' = Bounded(Append(window, m))
  /\ live' = IF c = attached /\ link[c] = "open" THEN live \cup {m} ELSE live
  /\ strays' = IF c = attached \/ AwaitsReplay(attached) THEN strays ELSE strays \cup {m.seq}
  /\ UNCHANGED <<asked, replayed>>

\* Mutant: only the attached connection stores what it heard.
PersistWhenAttached(i, c, g) ==
  IF c \in Retaining
  THEN /\ jobs[i] = Idle
       /\ jobs' = IF c = attached
                  THEN [jobs EXCEPT ![i] = [stage |-> "write", conn |-> c, segment |-> g, from |-> 0]]
                  ELSE jobs
       /\ kept' = kept \cup {g}
  ELSE UNCHANGED <<jobs, kept>>

\* persistTranscriptEvent: the write is awaited, if the policy allows it.
Persist(i, c, g) ==
  IF c \in Retaining
  THEN /\ jobs[i] = Idle
       /\ jobs' = [jobs EXCEPT ![i] = [stage |-> "write", conn |-> c, segment |-> g, from |-> 0]]
       /\ kept' = kept \cup {g}
  ELSE UNCHANGED <<jobs, kept>>

FinalHeard(i, c, g) ==
  LET e == [type |-> "final", segment |-> g] IN
  /\ Heard(c)
  /\ Accepts(processor[c], e)
  /\ serverSeq < MaxServerSeq
  /\ processor' = [processor EXCEPT ![c] = Processed(@, e)]
  /\ SendTranscript(c, g)
  /\ Persist(i, c, g)
  /\ UNCHANGED <<session, link, stt, timeline, finalSeq>>

Done(i) == jobs' = [jobs EXCEPT ![i] = Idle]

\* The row is inserted, or updated when the segment has one.
WriteStored(i) ==
  /\ At(i, "write")
  /\ Done(i)
  /\ timeline' = timeline \cup {jobs[i].segment}
  /\ UNCHANGED <<session, link, audio, log, kept, delivery, finalSeq>>

\* The write is rejected, and may have been committed all the same; the client is
\* told while the session is active.
WriteFails(i) ==
  /\ At(i, "write")
  /\ Done(i)
  /\ timeline' \in {timeline, timeline \cup {jobs[i].segment}}
  /\ kept' = kept \ {jobs[i].segment}
  /\ serverSeq' = IF state = "active" THEN serverSeq + 1 ELSE serverSeq
  /\ UNCHANGED <<session, link, audio, window, delivery, finalSeq>>

-----------------------------------------------------------------------------
(* resume.request *)

ResumedSeq(n) == serverSeq' = Larger(serverSeq, n)

Replayable(n) == {m \in {window[k] : k \in 1..Len(window)} : m.seq > n}

\* Mutant: what is replayed is looked up before updateSeqState is awaited.
ReplayAtOnce(i, c, n) ==
  /\ link[c] = "open"
  /\ c \in temporary \/ attached = c
  /\ state # "ended"
  /\ serverSeq < MaxServerSeq
  /\ jobs[i] = Idle
  /\ state' = "active"
  /\ attached' = c
  /\ temporary' = temporary \ {c}
  /\ processor' = [processor EXCEPT ![c] = NewProcessor]
  /\ ResumedSeq(n)
  /\ jobs' = [jobs EXCEPT ![i] = [stage |-> "resume", conn |-> c, segment |-> None,
                                  from |-> MaxServerSeq]]
  /\ asked' = n
  /\ live' = {}
  /\ replayed' = Replayable(n)
  /\ strays' = {}
  /\ UNCHANGED <<link, stt, window, storage, finalSeq>>

\* The session is attached to c with a new processor; updateSeqState is awaited.
ResumeRequest(i, c, n) ==
  /\ link[c] = "open"
  /\ c \in temporary \/ attached = c
  /\ state # "ended"
  /\ serverSeq < MaxServerSeq
  /\ jobs[i] = Idle
  /\ state' = "active"
  /\ attached' = c
  /\ temporary' = temporary \ {c}
  /\ processor' = [processor EXCEPT ![c] = NewProcessor]
  /\ ResumedSeq(n)
  /\ jobs' = [jobs EXCEPT ![i] = [stage |-> "resume", conn |-> c, segment |-> None, from |-> n]]
  /\ asked' = n
  /\ live' = {}
  /\ replayed' = {}
  /\ strays' = {}
  /\ UNCHANGED <<link, stt, window, storage, finalSeq>>

\* updateSeqState settles, with an error message or without; the replay follows.
ResumeStored(i) ==
  LET c == jobs[i].conn IN
  /\ At(i, "resume")
  /\ Done(i)
  /\ serverSeq' \in {serverSeq, serverSeq + 1}
  /\ replayed' = IF c = attached /\ link[c] = "open"
                 THEN replayed \cup Replayable(jobs[i].from)
                 ELSE replayed
  /\ UNCHANGED <<session, link, audio, window, storage, asked, live, strays, finalSeq>>

-----------------------------------------------------------------------------
(* session.end *)

SessionEnd(i, c) ==
  /\ link[c] = "open"
  /\ attached = c
  /\ jobs[i] = Idle
  /\ jobs' = [jobs EXCEPT ![i] = [stage |-> "end", conn |-> c, segment |-> None, from |-> 0]]
  /\ processor' = [processor EXCEPT ![c].closed = TRUE]
  /\ CloseStt(c)
  /\ UNCHANGED <<session, link, log, storage, delivery, finalSeq>>

\* closeSttSession has settled: endSession and the number of session.closed.
EndSession(i) ==
  /\ At(i, "end")
  /\ Done(i)
  /\ state' = "ended"
  /\ attached' = None
  /\ serverSeq' = serverSeq + 1
  /\ finalSeq' = serverSeq + 1
  /\ UNCHANGED <<temporary, link, audio, window, storage, delivery>>

-----------------------------------------------------------------------------
Next ==
  \/ \E c \in Connections :
       \/ Connect(c)
       \/ SocketCloses(c)
       \/ RemoveConnection(c)
       \/ AudioChunk(c)
       \/ \E g \in Segments : PartialHeard(c, g)
       \/ \E i \in Slots, g \in Segments : FinalHeard(i, c, g)
       \/ \E i \in Slots, n \in 0..MaxServerSeq : ResumeRequest(i, c, n)
       \/ \E i \in Slots : SessionEnd(i, c)
  \/ \E i \in Slots :
       WriteStored(i) \/ WriteFails(i) \/ ResumeStored(i) \/ EndSession(i)

Spec == Init /\ [][Next]_vars

-----------------------------------------------------------------------------
(* Properties *)

\* Every variable stays in its range, the attached connection is one that an
\* active session has, and a waiting handler knows its connection.
TypeOK ==
  /\ state \in {"active", "disconnected", "ended"}
  /\ attached \in Connections \cup {None}
  /\ state = "active" <=> attached # None
  /\ link \in [Connections -> {"idle", "open", "closed", "removed"}]
  /\ temporary \subseteq Connections
  /\ processor \in [Connections -> [closed : BOOLEAN, open : SUBSET Segments,
                                    final : SUBSET Segments, lastStart : Nat]]
  /\ stt \in [Connections -> {"none", "open", "closed"}]
  /\ serverSeq \in Nat
  /\ window \in Seq(Message)
  /\ jobs \in [Slots -> Job]
  /\ timeline \subseteq Segments
  /\ asked \in Nat
  /\ live \subseteq Message
  /\ replayed \subseteq Message
  /\ strays \subseteq Nat
  /\ kept \subseteq Segments
  /\ finalSeq \in Nat \cup {None}
  /\ \A i \in Slots :
       /\ jobs[i].stage # "idle" => jobs[i].conn # None
       /\ jobs[i].stage = "write" => jobs[i].segment # None

\* Once a resume is through, its connection was sent every final behind the number
\* it asked for that the window still has, replayed or live, also the finals that an
\* older connection heard while updateSeqState was awaited.  What an older connection
\* hears after the replay is not sent; only the next resume or the timeline has it.
ReplayCovers ==
  \A c \in Connections :
    /\ attached = c
    /\ link[c] = "open"
    /\ \A i \in Slots : ~(At(i, "resume") /\ jobs[i].conn = c)
    => \A k \in 1..Len(window) :
         window[k].seq > asked =>
           window[k] \in live \cup replayed \/ window[k].seq \in strays

\* The finals that policy allows to be stored are stored or being written, unless
\* their write was rejected, also when their connection lost the session meanwhile or
\* the session is over.
KeptIsStored ==
  kept \subseteq timeline \cup {jobs[i].segment : i \in {j \in Slots : At(j, "write")}}

\* No transcript is numbered after session.closed was: final_server_seq is behind
\* every final, also those of a connection that lost the session before.
ClosedSuppression ==
  finalSeq # None => \A k \in 1..Len(window) : window[k].seq < finalSeq
=============================================================================
