--------------------------- MODULE DeepgramStream ----------------------------
(***************************************************************************)
(* The streaming session of DeepgramSttAdapter for one realtime connection,*)
(* from startSession to close, with the TranscriptProcessor that its events*)
(* go through.  The two audio streams of the desktop share it.             *)
(*                                                                         *)
(* The provider numbers what it hears by the audio that it was sent: an    *)
(* utterance is reported at its offset, any number of times as an interim  *)
(* result and once as a final one, before the next begins.  It may close   *)
(* the stream.  Time is counted in chunks, and the timestamp of a chunk is *)
(* the position in its own stream.                                         *)
(***************************************************************************)
EXTENDS Naturals

CONSTANTS
  Streams,       \* microphone and system audio
  MaxChunks,     \* bound: chunks sent
  MaxPosition,   \* bound: position in a stream
  MaxUtterances  \* bound: utterances heard

ASSUME StreamAssumption ==
  /\ {MaxChunks, MaxUtterances} \subseteq Nat
  /\ MaxPosition \in Nat \ {0}

Utterances == 1..MaxUtterances

VARIABLES
  provider,    \* the provider's socket
  adapter,     \* whether close was called
  position,    \* timestamp_ms of the next chunk of each stream
  latestAt,    \* timestamp of latestChunk, or 0 before the first, which has 1 or more
  fed,         \* chunks the provider was sent
  spoken,      \* utterances that were reported
  offset,      \* message.start of each
  ended,       \* utterances with a final result
  segments,    \* TranscriptProcessor.segments: the state of each segment_id
  lastStart,   \* lastAcceptedStartMs
  holds,       \* history: the utterance whose text a segment has
  inOrder,     \* history: no chunk was older than the one before
  unheard,     \* history: chunks that were sent and reached no one
  told         \* whether the client was sent an STT error

streamVars == <<provider, adapter, position, latestAt, fed, spoken, offset, ended, segments,
                lastStart, holds, inOrder, unheard, told>>

heard == <<spoken, offset, ended, segments, lastStart, holds>>
audioIn == <<position, latestAt, fed, inOrder, unheard>>

\* The segment_id of the adapter is its start_ms: an offset behind a timestamp.
SegmentIds == 0..MaxPosition + MaxChunks

StreamInit ==
  /\ provider = "none"
  /\ adapter = "open"
  /\ position = [s \in Streams |-> 1]
  /\ latestAt = 0 /\ fed = 0
  /\ spoken = 0
  /\ offset = [u \in Utterances |-> 0]
  /\ ended = {}
  /\ segments = [i \in SegmentIds |-> "none"]
  /\ lastStart = 0
  /\ holds = [i \in SegmentIds |-> 0]
  /\ inOrder = TRUE
  /\ unheard = 0
  /\ told = FALSE

-----------------------------------------------------------------------------
(* The socket *)

\* The first chunk calls startSession.
StartSession ==
  /\ provider = "none" /\ adapter = "open"
  /\ provider' = "connecting"
  /\ UNCHANGED <<adapter, audioIn, heard, told>>

\* The socket opens, or fails or times out, which is told for the chunk that waits.
Connected ==
  /\ provider = "connecting"
  /\ \/ provider' = "open" /\ UNCHANGED told
     \/ provider' = "failed" /\ told' = TRUE
  /\ UNCHANGED <<adapter, audioIn, heard>>

\* The provider closes the stream, for instance because it heard nothing for a while.
\* Nothing but the timer of the connection is told.
ProviderCloses ==
  /\ provider = "open"
  /\ provider' = "dropped"
  /\ UNCHANGED <<adapter, audioIn, heard, told>>

\* An error of the socket, or a message that is not JSON.
ProviderError ==
  /\ provider = "open" /\ adapter = "open"
  /\ told' = TRUE
  /\ UNCHANGED <<provider, adapter, audioIn, heard>>

\* A stream moves on without a chunk: an audio.gap.
Skip(s) ==
  /\ position[s] < MaxPosition
  /\ position' = [position EXCEPT ![s] = @ + 1]
  /\ UNCHANGED <<provider, adapter, latestAt, fed, inOrder, unheard, heard, told>>

\* transcribeChunk: the chunk is the latest, and is sent.  A socket that has closed takes
\* it without an error; one that never opened is an error of every chunk.
TranscribeChunk(s) ==
  /\ provider \in {"open", "dropped", "failed"} /\ adapter = "open"
  /\ position[s] < MaxPosition /\ fed + unheard < MaxChunks
  /\ position' = [position EXCEPT ![s] = @ + 1]
  /\ \/ /\ provider = "failed"
        /\ told' = TRUE
        /\ UNCHANGED <<latestAt, fed, inOrder, unheard>>
     \/ /\ provider # "failed"
        /\ inOrder' = (inOrder /\ latestAt <= position[s])
        /\ latestAt' = position[s]
        /\ IF provider = "open"
           THEN fed' = fed + 1 /\ UNCHANGED unheard
           ELSE unheard' = unheard + 1 /\ UNCHANGED fed
        /\ UNCHANGED told
  /\ UNCHANGED <<provider, adapter, heard>>

\* close: what the provider still has to say is no longer heard.
CloseStream ==
  /\ adapter = "open"
  /\ adapter' = "closed"
  /\ provider' = IF provider = "open" THEN "closed" ELSE provider
  /\ UNCHANGED <<audioIn, heard, told>>

-----------------------------------------------------------------------------
(* What is heard *)

\* Mutant: a segment that has a partial is as good as a duplicate.
AcceptsNewResult(id) == segments[id] = "none" /\ id >= lastStart

\* TranscriptProcessor.process, for an event that starts at its segment_id.
AcceptsResult(id) ==
  /\ segments[id] # "final"
  /\ segments[id] = "none" => id >= lastStart

\* mapProviderMessages and process: u at offset o, as a partial or a final.
HeardResult(u, o, state) ==
  LET id == latestAt + o IN
  IF AcceptsResult(id)
  THEN /\ segments' = [segments EXCEPT ![id] = state]
       /\ lastStart' = IF id > lastStart THEN id ELSE lastStart
       /\ holds' = [holds EXCEPT ![id] = u]
  ELSE UNCHANGED <<segments, lastStart, holds>>

CanReport == provider = "open" /\ adapter = "open" /\ latestAt > 0

\* A new utterance, behind the one before in the audio.
BeginUtterance(state) ==
  LET u == spoken + 1 IN
  /\ CanReport /\ u <= MaxUtterances
  /\ \A v \in 1..spoken : v \in ended
  /\ \E o \in {n \in 0..fed : n < fed /\ \A v \in 1..spoken : offset[v] < n} :
       /\ offset' = [offset EXCEPT ![u] = o]
       /\ HeardResult(u, o, state)
  /\ spoken' = u
  /\ ended' = IF state = "final" THEN ended \cup {u} ELSE ended
  /\ UNCHANGED <<provider, adapter, audioIn, told>>

\* A further result of the utterance that is being spoken.
ContinueUtterance(state) ==
  /\ CanReport /\ spoken # 0 /\ spoken \notin ended
  /\ HeardResult(spoken, offset[spoken], state)
  /\ ended' = IF state = "final" THEN ended \cup {spoken} ELSE ended
  /\ UNCHANGED <<provider, adapter, audioIn, spoken, offset, told>>

-----------------------------------------------------------------------------
StreamNext ==
  \/ StartSession \/ Connected \/ ProviderCloses \/ ProviderError \/ CloseStream
  \/ \E s \in Streams : Skip(s) \/ TranscribeChunk(s)
  \/ \E state \in {"partial", "final"} : BeginUtterance(state) \/ ContinueUtterance(state)

StreamSpec == StreamInit /\ [][StreamNext]_streamVars

-----------------------------------------------------------------------------
(* Properties *)

\* Every variable stays in its range.
StreamTypeOK ==
  /\ provider \in {"none", "connecting", "open", "dropped", "failed", "closed"}
  /\ adapter \in {"open", "closed"}
  /\ position \in [Streams -> 1..MaxPosition]
  /\ latestAt \in 0..MaxPosition
  /\ fed + unheard <= MaxChunks
  /\ spoken \in 0..MaxUtterances
  /\ offset \in [Utterances -> 0..MaxChunks]
  /\ ended \subseteq 1..spoken
  /\ segments \in [SegmentIds -> {"none", "partial", "final"}]
  /\ holds \in [SegmentIds -> 0..spoken]
  /\ {inOrder, told} \subseteq BOOLEAN

\* While the chunks of the two streams come in the order of their timestamps, the text of
\* every final result is in a segment of its own that is final: none is suppressed as a
\* duplicate or as out of order, and none is overwritten by a later utterance, although
\* its segment_id is made of the chunk that happened to be the latest.
FinalsKept ==
  inOrder => \A u \in ended : \E i \in SegmentIds : segments[i] = "final" /\ holds[i] = u
=============================================================================
