# Verification of the realtime meeting service

This directory holds TLA+ specifications of Dokeza: a desktop overlay captures
the audio of a meeting, a realtime service transcribes it and streams
suggestions back, and an HTTP API serves the stored meetings. The specifications
follow the TypeScript and Rust source, not the documents; where a document says
something else, a run shows it. TLC checks the models on small instances, TLAPS
proves the theorems for every value of the constants.

    tlc -workers 2 -config Sessions.cfg MCRealtimeSessions.tla
    tlapm RealtimeSessionsProofs.tla

`PROJECT.json` lists the components, the runs, the mutants (one plausible bug for
each property, which the property's run must find), the source lines of every
definition, the disagreements with the documents, the hazards and the theorems.

## 1. Inventory

Paths are relative to the repository.

| Component | State it keeps | Operations | Speaks to |
| --- | --- | --- | --- |
| **Session manager**, `services/realtime/src/session-manager.ts` | `sessions` (state, owning connection, user, workspace, both sequence numbers), `connectionToSession` | `authenticate`, `advanceClientSeq`, `nextServerSeq`, `endSession`, `resumeSession`, `removeConnection` | called by the WebSocket handlers |
| **WebSocket server**, `services/realtime/src/ws-server.ts` | per connection the closure flags `authenticated`, `sessionPersisted`, the processor, the STT session; per process the guardrail map and the blocked set of suggestions | `auth.hello`, `session.start`, `session.end`, `resume.request`, `transcription.audio_chunk`, `audio.gap`, `screen_context`, `suggestion.request`, `close`, `error` | all of the below |
| **Session store**, `session-store.ts` | `meeting_sessions` rows | `create`, `updateSeqState`, `endSession` | PostgreSQL |
| **Live suggestions**, the `suggestion.request` handler, `usage-ledger.ts`, `suggestion-sink.ts` | last accepted time, accepted count and in-flight flag of a session; blocked sessions; `usage_events` rows | admission, streaming, recording of usage, persistence of the suggestion | AI orchestrator, knowledge base, PostgreSQL |
| **Transcript pipeline**, `transcript-processor.ts`, `frame-assembler.ts`, `transcript-timeline.ts`, `pg-transcript-timeline-sink.ts`, the STT adapters | the pending binary frame, the final segments, the clock of the last segment, the replay window | assemble, transcribe, process, send, persist, replay | Deepgram, PostgreSQL |
| **Desktop session client**, `apps/desktop/src/protocol/desktopRealtimeSession.ts`, `realtimeRecovery.ts` | phase, next sequence number, last server sequence number, buffered audio, reconnect attempt | connect, start, send, buffer, reconnect, resume, end | WebSocket server |
| **Microphone capture**, `microphoneCaptureController.ts`, `src-tauri/src/microphone_stream.rs` | controller phase and generation; capture thread, epoch, paused flag, bounded queue | start, pause, resume, stop, fail | desktop session client |
| **Hosted sign-in**, `hostedAuthFlow.ts`, `hosted_auth_callback.rs`, `secureTokenStorage.ts` | pending state and verifier, stored tokens | begin, callback, exchange, refresh, sign out | identity provider, system keychain |
| **API identity and membership**, `services/api/src/identity-repository.ts` | users, workspaces, memberships | upsert and delete a membership, ensure an actor | PostgreSQL |
| **API meeting review and retention**, `meeting-review-repository.ts` | meetings, transcripts, suggestions, summaries | list, review, delete, clean up | PostgreSQL |
| **API HTTP server**, `http-server.ts` | rate-limit windows | route, authenticate, limit | the repositories |
| **AI orchestrator, knowledge base** | none (embedding and model calls) | stream suggestions, budget tokens, chunk, rank | model providers |
| **Packages** `auth`, `authz`, `contracts`, `config`, `db`, `telemetry` | none | sign and verify tokens, look up memberships, validate messages | |
| **Desktop user interface, probes, update policy** | view state | render | session client |

How they interact. The desktop opens a WebSocket and sends `auth.hello`; the
server verifies the token, resolves the workspace policy and creates a session.
`session.start` inserts a row. Audio goes to a speech-to-text session of the
connection, whose results are processed, sent and stored one after another. A
`suggestion.request` calls the AI orchestrator and streams tokens back. After a
lost connection the client opens another one, is given a *temporary* session by
its `auth.hello` and asks with `resume.request` to have the old one attached to
it. `session.end` closes the STT session, ends the row and is answered with
`session.closed`. The API reads and deletes the same rows.

What is hard about it:

- *Interleaving at awaits.* Every handler is an `async` function; node runs
  another handler at each `await`. A flag read before an await is used after it
  (`authenticated`, `sessionPersisted`, the guardrail state), and the close event
  of a socket does not cancel the handlers that wait on its behalf.
- *Sessions move.* A session outlives its connection, and several connections
  may have handlers waiting for one session.
- *Partial failure.* Writes fail, also after they were committed; an end is two
  writes; usage is written after the provider was paid.
- *Sequence numbers from outside.* Resumes carry counters of the client.
- *Clocks, limits and buffers* on both sides.

What makes each component correct:

- sessions: one owner for each session, nobody takes over another principal's
  session, an end is final, stored and answered, numbers never rewind, and a
  closed connection leaves a session that can be resumed;
- suggestions: one request at a time, never more than the cap, never beyond the
  cost limit, no work when accounting failed, and never stuck;
- transcripts: each final segment that may be stored is stored, and none is numbered after the
  session closed; a replay leaves out none that was heard before it;
- desktop session: the client knows of every number that the server took from it, every
  dropped chunk is reported as a gap, the provider hears what was captured once and in order,
  and a reconnect whose link holds has its session back;
- microphone: a stopped capture gives the device back, a paused one is silent, and the
  timeline covers all audio;
- memberships: a workspace keeps an owner, and whoever changes one may do so at the
  commit; records: what was stored is shown until it is removed, and a settled meeting that is
  removed stays removed;
- HTTP server: a caller that waits as told is admitted, and a shutdown turns nobody away who is
  still waiting;
- documents: a search shows what the detail shows;
- suggestion stream: input within its budgets, and an output that is what the model said;
- sign-in: a callback completes only the sign-in that it belongs to,
  the stored refresh token is one that the provider takes, and no attempt keeps its port for ever.

## 2. Modules

| Module | Role |
| --- | --- |
| `RealtimeSessions` | session manager, WebSocket handlers, session rows |
| `SessionLease` | abstract: who holds which session |
| `RealtimeSessionsProofs`, `SessionLeaseProofs` | theorems about them |
| `LiveSuggestions` | suggestion handler, guardrails, usage ledger |
| `SuggestionAdmission` | abstract: atomic admission and settlement |
| `LiveSuggestionsProofs` | theorems about them |
| `TranscriptDelivery` | numbering, replay and storage of the transcript of a session over several connections |
| `DeepgramStream` | the streaming session of the speech-to-text adapter and the processor of its results |
| `SuggestionStream` | one call of the AI orchestrator: its input, the streamed answer, the output |
| `MeetingRecords` | the rows of meetings, segments, gaps and suggestions under writes, deletion, clean-up and policies |
| `Memberships` | sign-in and the membership mutations as concurrent transactions |
| `ApiServer` | the way of a request through the HTTP server, rate limit and shutdown |
| `Knowledge` | chunks, uploads, lists, details and searches of documents |
| `DesktopSession` | the desktop's session client against the server's side of the protocol |
| `MicrophoneCapture` | capture controllers and the native stream with its threads |
| `HostedSignIn` | sign-in, the stored session and its renewals |
| `ApiProofs` | theorems about `Memberships`, `MeetingRecords` and `ApiServer` |
| `TranscriptProofs` | theorems about `TranscriptDelivery` and `DeepgramStream` |
| `DesktopSessionProofs` | theorems about `DesktopSession` |
| `DesktopProofs` | theorems about `MicrophoneCapture`, `HostedSignIn` and the parts of `MCDesktop` together |
| `ServicesProofs` | theorems about `SuggestionStream`, `Knowledge` and the parts of `MCServices` together |
| `MCRealtimeSessions`, `MCLiveSuggestions` | constants and symmetry for TLC |
| `MCDesktop` | the three desktop modules side by side |
| `MCServices` | the seven modules of the services that are not in the first two, side by side |
| `DocumentedSessions`, `DocumentedSuggestions`, `DocumentedMembers`, `DocumentedStream`, `DocumentedDesktop` | sentences of the documents that the code does not keep |

Definitions whose comment begins with *Mutant* are broken variants of the one that
follows them. Nothing uses them in the specification.

How the modules meet. `RealtimeSessions` is the one description of sessions and
connections with every await; `LiveSuggestions`, `TranscriptDelivery`,
`MeetingRecords` and `DesktopSession` each take from it what a session can do to
them (a phase, an owner, a counter) and say so in their headers. `DesktopSession`
composes client, link and server; its server handlers are single steps, as
`RealtimeSessions` is about what happens between their awaits. `DeepgramStream` is one provider
session of `TranscriptDelivery`, where the provider is any source of events.
`SuggestionStream` is the stream that `LiveSuggestions` waits for. The parts
that `MCDesktop` and `MCServices` put side by side share no state, in the code
neither, except through what is named here: a behaviour moves one of them, so
that a run costs their sum and not their product.

### RealtimeSessions

`sessions` and `connectionToSession` are the two maps of `SessionManager`;
`closure[c]` are the variables captured by the handlers of a connection; `link[c]`
is the readiness of its socket; `teardown[c]` counts close and error callbacks
that wait for `closeSttSession`; `row[s]` is the status column of the session's
row. A handler runs in one action up to its first await; what waits is a record
in `tasks`, and what follows the await is an action that starts with
`Resumed(i, kind)`:

| Handler | Actions |
| --- | --- |
| socket events | `Connect`, `SocketError`, `SocketCloses`, `RemoveConnection` |
| `auth.hello` | `UnauthenticatedMessage`, `AuthHello`, then `RefuseHello` or `AcceptHello` |
| `resume.request` | `ResumeRequest` then `ResumeStored`, or `RefuseResume` |
| `session.start` | `SessionStart` then `CreateStored`, or `StartElsewhere` |
| `session.end` | `SessionEnd`, `EndSession`, `EndSeqStored`, `EndRowStored` |
| every other message | `UnmappedMessage`, `RejectedMessage`, `OtherMessage`, `ServerMessage` |

The sender of a message is any client: sequence numbers, session identifiers and
the `previous connection` of a resume are chosen from all values. `ServerMessage`
stands for everything that components outside this module send. Sequence numbers
count as in the code; the token, the policy and the membership appear as the
choice between `RefuseHello` and an `AcceptHello` for a member.

Left out: the content of messages, logging, the sequence columns of the rows
(nothing in the service reads them back), and the clearing of the guardrail maps
in the close handler for a session that has ended. That branch asks for a
connection that is mapped to an ended session, and `OwnershipConsistent`, which
is proved, says there is none.

### LiveSuggestions

`guard[s]` is the entry of the guardrail map, `blocked` the set
`usageAccountingBlockedSessions`, `row` and `total` the ledger: `row[s][r]` is
the cost stored for a request identifier, 0 without a row, and `total[s]` their
sum, kept by `Upsert` as the difference of each write. `clock` is the wall
clock, which may be set back. `phase[s]` follows the states of `RealtimeSessions`;
requests enter only while it is `active`, the continuations look at it where the
code does. The handler's awaits are the stages of a task:

    Reserve -> lookup  -> Count  -> retrieve -> Submit -> stream -> StreamEnds
                      -> LookupFails, Reject                -> complete | failed
               retrieve -> TooLarge -> failed
               complete | failed -> Recorded -> persist -> Persisted
                                 -> RecordFails

A request that fails a condition of `Admissible` only gets an error and changes
nothing here, so it has no action. Prices are configured: without them the code
has no cost limit and this module has nothing to say. A submission may still
start for a session that ended or was deleted during the lookup, as in the code;
usage of a deleted session is not recorded. The words of prompts and citations
are not modelled, a cost is a number.

History variables record what the properties speak of: `submitted`, `spent`
(what the provider was paid), `seen` and `repeated` (sessions whose client used a
request identifier twice).

### TranscriptDelivery

One session and the connections that had it. `processor[c]` is the
`TranscriptProcessor` of a connection (`open`, `final`, the start of the last
segment, `closed`), `stt[c]` its provider session, `window` the entry of
`replayableTranscriptsBySession`, `timeline` the segments that have a row.
`state`, `attached`, `temporary` and `serverSeq` are the session manager's, for
this session only; `RealtimeSessions` has them in full.

| Code | Actions |
| --- | --- |
| socket events | `Connect`, `SocketCloses`, `RemoveConnection` |
| binary frame, provider session | `AudioChunk` |
| `emitTranscriptEvents`, `sendTranscript`, `persistTranscriptEvent` | `PartialHeard`, `FinalHeard`, then `WriteStored` or `WriteFails` |
| `resume.request` | `ResumeRequest`, then `ResumeStored` with the replay |
| `session.end` | `SessionEnd`, `EndSession` |

The difficulty is that a connection which lost its session is not told: until its
socket closes, its provider goes on reporting, its processor, which no
`session.end` closes, goes on accepting, and the finals take numbers of the
session, enter the window and the timeline, and are sent to nobody but the old socket.
What the old connection hears while a resume waits for the store is in the window when
the replay looks there, and is replayed; what it hears later is not. What the new
connection hears while it waits is sent, and then replayed too.

`emitTranscriptEvents` awaits the write between two events of a list. The adapters
report one event at a time, or a partial followed by its final; a partial has no
write, so the wait between them ends before another message is handled, and an
event of the list is an action. Where two connections' providers report the same
segment is up to their clocks; the model lets them. An end of the session is
`session.end` of the attached connection; the row of the meeting is
`RealtimeSessions`' affair. The window is kept when the session ends, as in the
code, which never drops it. The provider is the one of Deepgram, which reports on
its own; the deterministic adapter reports within the handler of a chunk, a special
case.

History variables: `asked`, `live`, `replayed` and `strays` describe the attached
connection since its resume (`strays` are the finals that another connection hears once
`AwaitsReplay` is false), `kept` the finals that were given to the store,
`finalSeq` the number of `session.closed`.

### DeepgramStream

`provider` and `adapter` are the two ends of the provider's socket; `position[s]`
is the timestamp of the next chunk of a stream, `latestAt` and `fed` the latest
chunk that was sent and their number; `segments` and `lastStart` are those of the
`TranscriptProcessor`. A result has no timestamp of its own: `mapProviderMessages`
adds its offset in the provider's stream to the timestamp of the chunk that was
sent last, and makes the segment identifier of the sum. Actions are
`StartSession`, `Connected`, `ProviderCloses`, `ProviderError`, `TranscribeChunk`,
`Skip` (a reported gap), `CloseStream`, and the results `BeginUtterance` and
`ContinueUtterance`. `holds` records whose text a segment has; `FinalsKept` says
that none is lost as long as the chunks of both streams come in the order of their
timestamps, and `FinalSupersedes`, which the documents say, is violated.

### SuggestionStream

A character is the number of its UTF-8 bytes, because the estimate of tokens
counts bytes and the limit of characters counts UTF-16 units, and the two disagree.
`TranscriptContext` and `UntrustedSourceContext` build the input within its budgets;
`SuggestionStreamInit` refuses an input that is too large as a whole. `ReadPiece`
takes any number of the symbols that are left in the body, `ParseFrame` handles an
event once its empty line is in the buffer, `Handle` distinguishes the two APIs,
and `Token` truncates. `BreaksOff` and `Abandon` are the failures of the
transport and of the consumer. Sums and the lines of an event are recursive functions
on `0..Len(s)`, so that they can be proved about.

### MeetingRecords

For each meeting of a workspace its row, its realtime session (`running`,
`persisted`, `creating`, `known`), and for each note its row. `StartMeeting` is
`session.start`, which a client may repeat: as long as no `create` was answered, each of
them creates again, so `creating` counts the insertions on their way. `CreateMeeting`
inserts a row only where there is none, since a create is a plain INSERT, and its
answer may be lost behind the commit; `EndMeeting` updates the row only if
`sessionPersisted` was set. A write is two steps, the check
of its scope and the insertion, with a commit in between of anything else. A
deletion or a clean-up (`BeginDelete`, `BeginCleanup`, `SelectExpired`, `Delete`)
is one, with the policy read before the rows are. `ReviewIsComplete` compares what
the API shows with the history `stored` and `removed`. A meeting is `Settled` when no
create is on its way nor can be repeated. Only then does a deletion remove it for
good (`removed` is `final`): before, a create may bring the row back, without its notes
(`once`).

### Memberships

`mutations[r]` is a transaction at READ COMMITTED: `seen` is the snapshot of its
SELECT ... FOR UPDATE, `toLock` the rows it still has to lock, in the order of the
users, and `found` what it read once it had the lock. `by` in a row tells a row
that was deleted and inserted again from the one that was seen. `Refuse` stands for
the refusals and for aborts at any time. A row that was inserted after the
snapshot is not seen and may be overwritten; `overlooked` records it, and
`LastOwner` and the owner's part of `AuthorizedNow` exclude it. `OwnerRemains`, the
sentence of the documents, does not, and is violated.

### ApiServer

A request is at a `step`: it waits for the rest of its body, a verification, a
repository or the check of readiness; each route of the code is an action, which
consumes the limit where the route does, and then waits or answers. `buckets` are
the windows of `consumeRateLimit` with the sweep of those that are over; `pool`
is opened by the first request that needs a repository. `Signal`, `ListenerCloses`
and `ExitsCleanly` are the shutdown of `main.ts`. After the signal requests go on,
and further ones arrive on connections that are kept alive (`Arrives`), until no client
waits and node calls back; then the pools end. `turnedAway` records the requests that met
a pool that was ending, which by then are those of clients that have left; an end of
the pools at the signal, the mutant `SignalEndsPools`, turns away others.

### Knowledge

`ChunkDocumentText` is the chunking with its two levels, `CanAccess` the check that the
code makes for details and lists, `AccessPredicate` the one that SQL makes for
searches. An upload and a search wait for the embedding inside their transaction;
a search is two statements, between which documents are added.
`SearchAgreesWithDetail` ties the three together. `Vocabulary` is what words are taken
from; nothing depends on what it is.

### DesktopSession

`status`, `known`, `own`, `previous`, `resuming`, `timer` and the counters are the
state of `DesktopRealtimeSessionClient` and its envelope; `buffer`, `gaps` and
`limit` the recovery buffer; `link`, `up`, `down` the sockets, whose tails are lost
when a link is; `peer`, `pending`, `lastIndex` and `session` the server. Client:
`StartSession`, `Stop`, `Resume`, `Open`, `Closed`, `SendAudioChunk`, `SendAudioGap`,
`RequestLiveSuggestion` and `Receive` with one action for each message that matters.
Server: `ServerHello`, `ServerResume`, `ServerRefusesResume`, `ServerRefusesNumber`,
`ServerAssemblerRefuses`, `ServerAccepts`, `ServerHears`, `ServerUnexpected`,
`ServerEnds`, `ServerNotices`, `ServerHangsUp`. `LinkLost` and `ServerReports` come
from outside. Left out: suggestion cards, the backoff counter, the
synthetic audio and the gap for the time of a pause.

### MicrophoneCapture

One controller for each start of a meeting, one manager for all. A native command
is executed step by step (`AtStep`, `Proceed`) because it takes locks, sends into the
bounded queue and joins the worker; the device's callback reads the epoch and the
paused flag before it enqueues (`CallbackLooks`, `CallbackEnqueues`), the worker
reports, receives and processes in turn. Audio is counted in batches, of which
`Batches` make a chunk. `TimelineCovers` counts every batch: in a chunk, in a
gap, or on its way in one of the places that `InFlight` lists, among them the samples in the
queue (`WaitingIn`) and the chunks of events that have not arrived (`ChunksIn`).

### HostedSignIn

Attempts to sign in, completions of a callback and renewals by two panels are the
processes; the port of the listener, the pending verifier, the stored session and
the API token are what they share. `Restart` closes the application at any await.

| Code | Actions |
| --- | --- |
| `startHostedSignIn` | `StartHostedSignIn`, `OpenHostedAuthBrowser`, `SignInFails` |
| `wait_for_callback`, `handle_stream` | `Expire`, `OtherConnection`, `Redirect` |
| `completeHostedSignInWithCallback` | `Redirect` or `CompleteHostedSignIn`, then `ExchangeCode`, `SaveSignIn`, `FinishSignIn` |
| `renewStoredHostedSessionIfNeeded` and what its panel does with it | `Load`, `Refresh`, `ExchangeRenewed`, `SaveRenewed`, `UseRestored` |
| the review panel's buttons | `RequestDevToken`, `ClearReviewToken` |

`waits[a]` is what an attempt waits for: the browser (`opening`, or `refused` when its
native listener has failed meanwhile), the callback, or nothing. When the browser cannot be
opened the attempt is over and its listener is not: `listener` keeps the port until the
deadline. The deadline is looked at only while nobody has connected; the listener takes the
first connection, and if that sends nothing (`silent`), nothing ends its read.

The provider redeems a code once and may rotate refresh tokens (`rotates`); `accepted` are
those it takes. A token is a pair of its family, which is the sign-in it descends from, and its
own number. One that is used again after its rotation revokes its family (`Revoke`), as
Auth0 does, which `docs/architecture/authentication.md:20` names. `lost` has
the families of which a new token never reached the store, `raced` those that were revoked
because both panels used the same token; `RefreshUsable` speaks of the others.

## 3. Runs

| Run | What it shows | Instance | States |
| --- | --- | --- | --- |
| `sessions` | rows and sessions agree, numbers never rewind, `session.closed` follows the end of the row or an error | 2 connections, 2 sessions, 2 waiting handlers, failing writes | 573,000 |
| `principals` | the maps agree; refinement of `SessionLease`; no active session is out of reach | 2 users, 2 workspaces, 3 memberships, 1 waiting handler, socket errors | 279,000 |
| `live` | every `session.end` is answered | 2 connections, 2 sessions, 2 handlers, failing writes, fair | 558,000 |
| `suggestions` | all properties of the suggestions and the refinement of `SuggestionAdmission` | 1 session, 3 identifiers, 2 handlers | 56,000 |
| `desktop` | audio is accounted for, heard once and in order; counters agree; a reconnect whose link holds, a sign-in and a stop come to an end; codes and refresh tokens match | see below, fair | 119,000 |
| `services` | transcripts, provider stream, suggestion stream, documents, meetings, members, limits, shutdown | see below | 520,000 |
| `closed_connection` | *finding*: a session is created for a closed connection | 1 connection | |
| `end_not_stored` | *finding*: the row of a closed meeting stays active | 1 connection, 2 handlers | |
| `retried_request` | *finding*: a used request identifier hides an earlier cost | 2 identifiers, 1 handler | |
| `ownerless` | *finding*: a workspace without an owner | 2 users, 3 mutations | |
| `partial_stays` | *finding*: a partial segment that nothing supersedes | 1 stream, 3 chunks, 2 utterances | |
| `reconnect_given_up` | *finding*: a client that gives up after one failed reconnect | 3 connections | |

What each property says stands before its definition.

Why these bounds are enough.

- *Sessions.* Everything between sessions happens between two of them: the
  temporary one and the resumed one; everything between connections between the
  old owner and the new one. Two handlers may wait at once, which is what each
  race needs (an end with a resume, an end with a create).
  A connection is used once; a client that reconnects uses the other one.
  `MaxClientSeq` 2 is what a session needs to be started and then ended; where that
  does not matter it is 1, which gives old and new numbers. `MaxServerSeq` 2 lets a
  resume be behind, level and ahead of the server. No message is received for a
  session that reached `MaxServerSeq`; counters may pass it in continuations.
- *Faults* are a constant, so that each run says what goes wrong in it:
  `socket_error` (the `error` event, which starts the clean-up a second time),
  `store_failure` (a write is rejected, whether or not it was committed), and
  `repeated_hello` (a second `auth.hello` while the first one waits), which the
  desktop never sends and no run has. The theorems hold for every set of faults, and
  `Ownership` in particular with repeated hellos; `NoOrphanedSession` and the lease are
  stated for clients that do not repeat them.
- *Suggestions.* Sessions share nothing but handlers, so one session with two
  handlers shows every meeting of handlers. Three identifiers are one more than
  the cap of two; four time units are enough to admit both requests two apart and to
  set the clock back in between. The limit 3 is less than twice the worst case 2, so
  that it binds, and the estimate 3 of a refused input exceeds the worst case.
- *Transcripts* (`services`). Two connections are the old owner and the new one, each
  of which may resume any number of times with any number. `MaxServerSeq` 3 leaves
  two numbers after the first one: a final before a resume and one during or
  after it. One segment, heard by each processor and again by the one that replaces it,
  fills the window of 2. With two segments and `MaxServerSeq` 4 the same properties hold
  (5.9 million states), which takes too long for the committed configuration.
- *Provider stream.* Two streams of audio, four chunks and two utterances: a later
  utterance begins between any two chunks, also of the other stream, and each
  has interim results before, between and after.
- *Suggestion stream.* Bodies of up to three events out of the five kinds, with a rest
  that is empty, cut in the middle of a line or of an event; every way to cut them into
  pieces; budgets that one more character or one more source exceeds.
- *Documents.* A member and an administrator, documents without tags, with a tag of the
  member and with one of nobody, texts that are joined and that are split.
  `TopK` 1 makes ranks matter.
- *Meetings.* Two meetings that write the same identifier, at most two writes
  beside one deletion or clean-up at a time, each kind of note, each retention mode, and two
  creates at a time, so that a row can be inserted after a deletion (`MaxCreates`). `MeetingBounds` of
  `MCServices` leaves out what repeats itself: the policy is set once, between removals, and
  only for a segment; a meeting gets old, and a clean-up begins, only under a policy that asks for it;
  a second create and a second write come only before the policy is set. The theorems have none of these
  bounds.
- *Members.* Two users and three mutations are the smallest competition of two owners with
  a third change while one of them waits.
- *HTTP server.* A window of three units, of one and a half seconds, makes
  `Retry-After` round up; one bucket makes the sweep happen. `limits` moves the clock
  with a listener that stays open, `shutdown` stops the clock, and its two requests are one
  before and one after the signal, or both of them on either side.
- *Desktop session.* Two connections, so one reconnect. In the part `audio` the user sends nothing, and
  three chunks meet a buffer of two, which the policy reduces to one, so that chunks are
  dropped for either limit. In the part `messages` there is one chunk, and the user asks for
  a suggestion or ends the session on either connection, before and after what was
  announced (`MaxUserSeq` 3 is the first number after `session.start` and after
  `resume.request`).
- *Microphone.* A queue of one and chunks of two batches, so that a queue overflows and a
  batch waits in the resampler; two starts, two presses of pause and resume. The three
  parts `capture`, `resume` and `restart` divide these: audio with a pause and
  a device that works, a pause and a resume with a device that may fail, a second meeting. A device that fails
  while audio flows is in none of them.
- *Sign-in.* Two attempts and two callbacks, which is what it takes to mix them up, and three
  presses or restarts together: enough to sign in, restart, and have both panels renew.
- *Deadlock* is not checked: sockets are used once and counters bounded, so every
  instance may come to rest. That nobody waits for ever is what the liveness
  properties say.
- *Symmetry* is used in safety runs only; `LeaseSpec` and `AuthorizedNow` are checked
  with it, as they contain no fairness and their formulas name no element.

Fairness. Each continuation of a handler is weakly fair: the STT session and the provider
have timeouts of ten seconds, the embedding call has its own, and PostgreSQL
answers or drops the connection. The close callback of a socket is fair because
`ws` emits it, and a socket that is closing or failed is closed because `ws`
destroys it after its timeout. No client of the server and no network is assumed to be fair:
nothing forces a message, a connection or a resume. `EndIsAnswered` and
`FlightEnds` therefore start where the server has accepted a message. On the
desktop, the reconnect timer, the events of a socket and the server's handling of what has arrived are
fair (`Fairness` of `DesktopSession`); a connection may be refused or lost at any time. In
`MicrophoneCapture` the three threads and the answers of commands are fair,
the device is not. In `HostedSignIn` the listener's deadline is fair while no
connection is there, as the loop of `wait_for_callback` looks at it every 25 ms, and so are the
promises of the panels and the answer of the command that opens the browser, which may be an error;
the page in the browser, the user and whoever else connects to the port are not.

What holds only for some behaviours. `BudgetHolds`, `ShortfallBlocks` and the
abstract admission speak of sessions whose client does not repeat a request
identifier; `retried_request` is what happens to the others, and the
abstract specification calls them `lapsed`. `FinalsKept` speaks of chunks in the order of
their timestamps, `LastOwner` of members that no transaction overlooked,
`TimelineCovers` of a device that works,
`NoneTurnedAway` of clients that stay. `RefreshUsable` excludes families of which a new token was
lost, and those that both panels have raced for; section 4 says what becomes of them.
`ReviewIsComplete` says that a removed meeting stays removed only if it was settled when it
was deleted. `ReplayCovers` excludes the finals that another connection hears after the replay.
`Reattaches` speaks of a client whose next link is not lost, and `reconnect_given_up` is what
happens to the others. `SignInEnds` excludes a listener whose connection sends nothing.

## 4. Findings

1. `closed_connection`: `auth.hello` goes on after its awaits without looking at the
   socket. If the close event came first, the session it creates is active,
   belongs to a closed connection and stays so (`ws-server.ts:711`).
2. `end_not_stored`: `session.end` consults `sessionPersisted` while the `create` of
   `session.start` is awaited; the row is inserted afterwards and remains active
   (`ws-server.ts:1090`).
3. `retried_request`: the ledger replaces the row of a request identifier, and nothing
   refuses a used identifier (`usage-ledger.ts:136`).
4. `ownerless`: the mutation of a membership locks the rows that exist when it begins; one
   that was added while it waited is overwritten or removed unseen, and it may be that
   of the only owner (`identity-repository.ts:221`).
5. `partial_stays`: the identifier of a streamed segment depends on the chunk that was sent
   last, so a final result may not find its partial segment
   (`deepgram-stt-adapter.ts:376`).
6. `reconnect_given_up`: a close while reconnecting makes the client closed, and nothing tries
   again (`desktopRealtimeSession.ts:504`), where
   `docs/architecture/realtime_protocol.md:380` says "Retry with exponential backoff: 1s, 2s,
   4s, 8s, up to 30s."

Noticed and not counted as findings, because no document speaks of them, or, where one is
quoted, because no run is kept that shows them:

- *Realtime.* A resume marks the connection's session as
  persisted without asking whether it has a row (`ws-server.ts:796`), which is
  another way to `LifecycleIsStored`. `resumeSession` deletes whatever session the requesting
  connection holds, temporary or not (`session-manager.ts:140`). Suggestion
  messages may follow `session.closed`. A final that the old connection hears after the
  replay of a resume takes a number and is sent to the old socket (`ws-server.ts:319`), so that the
  client, whose next final carries a higher number, never asks for it, although
  `docs/architecture/realtime_protocol.md:403` promises the replay of missed finals; it is in the
  timeline, which `KeptIsStored` says, and `strays` in the model. A final that the new connection
  hears while its resume waits for the store is sent, and then replayed on the same connection
  (`ws-server.ts:804`). A resume replaces the processor, which forgets which segments were final
  (`ws-server.ts:792`). A provider session that failed to start is kept as a rejected promise
  (`ws-server.ts:555`). The replay window and the transcript context of a session are never freed.
- *Desktop session.* After a resume the client counts its messages from one again
  (`desktopRealtimeSession.ts:199`) while the server goes on from the largest number it
  saw, so what follows is refused until the numbers catch up. Only a new
  start resets the counter of reconnect attempts, so that the delays grow from one reconnect to
  a later one.
- *Microphone.* An error event before the answer to a start, or a state message after the
  error, brings a failed controller back (`microphoneCaptureController.ts:82`). A start
  while an earlier one is unanswered is refused as already active; a stop stops
  whichever stream is active.
- *Sign-in.* A session without a refresh token is stored as `null` and refused when it is loaded
  (`secureTokenStorage.ts:81`), so that the sign-in is not kept although the store is available
  (`docs/architecture/authentication.md:62` says that the desktop stores its session tokens, and line 85
  names an unavailable store as the case in which it does not). If the browser cannot be opened the attempt is
  over and its listener keeps the port for the rest of its 120 seconds, so that the retry which
  `authentication.md:79` and `failure_modes.md:42` allow is refused. A connection that the
  listener accepts and that sends nothing is read without a timeout
  (`hosted_auth_callback.rs:62`). A completion that fails keeps the pending verifier, where
  `authentication.md:80` discards it. Two panels that renew side by side use the same refresh token;
  a provider that rotates then revokes its family, and the stored session cannot be renewed
  any more (`App.tsx:1224`). A second attempt within the listener's 120 seconds finds the port taken, and its
  callback ends the first attempt's listener. The catch of an attempt clears the pending
  verifier of a newer one. A renewal that finishes after a sign-out stores the session again, and one that
  finishes after a newer sign-in overwrites it. Two completions side by side may mix token and workspace.
  A rotated refresh token is lost when the exchange behind it fails.
- *Deepgram.* `close` marks the session closed before it asks for the last results, which
  are then dropped. Both streams of audio share one provider session. A provider that closes without an
  error is not reported.
- *Meetings.* `session.start` creates again as long as no create was answered
  (`ws-server.ts:841-855`), so that a meeting which was deleted meanwhile comes back as an empty one.
  Nothing under `src` calls the clean-up. Two deletions at a time both succeed and
  both are audited; `deleted_count` counts what was selected. The statements of a detail may straddle a
  deletion. The identifiers of the deterministic adapter are the same in every
  meeting, and the second meeting's write is refused.
- *API.* A second signal during the shutdown ends the process with 1. A fixed window lets twice
  the limit through around its end.
- *Knowledge.* Embeddings are computed inside the transaction. A word longer than a chunk
  exceeds it. A document whose tags are all blank is visible to everyone. Rows
  found by similarity are limited before they are ranked, so that the PostgreSQL and the in-memory
  repository may rank differently.
- *AI orchestrator.* A character that does not fit the output budget is dropped and
  a later, smaller one is still appended. The budget cuts the newest end of the transcript. Events
  that end with CRLF are never recognised. A chat answer that is cut after some content counts as complete.

## 5. Proofs

The theorems hold for every value of the constants that satisfies the assumption of the
module, which TLC evaluates in each run. The assumptions say little: numbers are natural
numbers, `None` and its like are nothing else, and

- `SessionsAssumption`: memberships are pairs of users and workspaces;
- `SuggestionsAssumption`: the cap is positive;
- `DeliveryAssumption`: the replay window has room for one final (the code's has 1000), and
  the connections of workspaces that retain transcripts are connections;
- `StreamAssumption`: there is a timestamp, as the first chunk has one;
- `MembershipAssumption`: the founder is a user; `RecordAssumption`: the default is a mode;
- `ApiAssumption`: window, limit and second are positive, and only finitely many requests are
  made, so that they can be counted;
- `SuggestionStreamAssumption`: the budgets and the length of the warning are positive, a body
  consists of data lines and line ends, texts of characters;
- `KnowledgeAssumption`: `TopK`, the length of a word and that of a chunk (900 in the code) are
  positive, and a text consists of paragraphs, none of which is empty, since the code drops
  those first;
- `DesktopAssumption`: there is a connection; `MicrophoneAssumption`: a chunk has a batch and
  the queue a place; `SignInAssumption`: nothing else.

No other set is assumed finite. A bound such as `MaxChunks` is any natural number, and no
theorem depends on how large. Each module of proofs has an inductive invariant; what follows
names its parts and says why the property is not inductive without them.

**Sessions** (`RealtimeSessionsProofs`). `OwnershipConsistent` is inductive with
`TypeOK`; each handler that moves a session clears the previous owner's mapping
and then sets the new one, an order that matters when both are the same
connection. The others need more:

- `EndedRowNotLive` needs `EndedFirst`: a handler that is about to write the end
  of a row works for a session that is over, and a row or a waiting handler
  belongs to a session that was issued. It is stable because ends are final.
- `NoOrphanedSession` and the lease need `AttachedOnce`: an active session is
  what its connection is mapped to, the connection of a disconnected one is mapped
  to nothing, and a hello that waits is alone on a connection that is not yet
  authenticated.
- `RowEndsBeforeClosed` needs `KnownPersisted`: if a connection that attends to a
  session does not know that it is persisted, it is the only such connection, a
  create that waits is its own, and an active row has been reported as failed.
- `SequencesNeverRewind` follows from `TypeOK`, which keeps counters natural
  numbers, and from the maximum that a resume takes.
- `ImplementsLease` maps a session to its holder and principal. Every action is
  an opening, a detachment, a take-over, the end of a lease, or a stutter.

`SessionLeaseProofs` proves of the abstract specification that a connection holds
one session at most and a live one only.

**Suggestions** (`LiveSuggestionsProofs`). The proof shows first that every
action of a handler has one of three shapes: it *begins* (`Reserve`), *stays* or
*stops*. From these `Serialized` follows for any number of handlers, and with it
that nobody else touches what a handler read. Then:

- `Reserved`: the count and the time in the hand of a waiting lookup are still
  those of the guardrail. It gives `Debounced` and, with the next, `RequestCap`.
- `Counted`: every call of the provider was counted before.
- `Unblocked`: no handler works for a blocked session, hence `FailsClosed`.
- `FreshRows`: a row belongs to a request that was counted, and the request that is
  worked on has none, so that `Upsert` adds to the total and replaces nothing.
- `Paid`: what was paid is on record, or about to be, or the session is over, and
  while a request is worked on the worst case still fits the limit. It gives
  `BudgetHolds` and `ShortfallBlocks`.
- `ImplementsAdmission` maps `Count` to the abstract start, the end of a stream
  and of a handler to a settlement, and a lookup that fails, or a deletion, to a
  freeze.

**The API** (`ApiProofs`).

- *Members.* A mutation decides on roles that it read, one row at a time, while others wait
  for the same rows. `LockedIsCurrent` says that a row which a transaction has locked still has
  the role that it found, since the lock keeps the others away; `UnreadBeforeLocked` that what
  is not locked was not read, and `NothingBefore` that there is no row before the founder
  signs in. With them `LastOwner` is inductive: whoever takes an owner away has the rows of all
  owners locked and found another one, unless one was added unseen (`overlooked`). An audited
  commit finds the actor's role as it was read, hence `AuthorizedNow`, an action property.
- *Meetings.* `ReviewIsComplete` needs `Final` (a meeting that was settled at its removal has
  started and is settled) so that nothing comes back, with `StartedFirst` (what has, had or
  will lose a row has started) for it, and `UpdatesItsRow` (a write that found
  its row updates that row, or its meeting was removed) so that no meeting loses a note to
  another. `Referenced` is the foreign key.
- *Server.* `PromiseCoversWindow`: whoever was refused was promised at least the end of the
  window that its bucket still has. The lemma `RoundedUp` is why rounding to seconds does not
  break that; a swept bucket admits anyway. It gives `RetryAfterHonoured`.
  `NoneTurnedAway` needs `PoolsLast` (the pools end behind the server), `ClosedIsQuiet` (no
  client waits for a server that is closed, which also keeps further requests from arriving)
  and `ExitLast`; a request that meets a pool that ends is thereby one whose client left.

**Transcripts** (`TranscriptProofs`). `ReplayCovers` speaks of a connection whose resume is
through. `Covered` says it of every attached connection except those whose resume *with the
number asked for* still waits: several resumes of one connection may wait for the store, and
only the latest to start counts: a final behind that number was sent, or a handler waits that will
replay it (`WillReplay`), whoever heard it meanwhile. `FromBehind` says that no handler was asked for
numbers to come, so that what is heard while one waits is behind its number. `AttachedLink` excludes that a connection becomes open after
it was attached. `ClosedSuppression` needs `WindowBehind` (numbers only grow) and
`FinalIsEnded` (a session with a final number takes no more). `KeptIsStored` is inductive with
the types.

`FinalsKept`: as long as chunks come in the order of their timestamps, a segment's identifier
is the timestamp of the latest chunk, which grows, plus the offset of its utterance, which
grows from each utterance to the next (`InTurn`). So a segment never lies ahead of where the
next result of its utterance would be, and the first result of a new utterance lies ahead of
all of them (`Behind`); hence it hits no final segment and is not before `lastStart`.

**Desktop session** (`DesktopSessionProofs`). The same invariant, `DesktopInv`, gives the
three safety properties and the types:

- `AudioInv`: the chunks in the buffer are in order and behind everything that was sent, and a
  chunk that was dropped no longer waits. It contains `Accounted`.
- `UpInv`: what is on its way on a connection. Bytes follow their announcement (`Paired`), in
  the order of capture (`Rising`) also from one connection to the next; every number and every
  counter in it is known to the client, and a `resume.request` names an earlier connection
  (`Counted`). `Expected`: a server that waits for bytes finds them next.
- `HeardBefore`: what was heard was captured before anything that the owner of the session, or
  a later connection, still has on its way. That is why the old connection, whose audio may
  still arrive after the session moved, cannot break the order: it is not heard any more. With
  `Expected` it gives `HeardInOrder`.
- `CountersAgree` follows from `Counted`, whichever message or resume the server takes.

**Microphone** (`DesktopProofs`). Two invariants, one on top of the other:

- *Silence.* `PauseIsSilent` is about the first event on its way, but the pause may be
  overtaken anywhere between callback and controller. A place in the queue is *audible* when
  the controller is not paused once all before it has arrived; `EventsInv`, `QueueInv`,
  `CallbackInv` and `PauseInv` say that a chunk, samples of the current epoch, the samples in
  the hand of the callback, and what the worker is processing are at such places. Samples of an
  earlier epoch may be anywhere: the worker turns them into a gap.
- *Timeline.* That a batch is handed on from place to place, and never lost, is `TimeInv`; its
  proof counts sets, for which the module has lemmas about `WaitingIn` and `ChunksIn`. It
  remains that no controller ignores a chunk of a stream that works. A controller is started
  once (`StartsInv`), so that whatever refers to a stream belongs to a controller whose start
  was carried out (`SettledInv`); whoever learned of a failure has no stream that works, now or
  later (`DoomedInv`); and the worker ends only after a stop or a failure (`EndedInv`).

`PartsTypeCorrect` puts the three parts together: a step of `MCDesktop` is a step of one part
and a stutter of the others, so that every invariant of a part holds in the whole.

**Sign-in** (`DesktopProofs`). `BoundToAttempt` is inductive with the types, since a
completion sends a code only if the state in the URL is that of its own attempt. `RefreshUsable` speaks of rest; on the way there,
`SignedAlone` says that nobody else holds a token of the family which a completion is about to store, and
`RenewedAlone` that under rotation nobody holds the new token of a renewal, and that it is of the
family of what was used. `LoadedUsable` is about reuse: a token that a panel is about to use is accepted,
or the other panel has used it, so that a revocation is either of a family already lost, or a race.
`Minted` keeps numbers of tokens below the number of the next. So no panel can use up
what another is about to store, and `StoredUsable` holds when the last one is through.

**Suggestion stream** (`ServicesProofs`). What the budgets and the reading of a stream
compute is defined by recursion over texts, and the library's induction theorems take an
operator as a parameter, which the installed provers cannot instantiate. The module gets its
inductions from a *set* instead: by `WellFoundedInduction` a nonempty set of natural numbers
has a least element (`Least`), so a property of the numbers up to `n` that holds of 0 and is
handed on holds of all (`Induction`). From that follow `Recursion`, that an equation
`f[k] = g[k][f[k - 1]]` has a solution, and `SequenceInduction`, which goes by `Append`. With them:

- The tokens and the units of a text are *measures*: natural numbers that grow with the
  text, and `TokensAppend` and `UnitsAppend` say by how much. `TruncateToTokenBudget` is the
  longest prefix within the budget and keeps a text that fits; so does `SliceUnits`, except
  that it may end in half of a character. That half has three bytes where the character had
  four, so a slice of what is within the budget of tokens is so too, although the slice is
  not a prefix.
- `SourcesFit`: with the sources up to the n-th, what is left of the budget and what
  `SourceTokens` measures are together no more than the budget (`AddSourceFits`), and none
  of the sources included is empty. A source that is skipped has its separator subtracted
  nevertheless, so this is not an equation.
- `TokensAddUp` speaks of a call that is complete, `SuggestionInv` of any call: as long as
  what was said is within the limits, it is the content followed by the text in the buffer
  and in the rest of the body. So no step may lose a character wherever the pieces are cut:
  `EventAdds` says that an event adds its text, and `OnlyConcat` that the text of what was
  put together is the texts put together. A prefix of what is within the limits is so too
  (`WithinPrefix`), hence what was truncated is all of it.

**Knowledge** (`ServicesProofs`). `SearchAgreesWithDetail` compares an answer with the
library of now, which may have grown since the statements that found it. `KnowledgeInv`
therefore has:

- `Remembered`: what the statement with the terms found is what the same statement finds
  *now* among the documents of its time. It is stable because a document, once stored,
  neither changes nor goes (`LibraryGrows`, `RowsStay`).
- `Agrees`: the answer with the same reading of the library. `AnswerAgrees` is its step:
  `StoredTagsStay` says that the tags of a stored document are normalised, so that
  `AccessPredicate`, which compares them as they are, selects exactly what `CanAccess` lets
  through, which normalises them again (`PredicateIsCheck`); that is why the mutant that
  stores the tags as written breaks the property.
- `LibraryOK`: documents are what the chunking makes. `ChunksOK` proves of it, for every
  text, that no chunk is empty and none is too long unless it is one word. What needs care
  there is that the counted length of a chunk, with two characters for an empty line, is at
  least the length of its words.

`ServicesTypeCorrect` puts the seven parts of `MCServices` together, as `PartsTypeCorrect`
does for the desktop: `ServicesInv` is the conjunction of the seven inductive invariants, a
step is a step of one part and a stutter of the others.

TLC checked `SuggestionInv` and `KnowledgeInv` as invariants of the `services` run before
they were proved.

Only model-checked: the liveness properties `EndIsAnswered`, `FlightEnds`, `Reattaches`,
`MicrophoneReleased` and `SignInEnds`. Liveness under fairness is out of reach of the
prover, and so is ENABLED. Every invariant and every action property that a passing run
checks is the statement of a theorem.

Theorems without a run of their own: `EndIsFinalHolds` and `RequestCapHolds` hold by proof alone,
`LeaseIsExclusive` speaks of the abstract lease, and the types of the parts are checked as
conjuncts of `PartsTypeOK` and `ServicesTypeOK`. That `total` is the sum of the rows holds by the
form of `Upsert`: the model keeps the sum as a variable, since a sum over a set would need an
induction of its own.

## 6. Plan

Built: every component that keeps state. No module declares a RECURSIVE operator, so
that each can be proved about, and each safety property of the runs is proved. What is left:

1. An abstract specification of the memberships, in which a mutation is one step. It is refined
   only by behaviours in which nothing is overlooked; `LastOwner` and `LockedIsCurrent` are what its
   refinement needs.
2. One specification of a provider's stream for `DeepgramStream` and `TranscriptDelivery`, whose
   provider is any source of events so far.

The suite is to stay at a dozen runs, so that all of it can be repeated with each
change of the code. That is why the smaller modules share two runs.

## 7. Not modelled

The model providers, Deepgram, the identity provider, the browser and PostgreSQL
appear only as answers, failures and timeouts, and the transactions of PostgreSQL as its documentation
says of READ COMMITTED. The in-memory repositories, which the tests and a development server use, do in
one step what the modelled ones do in a transaction. Cryptography and the verification of
tokens are pure functions (`packages/auth`). The desktop interface renders snapshots; only its
handlers that start, stop, sign in and renew are modelled. Probes, crash diagnostics and update policy
share no state with anything. Of the message validation in `packages/contracts` only
the outcome, accepted or rejected, matters here; environment parsing, schema
declarations and telemetry keep no state. The arithmetic of the resampler and the similarity of
embeddings are numbers that no property here tells apart.
