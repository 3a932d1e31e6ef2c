---------------------------- MODULE MeetingRecords ----------------------------
(***************************************************************************)
(* The rows that a meeting leaves in PostgreSQL, for one workspace: what   *)
(* the realtime server writes (PgSessionStore, PgTranscriptTimelineSink,   *)
(* PgSuggestionSink), what the API shows and removes                       *)
(* (PgMeetingReviewRepository), and the retention policy that both read.   *)
(*                                                                         *)
(* A note is a segment, a gap or a suggestion.  Its identifier is the      *)
(* primary key of its table.  That of a gap contains its meeting; that of  *)
(* a suggestion comes from the client, and the deterministic               *)
(* speech-to-text adapter gives the segments of every meeting the same.    *)
(* Each operation is a transaction at READ COMMITTED, so that others commit*)
(* between its statements.  A note references its meeting, and goes with   *)
(* it.                                                                     *)
(***************************************************************************)
EXTENDS Naturals, Sequences

CONSTANTS
  Meetings,
  Notes,
  Default,    \* retentionDefaults.individual
  MaxCreates, \* bound: rows of one meeting being inserted at a time
  MaxWrites,  \* bound: notes written
  Nobody

Modes == {"live_only", "7_days", "indefinite"}

ASSUME RecordAssumption ==
  /\ Default \in Modes
  /\ MaxCreates \in Nat /\ MaxWrites \in Nat
  /\ Nobody \notin Meetings \cup Modes

VARIABLES
  policy,    \* workspace_policies.retention_mode, or none without a row
  running,   \* meetings with a realtime session
  creating,  \* how often the row of each meeting is being inserted
  persisted, \* running meetings with sessionPersisted
  known,     \* the policy of its connection, once it has started
  meeting,   \* meeting_sessions
  kind,      \* what each note is: a segment, a suggestion, or a gap of a meeting
  owner,     \* the meeting of the row of each note
  writes,    \* the transactions of the sinks, in the order they began
  removal,   \* a deletion or a clean-up that is at work
  stored,    \* history: notes whose write was answered without an error
  removed    \* history: whether each meeting was deleted, and if so, once it was settled

recordVars == <<policy, running, creating, persisted, known, meeting, kind, owner, writes,
                removal, stored, removed>>

notes == <<kind, owner, writes, stored>>

Written == [step |-> "over", meeting |-> Nobody, note |-> Nobody, exists |-> FALSE]

NoRemoval == [step |-> "none", ids |-> {}, mode |-> Default]

RecordsInit ==
  /\ policy = "none"
  /\ running = {} /\ persisted = {}
  /\ creating = [m \in Meetings |-> 0]
  /\ known = [m \in Meetings |-> Nobody]
  /\ meeting = [m \in Meetings |-> "none"]
  /\ kind \in [Notes -> {"segment", "suggestion"} \cup Meetings]
  /\ owner = [n \in Notes |-> Nobody]
  /\ writes = <<>>
  /\ removal = NoRemoval
  /\ stored = {}
  /\ removed = [m \in Meetings |-> "no"]

\* PgWorkspacePolicyResolver.resolve and resolveWorkspaceRetentionMode
Resolved == IF policy = "none" THEN Default ELSE policy

\* evaluateTranscriptTimelinePersistence
MayStore(mode) == mode # "live_only"

-----------------------------------------------------------------------------
(* Surroundings *)

\* Somebody sets or removes the policy of the workspace; a row with the default decides
\* as none does.
SetPolicy(p) ==
  /\ policy' = IF p = Default THEN "none" ELSE p
  /\ UNCHANGED <<notes, running, creating, persisted, known, meeting, removal, removed>>

\* A meeting ended more than seven days ago.
Ages(m) ==
  /\ meeting[m] = "ended"
  /\ meeting' = [meeting EXCEPT ![m] = "old"]
  /\ UNCHANGED <<notes, policy, running, creating, persisted, known, removal, removed>>

-----------------------------------------------------------------------------
(* The realtime server *)

\* session.start, on a connection that resolved the policy when it authenticated.  Another
\* one creates again as long as no create was answered.
StartMeeting(m) ==
  /\ known[m] = Nobody \/ m \in running \ persisted
  /\ creating[m] < MaxCreates
  /\ running' = running \cup {m}
  /\ creating' = [creating EXCEPT ![m] = @ + 1]
  /\ known' = [known EXCEPT ![m] = IF @ = Nobody THEN Resolved ELSE @]
  /\ UNCHANGED <<notes, policy, persisted, meeting, removal, removed>>

\* create inserts the row, of which its caller may not learn, or fails, as it does when
\* the row is there.
CreateMeeting(m) ==
  /\ creating[m] > 0
  /\ creating' = [creating EXCEPT ![m] = @ - 1]
  /\ \/ /\ meeting[m] = "none"
        /\ meeting' = [meeting EXCEPT ![m] = "active"]
        /\ persisted' \in {persisted, persisted \cup ({m} \cap running)}
     \/ UNCHANGED <<meeting, persisted>>
  /\ UNCHANGED <<notes, policy, running, known, removal, removed>>

\* Mutant: INSERT ... ON CONFLICT DO UPDATE.
EndUpserted(m) == [meeting EXCEPT ![m] = "ended"]

\* endSession: an UPDATE, which finds the row or does nothing.
EndUpdated(m) == [meeting EXCEPT ![m] = IF @ = "none" THEN @ ELSE "ended"]

\* updateSeqState is an UPDATE of the same row that changes nothing of the model; after it
\* the connection that resumed writes under the policy it resolved itself.  It takes the
\* meeting for created.
ResumeMeeting(m) ==
  /\ m \in running
  /\ known' = [known EXCEPT ![m] = Resolved]
  /\ persisted' = persisted \cup {m}
  /\ UNCHANGED <<notes, policy, running, creating, meeting, removal, removed>>

\* session.end updates the row if it takes the meeting for created, which may fail.
\* Nothing reads the flag and the policy of the connection any more.
EndMeeting(m) ==
  /\ m \in running
  /\ running' = running \ {m}
  /\ \/ m \in persisted /\ meeting' = EndUpdated(m)
     \/ UNCHANGED meeting
  /\ persisted' = persisted \ {m}
  /\ known' = [known EXCEPT ![m] = Default]
  /\ UNCHANGED <<notes, policy, creating, removal, removed>>

InScope(m, n) == owner[n] \in {m, Nobody}

\* The policy, and the SELECT that decides between INSERT and UPDATE.  A note of another
\* meeting is an error.
BeginWrite(m, n) ==
  /\ m \in running /\ Len(writes) < MaxWrites
  /\ MayStore(known[m])
  /\ InScope(m, n)
  /\ writes' = Append(writes, [step |-> "write", meeting |-> m, note |-> n,
                               exists |-> owner[n] = m])
  /\ UNCHANGED <<kind, policy, running, creating, persisted, known, meeting, owner, removal,
                 stored, removed>>

\* A final event.
RecordTranscriptEvent(m, n) == kind[n] = "segment" /\ BeginWrite(m, n)

RecordGap(m, n) == kind[n] = m /\ BeginWrite(m, n)

RecordSuggestion(m, n) == kind[n] = "suggestion" /\ BeginWrite(m, n)

\* The INSERT fails if the meeting is gone or somebody inserted the note meanwhile; the
\* UPDATE of a row that is gone is no error.
FinishWrite(i) ==
  /\ i \in 1..Len(writes) /\ writes[i].step = "write"
  /\ LET w == writes[i] IN
       /\ ~w.exists => meeting[w.meeting] # "none" /\ owner[w.note] = Nobody
       /\ owner' = IF w.exists THEN owner ELSE [owner EXCEPT ![w.note] = w.meeting]
       /\ stored' = stored \cup {<<w.meeting, w.note>>}
  /\ writes' = [writes EXCEPT ![i] = Written]
  /\ UNCHANGED <<kind, policy, running, creating, persisted, known, meeting, removal, removed>>

\* transcript_persistence_failed or suggestion_persistence_failed
WriteError(i) ==
  /\ i \in 1..Len(writes) /\ writes[i].step = "write"
  /\ writes' = [writes EXCEPT ![i] = Written]
  /\ UNCHANGED <<kind, policy, running, creating, persisted, known, meeting, owner, removal,
                 stored, removed>>

-----------------------------------------------------------------------------
(* The API *)

\* getMeetingDetail and exportMeeting, for a meeting with a row.
Review(m) == {n \in Notes : owner[n] = m}

\* deleteMeeting finds the row, and that its actor manages the workspace or created it.
BeginDelete(m) ==
  /\ removal = NoRemoval
  /\ meeting[m] # "none"
  /\ removal' = [NoRemoval EXCEPT !.step = "delete", !.ids = {m}]
  /\ UNCHANGED <<notes, policy, running, creating, persisted, known, meeting, removed>>

\* cleanupExpiredMeetings reads the policy,
BeginCleanup ==
  /\ removal = NoRemoval
  /\ removal' = [NoRemoval EXCEPT !.step = "select", !.mode = Resolved]
  /\ UNCHANGED <<notes, policy, running, creating, persisted, known, meeting, removed>>

\* retentionCutoff, for meetings that have ended.
Expired(m, mode) ==
  \/ mode = "live_only" /\ meeting[m] \in {"ended", "old"}
  \/ mode = "7_days" /\ meeting[m] = "old"

\* and then the meetings that are past it.
SelectExpired ==
  /\ removal.step = "select"
  /\ removal' = IF \E m \in Meetings : Expired(m, removal.mode)
                THEN [NoRemoval EXCEPT !.step = "delete",
                                       !.ids = {m \in Meetings : Expired(m, removal.mode)}]
                ELSE NoRemoval
  /\ UNCHANGED <<notes, policy, running, creating, persisted, known, meeting, removed>>

\* Nothing that was started goes on to create the row of m.
Settled(m) == creating[m] = 0 /\ m \notin running \ persisted

\* DELETE by identifier, which cascades to the notes.  Its rows may be gone by now.
Delete ==
  /\ removal.step = "delete"
  /\ meeting' = [m \in Meetings |-> IF m \in removal.ids THEN "none" ELSE meeting[m]]
  /\ owner' = [n \in Notes |-> IF owner[n] \in removal.ids THEN Nobody ELSE owner[n]]
  /\ removed' = [m \in Meetings |-> IF m \notin removal.ids THEN removed[m]
                                   ELSE IF Settled(m) THEN "final" ELSE "once"]
  /\ removal' = NoRemoval
  /\ UNCHANGED <<kind, policy, running, creating, persisted, known, writes, stored>>

-----------------------------------------------------------------------------
RecordsNext ==
  \/ \E p \in Modes : SetPolicy(p)
  \/ \E m \in Meetings :
       \/ Ages(m) \/ BeginDelete(m)
       \/ StartMeeting(m) \/ CreateMeeting(m) \/ ResumeMeeting(m) \/ EndMeeting(m)
       \/ \E n \in Notes :
            RecordTranscriptEvent(m, n) \/ RecordGap(m, n) \/ RecordSuggestion(m, n)
  \/ \E i \in 1..MaxWrites : FinishWrite(i) \/ WriteError(i)
  \/ BeginCleanup \/ SelectExpired \/ Delete

RecordsSpec == RecordsInit /\ [][RecordsNext]_recordVars

-----------------------------------------------------------------------------
(* Properties *)

\* Every variable stays in its range.
RecordsTypeOK ==
  /\ policy \in Modes \cup {"none"}
  /\ persisted \subseteq running /\ running \subseteq Meetings
  /\ creating \in [Meetings -> 0..MaxCreates]
  /\ known \in [Meetings -> Modes \cup {Nobody}]
  /\ meeting \in [Meetings -> {"none", "active", "ended", "old"}]
  /\ kind \in [Notes -> {"segment", "suggestion"} \cup Meetings]
  /\ owner \in [Notes -> Meetings \cup {Nobody}]
  /\ Len(writes) <= MaxWrites
  /\ removal \in [step : {"none", "select", "delete"}, ids : SUBSET Meetings, mode : Modes]
  /\ stored \subseteq Meetings \X Notes
  /\ removed \in [Meetings -> {"no", "once", "final"}]

\* The review of a meeting has every note that was stored for it without an error until
\* somebody removes it, whichever other meetings use the same identifiers.  If no create
\* is under way then, nor can be repeated, the meeting is gone for good, whatever its
\* realtime session still writes, and however deletions, clean-ups and changes of the
\* policy fall between the statements of a write.
ReviewIsComplete ==
  \A m \in Meetings :
    /\ removed[m] = "final" => meeting[m] = "none" /\ Review(m) = {}
    /\ removed[m] = "no" =>
         \A n \in Notes : <<m, n>> \in stored => meeting[m] # "none" /\ n \in Review(m)
=============================================================================
