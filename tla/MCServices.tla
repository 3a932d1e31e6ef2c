------------------------------ MODULE MCServices ------------------------------
(***************************************************************************)
(* The parts of the services side by side for TLC: the transcript of a     *)
(* session, the stream to its speech-to-text provider, the stream of a     *)
(* suggestion, the documents, the records of meetings, the members of a    *)
(* workspace, and the HTTP server, once with its clock and once with its   *)
(* shutdown.  They share no state in the models, so that a behaviour moves *)
(* one of them, and the others stay at an initial state.  Nor has the      *)
(* input of a suggestion to do with its answer: a call has one of the two. *)
(* The policy of the meetings is set once, and not where the note is a gap *)
(* or a suggestion, which are stored as a segment is; a meeting is old and *)
(* a clean-up begins only under a policy that asks for it.  Two notes are  *)
(* written, and two rows are inserted at a time, of one meeting or of two, *)
(* until the policy is set; one after that, and for a gap or a suggestion. *)
(***************************************************************************)
EXTENDS TranscriptDelivery, Memberships, DeepgramStream, MeetingRecords, ApiServer,
        Knowledge, SuggestionStream, TLC

CONSTANTS c1, c2, g1, i1, i2, m1, m2

VARIABLE part  \* the part that moves

MCStartOf == [s \in Segments |-> 1]

Interchangeable ==
  Permutations({c1, c2}) \cup Permutations({i1, i2}) \cup Permutations({m1, m2})

\* Documents: ann is a member, bob an administrator.
MCRoleOf == [u \in Readers |-> IF u = "ann" THEN "member" ELSE "admin"]

Tag(name, exact) == [tag |-> name, exact |-> exact]

MCTagLists == {{}, {Tag("ann", FALSE), Tag("blank", FALSE)}, {Tag("other", TRUE)}}

\* Two paragraphs that fit into a chunk, and one that is too long for it.
MCTexts == {<< <<"x">>, <<"y">> >>, << <<"x", "y", "x">> >>}

MCQueries == {{"x"}}

MCAllowedLists == {{1, 2}, {2}}

\* Suggestions: two events, and the rest of the body.
Frame(line) == <<line, End, End>>

MCBodies ==
  LET lines == {1, 4, Completed, Failed, Other}
  IN {Frame(a) \o Frame(b) \o rest : a \in lines, b \in lines,
        rest \in {<<>>, <<3>>, <<Completed>>, <<2, End>>, Frame(4)}}
     \cup {<<>>, <<1, CrLf, CrLf>>, <<1, CrLf, CrLf, Completed, CrLf, CrLf>>}

MCSourceLists ==
  LET chunks == {[header |-> 2, text |-> t] : t \in {<<>>, <<1>>, <<3, 2>>}}
                  \cup {[header |-> 7, text |-> <<1>>]}
  IN {<<>>} \cup {<<a, b>> : a \in chunks, b \in chunks}

MCTranscripts == {<<>>} \cup {<<a, <<2, 4, 4>>>> : a \in {<<1, 4>>, <<3>>}}

-----------------------------------------------------------------------------
Parts == {"transcript", "stream", "suggestion", "documents", "meetings", "members",
          "limits", "shutdown"}

NoContext == [transcript |-> <<>>, sources |-> <<>>]

\* A call that has no input and no answer, for the parts that have no suggestion.
NoCall ==
  /\ api = "chat" /\ body = <<>> /\ said = <<>>
  /\ context = NoContext
  /\ phase = "request" /\ buffer = <<>> /\ finished = FALSE
  /\ content = <<>> /\ yielded = <<>>

OfSegments == \A n \in Notes : kind[n] = "segment"

ServicesInit ==
  /\ Init /\ MembershipInit /\ StreamInit /\ RecordsInit /\ ApiInit /\ KnowledgeInit
  /\ \/ part = "suggestion" /\ SuggestionStreamInit
     \/ part \in Parts \ {"suggestion"} /\ NoCall
  /\ body # <<>> => context = NoContext
  /\ part # "meetings" => OfSegments

\* Without a policy nothing is old and nothing is cleaned up.
MeetingBounds ==
  LET most == IF policy' = "none" /\ OfSegments THEN 2 ELSE 1 IN
  /\ policy' # policy => policy = "none" /\ OfSegments /\ removal = NoRemoval
  /\ (\E m \in Meetings : meeting'[m] = "old") => policy = "7_days"
  /\ removal'.step = "select" => policy # "none"
  /\ Len(writes') <= most /\ creating'[m1] + creating'[m2] <= most

ServicesNext ==
  /\ UNCHANGED part
  /\ IF part = "transcript" THEN Next ELSE UNCHANGED vars
  /\ IF part = "stream" THEN StreamNext ELSE UNCHANGED streamVars
  /\ IF part = "suggestion" THEN SuggestionStreamNext ELSE UNCHANGED suggestionVars
  /\ IF part = "documents" THEN KnowledgeNext ELSE UNCHANGED knowledgeVars
  /\ IF part = "meetings" THEN RecordsNext ELSE UNCHANGED recordVars
  /\ MeetingBounds
  /\ IF part = "members" THEN MembershipNext ELSE UNCHANGED memberVars
  /\ IF part \in {"limits", "shutdown"} THEN ApiNext ELSE UNCHANGED apiVars
  /\ part = "limits" =>
       listener' = "open" /\ \A r \in Requests : step'[r] \in {"none", "answered"}
  /\ part = "shutdown" => now' = 0 /\ step'["q3"] = "none"

servicesVars == <<part, vars, memberVars, streamVars, recordVars, apiVars, knowledgeVars,
                  suggestionVars>>

ServicesSpec == ServicesInit /\ [][ServicesNext]_servicesVars

\* Every variable of the part that moves is in its range.
ServicesTypeOK ==
  CASE part = "transcript" -> TypeOK
    [] part = "stream" -> StreamTypeOK
    [] part = "suggestion" -> SuggestionStreamTypeOK
    [] part = "documents" -> KnowledgeTypeOK
    [] part = "meetings" -> RecordsTypeOK
    [] part = "members" -> MembershipTypeOK
    [] part \in {"limits", "shutdown"} -> ApiTypeOK
=============================================================================
