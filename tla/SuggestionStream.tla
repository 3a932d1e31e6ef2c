--------------------------- MODULE SuggestionStream ---------------------------
(***************************************************************************)
(* One call of LiveSuggestionService.streamLiveSuggestion: its input within*)
(* the budgets, the server-sent events of the model, and what is yielded.  *)
(*                                                                         *)
(* A character is its number of UTF-8 bytes, which are its tokens; one of  *)
(* four bytes has two UTF-16 units, and its half is encoded with three.    *)
(* The body is a sequence of data lines and line ends, read in pieces; a   *)
(* data line is a character of text, or one of the events named below.     *)
(***************************************************************************)
EXTENDS Integers, Sequences

CONSTANTS
  Bodies,           \* what the provider may send
  SourceLists,      \* chunks for the context: sequences of [header, text]
  Transcripts,      \* lines of final segments, oldest first: sequences of characters
  MaxSourceTokens, MaxTranscriptTokens, MaxInputTokens, MaxOutputTokens,
  MaxTranscriptChars,
  MaxOutputChars,   \* of the prompt
  Warning           \* the length of the warning before the sources

Text == {1, 2, 3, 4}
Completed == 11  \* response.completed, or a finish_reason
Failed == 12     \* an error
Other == 13      \* [DONE], and what no provider looks for
End == 14        \* a line end
CrLf == 15       \* another line end

ASSUME SuggestionStreamAssumption ==
  /\ {MaxSourceTokens, MaxTranscriptTokens, MaxInputTokens, MaxOutputTokens,
      MaxTranscriptChars, MaxOutputChars, Warning} \subseteq Nat \ {0}
  /\ Bodies \subseteq Seq(Text \cup {Completed, Failed, Other, End, CrLf})
  /\ SourceLists \subseteq Seq([header : Nat, text : Seq(Text)])
  /\ Transcripts \subseteq Seq(Seq(Text))

VARIABLES
  api,       \* Responses or chat completions
  body,      \* what is still to be read
  said,      \* history: the text of the whole body
  context,   \* the transcript and the sources of the input
  phase,     \* of the call
  buffer,    \* what was read and not yet handled
  finished,  \* completed, or finished
  content,
  yielded    \* history: the tokens that were yielded, put together

suggestionVars == <<api, body, said, context, phase, buffer, finished, content, yielded>>

request == <<api, said, context>>

-----------------------------------------------------------------------------
(* Budgets *)

\* The sums of the first numbers of a sequence.
Sums(numbers) ==
  LET sum[n \in 0..Len(numbers)] == IF n = 0 THEN 0 ELSE sum[n - 1] + numbers[n]
  IN sum

Total(numbers) == Sums(numbers)[Len(numbers)]

EstimateTokenCount(text) == Total(text)

Units(text) == Total([i \in 1..Len(text) |-> IF text[i] = 4 THEN 2 ELSE 1])

\* The longest prefix within the budget.
TruncateToTokenBudget(text, max) ==
  SubSeq(text, 1, CHOOSE n \in 0..Len(text) :
    /\ EstimateTokenCount(SubSeq(text, 1, n)) <= max
    /\ n < Len(text) => EstimateTokenCount(SubSeq(text, 1, n + 1)) > max)

\* slice(0, max), which may leave half of a character.
SliceUnits(text, max) ==
  LET n == CHOOSE k \in 0..Len(text) :
             /\ Units(SubSeq(text, 1, k)) <= max
             /\ k < Len(text) => Units(SubSeq(text, 1, k + 1)) > max
      whole == SubSeq(text, 1, n)
  IN IF n < Len(text) /\ Units(whole) < max THEN Append(whole, 3) ELSE whole

\* assembleRollingTranscriptContext, from the newest line backwards; each has a line end.
AddLine(acc, line) ==
  IF acc.done \/ (Units(line) + 1 > acc.left /\ acc.text # <<>>)
  THEN [acc EXCEPT !.done = TRUE]
  ELSE LET used == IF Units(line) + 1 > acc.left THEN acc.left ELSE Units(line) + 1
           kept == SliceUnits(line, acc.left)
       IN [text |-> IF acc.text = <<>> THEN kept ELSE kept \o <<1>> \o acc.text,
           left |-> acc.left - used, done |-> used = acc.left]

TranscriptContext(lines) ==
  LET newest[n \in 0..Len(lines)] ==
        IF n = 0 THEN [text |-> <<>>, left |-> MaxTranscriptChars, done |-> FALSE]
        ELSE AddLine(newest[n - 1], lines[Len(lines) + 1 - n])
  IN TruncateToTokenBudget(newest[Len(lines)].text, MaxTranscriptTokens)

Separator == 2

\* Mutant: the line ends between the sources are not counted.
SeparatorIsFree == 0

SeparatorTokens == Separator

\* One chunk of assembleUntrustedSourceContext: as much of its text as fits behind its
\* header; one of which nothing fits is skipped.
AddSource(acc, chunk) ==
  IF acc.done \/ acc.left <= SeparatorTokens THEN [acc EXCEPT !.done = TRUE]
  ELSE LET room == acc.left - SeparatorTokens - chunk.header
           bounded == TruncateToTokenBudget(chunk.text, room)
       IN IF chunk.text = <<>> \/ room <= 0 \/ bounded = <<>>
          THEN [acc EXCEPT !.left = @ - SeparatorTokens]
          ELSE [done |-> FALSE, left |-> room - EstimateTokenCount(bounded),
                included |-> Append(acc.included, [header |-> chunk.header, text |-> bounded])]

NoSources == <<>>

UntrustedSourceContext(chunks) ==
  LET room[n \in 0..Len(chunks)] ==
        IF n = 0 THEN [done |-> FALSE, left |-> MaxSourceTokens - Warning, included |-> NoSources]
        ELSE AddSource(room[n - 1], chunks[n])
  IN IF Warning >= MaxSourceTokens THEN NoSources ELSE room[Len(chunks)].included

\* The size of the parts joined by empty lines, behind the warning.
SourceTokens(sources) ==
  IF sources = NoSources THEN 0
  ELSE Warning + Total([i \in 1..Len(sources) |->
                          Separator + sources[i].header + EstimateTokenCount(sources[i].text)])

\* measureLiveSuggestionInput; the instruction and the user's prompt, which is truncated
\* in the same way, are the rest of MaxInputTokens.
Measured(input) == EstimateTokenCount(input.transcript) + SourceTokens(input.sources)

-----------------------------------------------------------------------------
(* Server-sent events *)

\* The lines of one kind, in their order.
Only(lines, kind) ==
  LET chosen[n \in 0..Len(lines)] ==
        IF n = 0 THEN <<>>
        ELSE IF lines[n] \in kind THEN Append(chosen[n - 1], lines[n]) ELSE chosen[n - 1]
  IN chosen[Len(lines)]

TextOf(lines) == Only(lines, Text)

Contexts ==
  {[transcript |-> TranscriptContext(lines), sources |-> UntrustedSourceContext(chunks)] :
     lines \in Transcripts, chunks \in SourceLists}

SuggestionStreamInit ==
  /\ api \in {"responses", "chat"}
  /\ body \in Bodies
  /\ said = TextOf(body)
  /\ context \in Contexts
  /\ phase = IF Measured(context) > MaxInputTokens THEN "rejected" ELSE "request"
  /\ buffer = <<>>
  /\ finished = FALSE
  /\ content = <<>> /\ yielded = <<>>

\* The fetch of the transport: a response, or none that is ok, or none in time.
Respond ==
  /\ phase = "request"
  /\ phase' \in {"reading", "error"}
  /\ UNCHANGED <<request, body, buffer, finished, content, yielded>>

\* Where the buffer has an empty line: "\n\n".  With other line ends it has none.
Boundaries == {n \in 1..Len(buffer) - 1 : buffer[n] = End /\ buffer[n + 1] = End}

\* Mutant: the beginning of an event is not kept for the next piece.
OnlyPiece(piece) == piece

Buffered(piece) == buffer \o piece

\* reader.read: the next n lines and line ends.
ReadPiece(n) ==
  /\ phase = "reading" /\ Boundaries = {}
  /\ buffer' = Buffered(SubSeq(body, 1, n))
  /\ body' = SubSeq(body, n + 1, Len(body))
  /\ UNCHANGED <<request, phase, finished, content, yielded>>

DataLines(frame) == Only(frame, Text \cup {Completed, Failed, Other})

\* A token of the provider: what it adds within the budget of the content is yielded.
Token(text) ==
  LET bounded == SliceUnits(TruncateToTokenBudget(content \o text, MaxOutputTokens),
                            MaxOutputChars)
  IN /\ content' = bounded
     /\ yielded' = yielded \o SubSeq(bounded, Len(content) + 1, Len(bounded))

\* Two data lines in one event are not JSON.
Throws(data) == Len(data) > 1 \/ data = <<Failed>>

\* OpenAiResponsesLiveSuggestionProvider: response.completed.
ResponsesFinishes(data) == data = <<Completed>>

\* OpenAiChatCompletionsLiveSuggestionProvider: a finish_reason, or any content.
ChatFinishes(data) == data = <<Completed>> \/ TextOf(data) # <<>>

\* The loops of the provider and of the service.
Handle(data) ==
  /\ IF TextOf(data) # <<>> THEN Token(data) ELSE UNCHANGED <<content, yielded>>
  /\ finished' = (finished \/ IF api = "chat" THEN ChatFinishes(data) ELSE ResponsesFinishes(data))

\* The next event.
ParseFrame ==
  /\ phase = "reading" /\ Boundaries # {}
  /\ LET first == CHOOSE n \in Boundaries : \A k \in Boundaries : n <= k
         data == DataLines(SubSeq(buffer, 1, first - 1))
     IN IF Throws(data)
        THEN phase' = "error" /\ UNCHANGED <<buffer, finished, content, yielded>>
        ELSE /\ Handle(data)
             /\ buffer' = SubSeq(buffer, first + 2, Len(buffer))
             /\ UNCHANGED phase
  /\ UNCHANGED <<request, body>>

\* done: what is left in the buffer is an event as well.
EndOfBody ==
  /\ phase = "reading" /\ Boundaries = {} /\ body = <<>>
  /\ IF Throws(DataLines(buffer))
     THEN phase' = "error" /\ UNCHANGED <<finished, content, yielded>>
     ELSE Handle(DataLines(buffer)) /\ phase' = IF finished' THEN "complete" ELSE "error"
  /\ UNCHANGED <<request, body, buffer>>

\* The connection breaks, or the timer of the transport aborts it.
BreaksOff ==
  /\ phase = "reading"
  /\ phase' = "error"
  /\ UNCHANGED <<request, body, buffer, finished, content, yielded>>

\* Whoever reads the events stops, for instance because the request was cancelled.
Abandon ==
  /\ phase = "reading"
  /\ phase' = "abandoned"
  /\ UNCHANGED <<request, body, buffer, finished, content, yielded>>

SuggestionStreamNext ==
  \/ Respond \/ ParseFrame \/ EndOfBody \/ BreaksOff \/ Abandon
  \/ \E n \in 1..Len(body) : ReadPiece(n)

SuggestionStreamSpec ==
  SuggestionStreamInit /\ [][SuggestionStreamNext]_suggestionVars

-----------------------------------------------------------------------------
(* Properties *)

\* Every variable stays in its range.
SuggestionStreamTypeOK ==
  /\ api \in {"responses", "chat"}
  /\ phase \in {"rejected", "request", "reading", "complete", "error", "abandoned"}
  /\ \A text \in {said, content, yielded, context.transcript} :
       \A i \in DOMAIN text : text[i] \in Text
  /\ finished \in BOOLEAN

\* The tokens that were yielded add up to the content of the complete event, and to all
\* that the model said if its budget allows, however the body was cut into pieces.
TokensAddUp ==
  /\ content = yielded
  /\ EstimateTokenCount(content) <= MaxOutputTokens /\ Units(content) <= MaxOutputChars
  /\ /\ phase = "complete"
     /\ EstimateTokenCount(said) <= MaxOutputTokens /\ Units(said) <= MaxOutputChars
     => content = said

\* The sources that the model sees, with their headers, the warning and the empty lines
\* between them, are within their budget, and each that is cited is seen.
SourcesFit ==
  /\ SourceTokens(context.sources) <= MaxSourceTokens
  /\ \A i \in DOMAIN context.sources : context.sources[i].text # <<>>
=============================================================================
