-------------------------- MODULE TranscriptProofs --------------------------
(***************************************************************************)
(* Proofs about the two halves of the transcript pipeline: what the server *)
(* delivers to the client (TranscriptDelivery), for every set of           *)
(* connections and segments, every number of handlers that wait and every  *)
(* window, and what it takes from the provider (DeepgramStream), for every *)
(* set of streams and every number of chunks, positions and utterances.    *)
(*                                                                         *)
(* Replay: what is behind the number asked for was sent, live or replayed, *)
(* or heard elsewhere after the replay, or a handler waits that will       *)
(* replay it (Covered): one whose number is not ahead of the session       *)
(* (FromBehind) replays whatever is heard while it waits.  A connection    *)
(* that was attached does not become open again (AttachedLink).            *)
(*                                                                         *)
(* Closing: numbers only grow (WindowBehind), and a session that has a     *)
(* final number has ended for good (FinalIsEnded).                         *)
(*                                                                         *)
(* Streams: a segment is named by the latest chunk and the offset of its   *)
(* utterance.  While the chunks come in the order of their timestamps, the *)
(* first only grows, and the second grows from each utterance to the next. *)
(* So every segment lies behind the place where the next result of its     *)
(* utterance would be (Behind), and a later utterance is ahead of all.     *)
(***************************************************************************)
EXTENDS TranscriptDelivery, DeepgramStream, TLAPS

-----------------------------------------------------------------------------
(* Delivery *)

Processor == [closed : BOOLEAN, open : SUBSET Segments, final : SUBSET Segments, lastStart : Nat]

ConnectionsOK ==
  /\ state \in {"active", "disconnected", "ended"}
  /\ attached \in Connections \cup {None}
  /\ state = "active" <=> attached # None
  /\ link \in [Connections -> {"idle", "open", "closed", "removed"}]
  /\ temporary \subseteq Connections
  /\ stt \in [Connections -> {"none", "open", "closed"}]
  /\ asked \in Nat

ProcessorsOK == processor \in [Connections -> Processor]

LogOK ==
  /\ serverSeq \in Nat /\ window \in Seq(Message)
  /\ live \subseteq Message /\ replayed \subseteq Message /\ strays \subseteq Nat
  /\ finalSeq \in Nat \cup {None}

JobsOK ==
  /\ jobs \in [Slots -> Job]
  /\ timeline \subseteq Segments /\ kept \subseteq Segments
  /\ \A i \in Slots :
       /\ jobs[i].stage # "idle" => jobs[i].conn # None
       /\ jobs[i].stage = "write" => jobs[i].segment # None

\* The attached connection was opened, and its removal is still to come.
AttachedLink == attached # None => link[attached] \in {"open", "closed"}

\* No message of the window has a number that was not given out yet.
WindowBehind == \A k \in 1..Len(window) : window[k].seq <= serverSeq

\* A session with a final number has ended.
FinalIsEnded == finalSeq # None => state = "ended"

\* A handler that waits for updateSeqState was not asked for numbers to come.
FromBehind == \A i \in Slots : At(i, "resume") => jobs[i].from <= serverSeq

\* What was sent to the attached connection, or heard by another one after its replay.
Sent == live \cup replayed \cup {m \in Message : m.seq \in strays}

\* A handler of the attached connection waits and will replay number n.
WillReplay(n) ==
  \E i \in Slots : At(i, "resume") /\ jobs[i].conn = attached /\ jobs[i].from < n

\* What is behind the number asked for was sent, or is about to be.
Covered ==
  attached # None /\ link[attached] = "open" =>
    \A k \in 1..Len(window) :
      window[k].seq > asked => window[k] \in Sent \/ WillReplay(window[k].seq)

TypeInv == ConnectionsOK /\ ProcessorsOK /\ LogOK /\ JobsOK

DeliveryInv ==
  TypeInv /\ AttachedLink /\ WindowBehind /\ FinalIsEnded /\ ClosedSuppression /\ FromBehind
    /\ Covered /\ KeptIsStored

-----------------------------------------------------------------------------
(* Helpers of the model *)

LEMMA NewProcessorTyped == NewProcessor \in Processor
BY DEF NewProcessor, Processor

LEMMA ProcessedTyped ==
  ASSUME NEW p \in Processor, NEW e \in Event
  PROVE  Processed(p, e) \in Processor
<1>1. e.segment \in Segments /\ StartOf[e.segment] \in Nat
  BY DeliveryAssumption DEF Event
<1>2. Larger(p.lastStart, StartOf[e.segment]) \in Nat
  BY <1>1 DEF Processor, Larger
<1>. QED
  BY <1>1, <1>2 DEF Processed, Processor

LEMMA IdleTyped == Idle \in Job /\ Idle.stage = "idle"
BY DEF Idle, Job

\* The window keeps messages that it had.
LEMMA BoundedKeeps ==
  ASSUME NEW w \in Seq(Message)
  PROVE  /\ Bounded(w) \in Seq(Message)
         /\ \A k \in 1..Len(Bounded(w)) : \E j \in 1..Len(w) : Bounded(w)[k] = w[j]
<1>. DEFINE from == IF Len(w) > Window THEN Len(w) - Window + 1 ELSE 1
<1>1. from \in 1..Len(w) + 1
  BY DeliveryAssumption
<1>2. Bounded(w) = SubSeq(w, from, Len(w))
  BY DEF Bounded
<1>. HIDE DEF from
<1>3. SubSeq(w, from, Len(w)) \in Seq(Message)
  BY <1>1
<1>4. ASSUME NEW k \in 1..Len(SubSeq(w, from, Len(w)))
      PROVE  \E j \in 1..Len(w) : SubSeq(w, from, Len(w))[k] = w[j]
  <2>1. from + k - 1 \in 1..Len(w) /\ SubSeq(w, from, Len(w))[k] = w[from + k - 1]
    BY <1>1, <1>4
  <2>. QED
    BY <2>1
<1>. QED
  BY <1>2, <1>3, <1>4

LEMMA JobFields ==
  ASSUME JobsOK, NEW i \in Slots
  PROVE  /\ jobs[i].conn \in Connections \cup {None}
         /\ jobs[i].segment \in Segments \cup {None}
         /\ jobs[i].from \in Nat
BY DEF JobsOK, Job

\* Handler i is done, and the others wait as before.
LEMMA DoneEffect ==
  ASSUME JobsOK, NEW i \in Slots, Done(i)
  PROVE  /\ jobs' \in [Slots -> Job]
         /\ jobs'[i].stage = "idle"
         /\ \A j \in Slots \ {i} : jobs'[j] = jobs[j]
         /\ \A j \in Slots :
              /\ jobs'[j].stage # "idle" => jobs'[j].conn # None
              /\ jobs'[j].stage = "write" => jobs'[j].segment # None
<1>1. jobs' = [jobs EXCEPT ![i] = Idle]
  BY DEF Done
<1>2. jobs' \in [Slots -> Job] /\ jobs'[i] = Idle /\ \A j \in Slots \ {i} : jobs'[j] = jobs[j]
  BY <1>1, IdleTyped DEF JobsOK
<1>. QED
  BY <1>2, IdleTyped DEF JobsOK

\* A free handler starts to wait.
LEMMA JobStarts ==
  ASSUME JobsOK, NEW i \in Slots, NEW job \in Job, jobs[i] = Idle,
         job.conn # None, job.stage = "write" => job.segment # None,
         jobs' = [jobs EXCEPT ![i] = job]
  PROVE  /\ jobs' \in [Slots -> Job]
         /\ jobs[i].stage = "idle" /\ jobs'[i] = job
         /\ \A j \in Slots \ {i} : jobs'[j] = jobs[j]
         /\ \A j \in Slots :
              /\ jobs'[j].stage # "idle" => jobs'[j].conn # None
              /\ jobs'[j].stage = "write" => jobs'[j].segment # None
<1>1. jobs' \in [Slots -> Job] /\ jobs'[i] = job /\ \A j \in Slots \ {i} : jobs'[j] = jobs[j]
  BY DEF JobsOK
<1>. QED
  BY <1>1, IdleTyped DEF JobsOK

\* A handler that waits for updateSeqState and stays replays what it was to replay.
LEMMA ReplayStays ==
  ASSUME attached' = attached, \A j \in Slots : At(j, "resume") => jobs'[j] = jobs[j],
         NEW n \in Nat, WillReplay(n)
  PROVE  WillReplay(n)'
BY DEF WillReplay, At

\* Handlers that were waiting and go on waiting are still behind the session.
LEMMA FromStays ==
  ASSUME FromBehind, serverSeq \in Nat, serverSeq' \in Nat, serverSeq' >= serverSeq,
         jobs \in [Slots -> Job],
         \A j \in Slots : At(j, "resume")' => jobs'[j] = jobs[j]
  PROVE  FromBehind'
<1>. SUFFICES ASSUME NEW j \in Slots, At(j, "resume")'
              PROVE  jobs'[j].from <= serverSeq'
  BY DEF FromBehind
<1>1. jobs'[j] = jobs[j] /\ At(j, "resume") /\ jobs[j].from \in Nat
  BY DEF At, Job
<1>. QED
  BY <1>1 DEF FromBehind

\* The messages of the window have numbers.
LEMMA WindowTyped ==
  ASSUME LogOK
  PROVE  \A k \in 1..Len(window) : window[k] \in Message /\ window[k].seq \in Nat
<1>1. \A k \in 1..Len(window) : window[k] \in Message
  BY DEF LogOK
<1>. QED
  BY <1>1 DEF Message

\* A step that sends nothing and leaves the connections, and the handlers that will
\* replay, as they are.
LEMMA CoveredStays ==
  ASSUME Covered, LogOK, UNCHANGED <<attached, link, window, asked, live, replayed, strays>>,
         \A j \in Slots : At(j, "resume") => jobs'[j] = jobs[j]
  PROVE  Covered'
<1>. SUFFICES ASSUME attached # None, link[attached] = "open",
                     NEW k \in 1..Len(window), window[k].seq > asked
              PROVE  window[k] \in Sent' \/ WillReplay(window[k].seq)'
  BY DEF Covered
<1>1. Sent' = Sent /\ window[k].seq \in Nat
  BY WindowTyped DEF Sent
<1>2. window[k] \in Sent \/ WillReplay(window[k].seq)
  BY DEF Covered
<1>. QED
  BY <1>1, <1>2, ReplayStays

-----------------------------------------------------------------------------
(* The steps *)

\* Neither the transcript nor the handlers change.
LEMMA SocketStep ==
  ASSUME DeliveryInv, ConnectionsOK', AttachedLink', ProcessorsOK',
         UNCHANGED <<serverSeq, window, jobs, storage, delivery, finalSeq>>,
         finalSeq # None => state' = "ended",
         \A c \in Connections : attached' = c /\ link'[c] = "open" =>
           attached = c /\ link[c] = "open"
  PROVE  DeliveryInv'
<1>. USE DEF DeliveryInv, TypeInv, storage, delivery
<1>1. LogOK' /\ JobsOK'
  BY DEF LogOK, JobsOK
<1>2. WindowBehind' /\ FinalIsEnded' /\ ClosedSuppression' /\ FromBehind' /\ KeptIsStored'
  BY DEF WindowBehind, FinalIsEnded, ClosedSuppression, FromBehind, KeptIsStored, At
<1>3. Covered'
  <2>. SUFFICES ASSUME attached' # None, link'[attached'] = "open",
                       NEW k \in 1..Len(window), window[k].seq > asked
                PROVE  window[k] \in Sent' \/ WillReplay(window[k].seq)'
    BY DEF Covered
  <2>1. Sent' = Sent
    BY DEF Sent
  <2>2. attached # None /\ attached' = attached /\ link[attached] = "open"
    BY DEF ConnectionsOK
  <2>3. window[k] \in Sent \/ WillReplay(window[k].seq)
    BY <2>2 DEF Covered
  <2>. QED
    BY <2>1, <2>2, <2>3, WindowTyped, ReplayStays
<1>. QED
  BY <1>1, <1>2, <1>3

LEMMA FinalStep ==
  ASSUME DeliveryInv, NEW i \in Slots, NEW c \in Connections, NEW g \in Segments,
         FinalHeard(i, c, g)
  PROVE  DeliveryInv'
<1>. USE DEF DeliveryInv, TypeInv
<1>0. PICK m \in Message, e \in Event :
      /\ m.seq = serverSeq + 1
      /\ state = "active"
      /\ processor' = [processor EXCEPT ![c] = Processed(@, e)]
      /\ serverSeq' = serverSeq + 1
      /\ window' = Bounded(Append(window, m))
      /\ live' = IF c = attached /\ link[c] = "open" THEN live \cup {m} ELSE live
      /\ strays' = IF c = attached \/ AwaitsReplay(attached) THEN strays
                   ELSE strays \cup {m.seq}
  <2>. DEFINE m == [seq |-> serverSeq + 1, segment |-> g]
              e == [type |-> "final", segment |-> g]
  <2>1. m \in Message /\ e \in Event /\ m.seq = serverSeq + 1
    BY DEF LogOK, Message, Event
  <2>2. /\ state = "active"
        /\ processor' = [processor EXCEPT ![c] = Processed(@, e)]
        /\ serverSeq' = serverSeq + 1
        /\ window' = Bounded(Append(window, m))
        /\ live' = IF c = attached /\ link[c] = "open" THEN live \cup {m} ELSE live
        /\ strays' = IF c = attached \/ AwaitsReplay(attached) THEN strays
                     ELSE strays \cup {m.seq}
    BY DEF FinalHeard, Heard, SendTranscript
  <2>. HIDE DEF m, e
  <2>. QED
    BY <2>1, <2>2
<1>1. /\ Persist(i, c, g)
      /\ UNCHANGED <<asked, replayed, state, attached, temporary, link, stt, timeline, finalSeq>>
  BY DEF FinalHeard, SendTranscript, session
<1>2. /\ window' \in Seq(Message)
      /\ \A k \in 1..Len(window') :
           window'[k] = m \/ \E j \in 1..Len(window) : window'[k] = window[j]
  <2>. DEFINE w == Append(window, m)
  <2>1. /\ w \in Seq(Message) /\ Len(w) = Len(window) + 1
        /\ w[Len(window) + 1] = m
        /\ \A j \in 1..Len(window) : w[j] = window[j]
        /\ window' = Bounded(w)
    BY <1>0 DEF LogOK
  <2>. HIDE DEF w
  <2>2. \A j \in 1..Len(window) + 1 : j = Len(window) + 1 \/ j \in 1..Len(window)
    BY DEF LogOK
  <2>3. /\ window' \in Seq(Message)
        /\ \A k \in 1..Len(window') :
             \E j \in 1..Len(window) + 1 : window'[k] = w[j]
    BY <2>1, BoundedKeeps
  <2>. QED
    BY <2>1, <2>2, <2>3
<1>3. ConnectionsOK' /\ AttachedLink' /\ FinalIsEnded'
  BY <1>0, <1>1 DEF ConnectionsOK, AttachedLink, FinalIsEnded
<1>4. ProcessorsOK'
  <2>1. Processed(processor[c], e) \in Processor
    BY ProcessedTyped DEF ProcessorsOK
  <2>. QED
    BY <1>0, <2>1 DEF ProcessorsOK
<1>5. LogOK'
  BY <1>0, <1>1, <1>2 DEF LogOK
<1>6. WindowBehind'
  <2>. SUFFICES ASSUME NEW k \in 1..Len(window')
                PROVE  window'[k].seq <= serverSeq + 1
    BY <1>0 DEF WindowBehind
  <2>1. CASE window'[k] = m
    BY <1>0, <2>1 DEF LogOK
  <2>2. ASSUME NEW j \in 1..Len(window), window'[k] = window[j]
        PROVE  window'[k].seq <= serverSeq + 1
    <3>1. window[j] \in Message
      BY DEF LogOK
    <3>2. window[j].seq <= serverSeq /\ window[j].seq \in Nat
      BY <3>1 DEF WindowBehind, Message
    <3>. QED
      BY <2>2, <3>2 DEF LogOK
  <2>. QED
    BY <1>2, <2>1, <2>2
<1>7. ClosedSuppression'
  BY <1>0, <1>1 DEF ClosedSuppression, FinalIsEnded
<1>8. /\ JobsOK' /\ KeptIsStored'
      /\ \A j \in Slots : At(j, "resume") => jobs'[j] = jobs[j]
      /\ \A j \in Slots : At(j, "resume")' => jobs'[j] = jobs[j]
  <2>1. CASE c \in Retaining
    <3>1. PICK job \in Job :
          /\ job.stage = "write" /\ job.segment = g /\ job.conn = c
          /\ jobs[i] = Idle /\ kept' = kept \cup {g}
          /\ jobs' = [jobs EXCEPT ![i] = job]
      BY <1>1, <2>1 DEF Persist, Job
    <3>2. c # None /\ g # None
      BY DeliveryAssumption
    <3>3. /\ jobs' \in [Slots -> Job]
          /\ jobs[i].stage = "idle" /\ jobs'[i] = job
          /\ \A j \in Slots \ {i} : jobs'[j] = jobs[j]
          /\ \A j \in Slots :
               /\ jobs'[j].stage # "idle" => jobs'[j].conn # None
               /\ jobs'[j].stage = "write" => jobs'[j].segment # None
      BY <3>1, <3>2, JobStarts
    <3>. QED
      BY <1>1, <3>1, <3>3 DEF JobsOK, KeptIsStored, At
  <2>2. CASE c \notin Retaining
    BY <1>1, <2>2 DEF Persist, JobsOK, KeptIsStored, At
  <2>. QED
    BY <2>1, <2>2
<1>9. FromBehind'
  BY <1>0, <1>8, FromStays DEF LogOK, JobsOK
<1>10. Covered'
  <2>. SUFFICES ASSUME attached # None, link[attached] = "open",
                       NEW k \in 1..Len(window'), window'[k].seq > asked
                PROVE  (window[k] \in Sent \/ WillReplay(window[k].seq))'
    BY <1>1 DEF Covered
  <2>1. Sent \subseteq Sent'
    BY <1>0, <1>1 DEF Sent
  <2>2. ASSUME NEW j \in 1..Len(window), window'[k] = window[j]
        PROVE  (window[k] \in Sent \/ WillReplay(window[k].seq))'
    <3>1. window[j] \in Sent \/ WillReplay(window[j].seq)
      BY <2>2 DEF Covered
    <3>. QED
      BY <1>1, <1>8, <2>1, <2>2, <3>1, WindowTyped, ReplayStays
  <2>3. CASE window'[k] = m /\ AwaitsReplay(attached)
    <3>1. PICK j \in Slots : At(j, "resume") /\ jobs[j].conn = attached
      BY <2>3 DEF AwaitsReplay
    <3>2. jobs[j].from <= serverSeq /\ jobs[j].from \in Nat
      BY <3>1 DEF FromBehind, JobsOK, Job
    <3>3. WillReplay(m.seq)
      BY <1>0, <3>1, <3>2 DEF WillReplay, LogOK
    <3>. QED
      BY <1>1, <1>8, <2>3, <3>3, ReplayStays DEF Message
  <2>4. CASE window'[k] = m /\ ~AwaitsReplay(attached)
    BY <1>0, <2>4 DEF Sent
  <2>. QED
    BY <1>2, <2>2, <2>3, <2>4
<1>. QED
  BY <1>3, <1>4, <1>5, <1>6, <1>7, <1>8, <1>9, <1>10

\* Handler i is done: what it wrote is in the timeline, or was rejected.
LEMMA WriteStep ==
  ASSUME DeliveryInv, NEW i \in Slots, WriteStored(i) \/ WriteFails(i)
  PROVE  DeliveryInv'
<1>. USE DEF DeliveryInv, TypeInv
<1>1. /\ At(i, "write") /\ Done(i)
      /\ \/ timeline' = timeline \cup {jobs[i].segment} /\ kept' = kept
         \/ /\ timeline' \in {timeline, timeline \cup {jobs[i].segment}}
            /\ kept' = kept \ {jobs[i].segment}
      /\ serverSeq' \in {serverSeq, serverSeq + 1}
      /\ UNCHANGED <<session, link, audio, window, delivery, finalSeq>>
  BY DEF WriteStored, WriteFails, log
<1>2. jobs[i].segment \in Segments
  BY <1>1, JobFields DEF JobsOK, At
<1>3. ConnectionsOK' /\ AttachedLink' /\ FinalIsEnded' /\ ProcessorsOK' /\ ClosedSuppression'
  BY <1>1 DEF ConnectionsOK, AttachedLink, FinalIsEnded, ProcessorsOK, ClosedSuppression,
              session, audio, delivery
<1>4. LogOK' /\ WindowBehind'
  <2>1. LogOK'
    BY <1>1 DEF LogOK, delivery
  <2>. QED
    BY <1>1, <2>1, WindowTyped DEF LogOK, WindowBehind
<1>5. /\ jobs' \in [Slots -> Job]
      /\ jobs'[i].stage = "idle"
      /\ \A j \in Slots \ {i} : jobs'[j] = jobs[j]
      /\ \A j \in Slots :
           /\ jobs'[j].stage # "idle" => jobs'[j].conn # None
           /\ jobs'[j].stage = "write" => jobs'[j].segment # None
  BY <1>1, DoneEffect
<1>6. JobsOK'
  BY <1>1, <1>2, <1>5 DEF JobsOK
<1>7. KeptIsStored'
  BY <1>1, <1>5 DEF KeptIsStored, At
<1>8. FromBehind' /\ Covered'
  <2>1. \A j \in Slots : At(j, "resume") \/ At(j, "resume")' => jobs'[j] = jobs[j]
    BY <1>1, <1>5 DEF At
  <2>2. serverSeq' \in Nat /\ serverSeq' >= serverSeq
    BY <1>1 DEF LogOK
  <2>3. FromBehind'
    BY <2>1, <2>2, FromStays DEF LogOK, JobsOK
  <2>. QED
    BY <1>1, <2>1, <2>3, CoveredStays DEF session, delivery
<1>. QED
  BY <1>3, <1>4, <1>6, <1>7, <1>8

LEMMA ResumeStep ==
  ASSUME DeliveryInv, NEW i \in Slots, NEW c \in Connections, NEW n \in 0..MaxServerSeq,
         ResumeRequest(i, c, n)
  PROVE  DeliveryInv'
<1>. USE DEF DeliveryInv, TypeInv
<1>1. /\ link[c] = "open" /\ state # "ended" /\ jobs[i] = Idle
      /\ state' = "active" /\ attached' = c /\ temporary' = temporary \ {c}
      /\ processor' = [processor EXCEPT ![c] = NewProcessor]
      /\ serverSeq' = Larger(serverSeq, n)
      /\ asked' = n /\ live' = {} /\ replayed' = {} /\ strays' = {}
      /\ UNCHANGED <<link, stt, window, timeline, kept, finalSeq>>
  BY DEF ResumeRequest, ResumedSeq, storage
<1>2. c # None /\ n \in Nat
  BY DeliveryAssumption
<1>3. PICK job \in Job :
        /\ job.stage = "resume" /\ job.conn = c /\ job.from = n
        /\ jobs' = [jobs EXCEPT ![i] = job]
  BY <1>2 DEF ResumeRequest, Job
<1>4. /\ jobs' \in [Slots -> Job]
      /\ jobs[i].stage = "idle" /\ jobs'[i] = job
      /\ \A j \in Slots \ {i} : jobs'[j] = jobs[j]
      /\ \A j \in Slots :
           /\ jobs'[j].stage # "idle" => jobs'[j].conn # None
           /\ jobs'[j].stage = "write" => jobs'[j].segment # None
  BY <1>1, <1>2, <1>3, JobStarts
<1>5. ConnectionsOK' /\ AttachedLink' /\ FinalIsEnded'
  BY <1>1, <1>2 DEF ConnectionsOK, AttachedLink, FinalIsEnded
<1>6. ProcessorsOK' /\ ClosedSuppression'
  BY <1>1, NewProcessorTyped DEF ProcessorsOK, ClosedSuppression
<1>7. LogOK' /\ WindowBehind'
  <2>1. serverSeq' \in Nat /\ serverSeq' >= serverSeq
    BY <1>1, <1>2 DEF LogOK, Larger
  <2>2. LogOK'
    BY <1>1, <2>1 DEF LogOK
  <2>. QED
    BY <1>1, <2>1, <2>2, WindowTyped DEF LogOK, WindowBehind
<1>8. JobsOK' /\ KeptIsStored'
  BY <1>1, <1>3, <1>4 DEF JobsOK, KeptIsStored, At
<1>9. FromBehind'
  <2>. SUFFICES ASSUME NEW j \in Slots, At(j, "resume")'
                PROVE  jobs'[j].from <= serverSeq'
    BY DEF FromBehind
  <2>1. serverSeq' \in Nat /\ serverSeq' >= serverSeq /\ serverSeq' >= n
    BY <1>1, <1>2 DEF LogOK, Larger
  <2>2. CASE j = i
    BY <1>3, <1>4, <2>1, <2>2
  <2>3. CASE j # i
    <3>1. jobs'[j] = jobs[j] /\ At(j, "resume") /\ jobs[j].from \in Nat
      BY <1>4, <2>3 DEF At, JobsOK, Job
    <3>. QED
      BY <2>1, <3>1 DEF FromBehind, LogOK
  <2>. QED
    BY <2>2, <2>3
<1>10. Covered'
  BY <1>1, <1>3, <1>4 DEF Covered, WillReplay, At
<1>. QED
  BY <1>5, <1>6, <1>7, <1>8, <1>9, <1>10

LEMMA ReplayStep ==
  ASSUME DeliveryInv, NEW i \in Slots, ResumeStored(i)
  PROVE  DeliveryInv'
<1>. USE DEF DeliveryInv, TypeInv
<1>1. /\ At(i, "resume") /\ Done(i)
      /\ serverSeq' \in {serverSeq, serverSeq + 1}
      /\ replayed' = IF jobs[i].conn = attached /\ link[jobs[i].conn] = "open"
                     THEN replayed \cup Replayable(jobs[i].from)
                     ELSE replayed
      /\ UNCHANGED <<state, attached, temporary, link, processor, stt, window, timeline, kept,
                     asked, live, strays, finalSeq>>
  BY DEF ResumeStored, session, audio, storage
<1>2. \A k \in 1..Len(window) : window[k] \in Message /\ window[k].seq \in Nat
  BY WindowTyped
<1>3. /\ jobs' \in [Slots -> Job]
      /\ jobs'[i].stage = "idle"
      /\ \A j \in Slots \ {i} : jobs'[j] = jobs[j]
      /\ \A j \in Slots :
           /\ jobs'[j].stage # "idle" => jobs'[j].conn # None
           /\ jobs'[j].stage = "write" => jobs'[j].segment # None
  BY <1>1, DoneEffect
<1>4. /\ ConnectionsOK' /\ AttachedLink' /\ FinalIsEnded' /\ ProcessorsOK'
      /\ ClosedSuppression'
  BY <1>1 DEF ConnectionsOK, AttachedLink, FinalIsEnded, ProcessorsOK, ClosedSuppression
<1>5. LogOK'
  <2>1. Replayable(jobs[i].from) \subseteq Message
    BY <1>2 DEF Replayable
  <2>. QED
    BY <1>1, <2>1 DEF LogOK
<1>6. WindowBehind'
  BY <1>1, <1>2 DEF LogOK, WindowBehind
<1>7. JobsOK' /\ KeptIsStored'
  BY <1>1, <1>3 DEF JobsOK, KeptIsStored, At
<1>8. FromBehind'
  <2>1. \A j \in Slots : At(j, "resume")' => jobs'[j] = jobs[j]
    BY <1>3 DEF At
  <2>. QED
    BY <1>1, <2>1, FromStays DEF LogOK, JobsOK
<1>9. Covered'
  <2>. SUFFICES ASSUME attached # None, link[attached] = "open",
                       NEW k \in 1..Len(window), window[k].seq > asked
                PROVE  window[k] \in Sent' \/ WillReplay(window[k].seq)'
    BY <1>1 DEF Covered
  <2>1. CASE window[k] \in Sent
    BY <1>1, <2>1 DEF Sent
  <2>2. ASSUME NEW j \in Slots, At(j, "resume"), jobs[j].conn = attached,
               jobs[j].from < window[k].seq
        PROVE  window[k] \in Sent' \/ WillReplay(window[k].seq)'
    <3>1. CASE j = i
      <4>1. window[k] \in Replayable(jobs[i].from)
        BY <2>2, <3>1 DEF Replayable
      <4>. QED
        BY <1>1, <2>2, <3>1, <4>1 DEF Sent
    <3>2. CASE j # i
      BY <1>1, <1>3, <2>2, <3>2 DEF WillReplay, At
    <3>. QED
      BY <3>1, <3>2
  <2>. QED
    BY <2>1, <2>2 DEF Covered, WillReplay
<1>. QED
  BY <1>4, <1>5, <1>6, <1>7, <1>8, <1>9

LEMMA EndStep ==
  ASSUME DeliveryInv, NEW i \in Slots, EndSession(i)
  PROVE  DeliveryInv'
<1>. USE DEF DeliveryInv, TypeInv
<1>1. /\ At(i, "end") /\ Done(i) /\ state' = "ended" /\ attached' = None
      /\ serverSeq' = serverSeq + 1 /\ finalSeq' = serverSeq + 1
      /\ UNCHANGED <<temporary, link, processor, stt, window, timeline, kept, asked, live,
                     replayed, strays>>
  BY DEF EndSession, audio, storage, delivery
<1>2. \A k \in 1..Len(window) : window[k] \in Message /\ window[k].seq \in Nat
  BY WindowTyped
<1>3. /\ jobs' \in [Slots -> Job]
      /\ jobs'[i].stage = "idle"
      /\ \A j \in Slots \ {i} : jobs'[j] = jobs[j]
      /\ \A j \in Slots :
           /\ jobs'[j].stage # "idle" => jobs'[j].conn # None
           /\ jobs'[j].stage = "write" => jobs'[j].segment # None
  BY <1>1, DoneEffect
<1>4. /\ ConnectionsOK' /\ AttachedLink' /\ FinalIsEnded' /\ ProcessorsOK' /\ Covered'
      /\ FromBehind'
  <2>1. \A j \in Slots : At(j, "resume")' => jobs'[j] = jobs[j]
    BY <1>3 DEF At
  <2>2. FromBehind'
    BY <1>1, <2>1, FromStays DEF LogOK, JobsOK
  <2>. QED
    BY <1>1, <2>2 DEF ConnectionsOK, AttachedLink, FinalIsEnded, ProcessorsOK, Covered
<1>5. LogOK' /\ WindowBehind' /\ ClosedSuppression'
  BY <1>1, <1>2 DEF LogOK, WindowBehind, ClosedSuppression
<1>6. JobsOK' /\ KeptIsStored'
  BY <1>1, <1>3 DEF JobsOK, KeptIsStored, At
<1>. QED
  BY <1>4, <1>5, <1>6

LEMMA DeliveryStep ==
  ASSUME DeliveryInv, [Next]_vars
  PROVE  DeliveryInv'
<1>. USE DEF DeliveryInv, TypeInv
<1>1. ASSUME NEW c \in Connections, Connect(c)
      PROVE  DeliveryInv'
  <2>1. attached # c
    BY <1>1, DeliveryAssumption DEF Connect, AttachedLink
  <2>2. ConnectionsOK' /\ AttachedLink' /\ ProcessorsOK'
    BY <1>1, <2>1 DEF Connect, ConnectionsOK, AttachedLink, ProcessorsOK, audio, delivery
  <2>. QED
    BY <1>1, <2>1, <2>2, SocketStep DEF Connect, ConnectionsOK, FinalIsEnded, log
<1>2. ASSUME NEW c \in Connections, SocketCloses(c)
      PROVE  DeliveryInv'
  <2>1. ConnectionsOK' /\ AttachedLink' /\ ProcessorsOK'
    BY <1>2
    DEF SocketCloses, CloseStt, ConnectionsOK, AttachedLink, ProcessorsOK, session, delivery
  <2>. QED
    BY <1>2, <2>1, SocketStep DEF SocketCloses, ConnectionsOK, FinalIsEnded, session, log
<1>3. ASSUME NEW c \in Connections, RemoveConnection(c)
      PROVE  DeliveryInv'
  <2>1. ConnectionsOK' /\ AttachedLink' /\ ProcessorsOK'
    BY <1>3, DeliveryAssumption
    DEF RemoveConnection, ConnectionsOK, AttachedLink, ProcessorsOK, audio, delivery
  <2>2. state = "ended" => state' = "ended"
    BY <1>3, DeliveryAssumption DEF RemoveConnection, ConnectionsOK
  <2>3. \A d \in Connections : attached' = d /\ link'[d] = "open" =>
          attached = d /\ link[d] = "open"
    BY <1>3, DeliveryAssumption DEF RemoveConnection, ConnectionsOK
  <2>. QED
    BY <1>3, <2>1, <2>2, <2>3, SocketStep DEF RemoveConnection, FinalIsEnded, log
<1>4. ASSUME NEW c \in Connections, AudioChunk(c)
      PROVE  DeliveryInv'
  <2>1. ConnectionsOK' /\ AttachedLink' /\ ProcessorsOK'
    BY <1>4 DEF AudioChunk, ConnectionsOK, AttachedLink, ProcessorsOK, session, delivery
  <2>. QED
    BY <1>4, <2>1, SocketStep DEF AudioChunk, ConnectionsOK, FinalIsEnded, session, log
<1>5. ASSUME NEW c \in Connections, NEW g \in Segments, PartialHeard(c, g)
      PROVE  DeliveryInv'
  <2>1. PICK e \in Event :
          /\ processor' = [processor EXCEPT ![c] = Processed(@, e)]
          /\ serverSeq' = serverSeq + 1
          /\ UNCHANGED <<session, link, stt, window, jobs, storage, delivery, finalSeq>>
    BY <1>5 DEF PartialHeard, Event
  <2>2. Processed(processor[c], e) \in Processor
    BY ProcessedTyped DEF ProcessorsOK
  <2>3. ConnectionsOK' /\ AttachedLink' /\ FinalIsEnded' /\ ClosedSuppression'
    BY <2>1 DEF ConnectionsOK, AttachedLink, FinalIsEnded, ClosedSuppression, session, delivery
  <2>4. ProcessorsOK'
    BY <2>1, <2>2 DEF ProcessorsOK
  <2>5. FromBehind'
    BY <2>1, FromStays DEF LogOK, JobsOK, At
  <2>6. LogOK' /\ WindowBehind'
    BY <2>1, WindowTyped DEF LogOK, WindowBehind, delivery
  <2>7. JobsOK' /\ KeptIsStored'
    BY <2>1 DEF JobsOK, KeptIsStored, At, storage
  <2>8. Covered'
    BY <2>1, CoveredStays DEF session, delivery
  <2>. QED
    BY <2>3, <2>4, <2>5, <2>6, <2>7, <2>8
<1>6. ASSUME NEW i \in Slots, NEW c \in Connections, SessionEnd(i, c)
      PROVE  DeliveryInv'
  <2>1. /\ processor' = [processor EXCEPT ![c].closed = TRUE]
        /\ stt' = [stt EXCEPT ![c] = IF @ = "open" THEN "closed" ELSE @]
        /\ UNCHANGED <<state, attached, temporary, link, serverSeq, window, timeline, kept,
                       asked, live, replayed, strays, finalSeq>>
    BY <1>6 DEF SessionEnd, CloseStt, session, log, storage, delivery
  <2>2. PICK job \in Job :
          /\ job.stage = "end" /\ job.conn = c /\ jobs[i] = Idle
          /\ jobs' = [jobs EXCEPT ![i] = job]
    BY <1>6 DEF SessionEnd, Job
  <2>3. /\ jobs' \in [Slots -> Job]
        /\ jobs[i].stage = "idle" /\ jobs'[i] = job
        /\ \A j \in Slots \ {i} : jobs'[j] = jobs[j]
        /\ \A j \in Slots :
             /\ jobs'[j].stage # "idle" => jobs'[j].conn # None
             /\ jobs'[j].stage = "write" => jobs'[j].segment # None
    BY <2>2, JobStarts, DeliveryAssumption
  <2>4. ConnectionsOK' /\ AttachedLink' /\ FinalIsEnded' /\ ClosedSuppression'
    BY <2>1 DEF ConnectionsOK, AttachedLink, FinalIsEnded, ClosedSuppression
  <2>5. ProcessorsOK'
    BY <2>1 DEF ProcessorsOK, Processor
  <2>6. LogOK' /\ WindowBehind'
    BY <2>1 DEF LogOK, WindowBehind
  <2>7. JobsOK' /\ KeptIsStored'
    BY <2>1, <2>2, <2>3 DEF JobsOK, KeptIsStored, At
  <2>8. FromBehind' /\ Covered'
    <3>1. \A j \in Slots : At(j, "resume") \/ At(j, "resume")' => jobs'[j] = jobs[j]
      BY <2>2, <2>3 DEF At
    <3>. QED
      BY <2>1, <3>1, CoveredStays, FromStays DEF LogOK, JobsOK
  <2>. QED
    BY <2>4, <2>5, <2>6, <2>7, <2>8
<1>7. CASE UNCHANGED vars
  <2>1. ConnectionsOK' /\ AttachedLink' /\ ProcessorsOK'
    BY <1>7 DEF vars, ConnectionsOK, AttachedLink, ProcessorsOK
  <2>. QED
    BY <1>7, <2>1, SocketStep DEF vars, FinalIsEnded, storage, delivery
<1>. QED
  BY <1>1, <1>2, <1>3, <1>4, <1>5, <1>6, <1>7, FinalStep, WriteStep, ResumeStep, ReplayStep,
     EndStep
  DEF Next

\* The initial states satisfy the invariant.
LEMMA DeliveryStart == ASSUME Init PROVE DeliveryInv
<1>1. ConnectionsOK /\ AttachedLink
  BY DeliveryAssumption DEF Init, ConnectionsOK, AttachedLink
<1>2. ProcessorsOK
  BY NewProcessorTyped DEF Init, ProcessorsOK
<1>3. LogOK /\ WindowBehind /\ FinalIsEnded /\ ClosedSuppression /\ Covered
  BY DEF Init, LogOK, WindowBehind, FinalIsEnded, ClosedSuppression, Covered
<1>4. JobsOK /\ FromBehind /\ KeptIsStored
  BY IdleTyped DEF Init, JobsOK, FromBehind, KeptIsStored, At
<1>. QED
  BY <1>1, <1>2, <1>3, <1>4 DEF DeliveryInv, TypeInv

LEMMA DeliveryInductive == Spec => []DeliveryInv
BY DeliveryStart, DeliveryStep, PTL DEF Spec

\* The invariant says the range of every variable.
LEMMA DeliveryTyped == ASSUME DeliveryInv PROVE TypeOK
BY DEF DeliveryInv, TypeInv, ConnectionsOK, ProcessorsOK, Processor, LogOK, JobsOK, TypeOK

\* Every variable of the delivery stays in its range, and the session is active exactly
\* while a connection is attached to it.
THEOREM DeliveryTypeCorrect == Spec => []TypeOK
BY DeliveryInductive, DeliveryTyped, PTL

\* A connection that resumed was sent what it asked for, as far as the window has it,
\* also what an older connection heard before the replay; what one hears after the
\* replay is left to the next.
THEOREM ReplayCoversHolds == Spec => []ReplayCovers
<1>1. DeliveryInv => ReplayCovers
  <2>. SUFFICES ASSUME DeliveryInv, NEW c \in Connections, attached = c, link[c] = "open",
                       \A i \in Slots : ~(At(i, "resume") /\ jobs[i].conn = c),
                       NEW k \in 1..Len(window), window[k].seq > asked
                PROVE  window[k] \in live \cup replayed \/ window[k].seq \in strays
    BY DEF ReplayCovers
  <2>1. attached # None /\ ~WillReplay(window[k].seq)
    BY DeliveryAssumption DEF WillReplay
  <2>. QED
    BY <2>1 DEF DeliveryInv, Covered, Sent
<1>. QED
  BY <1>1, DeliveryInductive, PTL

\* A final that may be stored is in the timeline, or its write is under way or was rejected.
THEOREM KeptIsStoredHolds == Spec => []KeptIsStored
<1>1. DeliveryInv => KeptIsStored
  BY DEF DeliveryInv
<1>. QED
  BY <1>1, DeliveryInductive, PTL

\* No transcript of the window has a number behind that of session.closed.
THEOREM ClosedSuppressionHolds == Spec => []ClosedSuppression
<1>1. DeliveryInv => ClosedSuppression
  BY DEF DeliveryInv
<1>. QED
  BY <1>1, DeliveryInductive, PTL

-----------------------------------------------------------------------------
(* The streams of the provider *)

StreamOK ==
  /\ StreamTypeOK
  /\ fed \in Nat /\ unheard \in Nat /\ lastStart \in Nat

\* One utterance is spoken at a time, each behind the one before.
InTurn ==
  /\ \A v \in 1..spoken : v # spoken => v \in ended
  /\ \A v, w \in 1..spoken : v < w => offset[v] < offset[w]

\* Where the next result of an utterance would be.
Ahead == IF spoken = 0 THEN 0 ELSE latestAt + offset[spoken]

Behind ==
  /\ lastStart <= Ahead
  /\ \A i \in SegmentIds : segments[i] # "none" =>
       holds[i] \in 1..spoken /\ i <= latestAt + offset[holds[i]]
  /\ \A i \in SegmentIds : segments[i] = "final" => holds[i] \in ended

Kept == \A u \in ended : \E i \in SegmentIds : segments[i] = "final" /\ holds[i] = u

StreamInv == StreamOK /\ InTurn /\ (inOrder => Behind /\ Kept)

-----------------------------------------------------------------------------
LEMMA StreamStart == ASSUME StreamInit PROVE StreamInv
<1>1. StreamTypeOK
  <2>1. 0 \in 0..MaxPosition /\ 0 \in 0..MaxUtterances /\ 0 \in 0..MaxChunks /\ 1 \in 1..MaxPosition
    BY StreamAssumption
  <2>2. 0 + 0 <= MaxChunks /\ 0 \in 0..0
    BY StreamAssumption
  <2>3. {TRUE, FALSE} \subseteq BOOLEAN
    OBVIOUS
  <2>. QED
    BY <2>1, <2>2, <2>3 DEF StreamInit, StreamTypeOK
<1>2. StreamOK
  BY <1>1 DEF StreamInit, StreamOK
<1>3. InTurn
  BY DEF StreamInit, InTurn
<1>4. Behind /\ Kept
  BY DEF StreamInit, Behind, Ahead, Kept
<1>. QED
  BY <1>2, <1>3, <1>4 DEF StreamInv

\* A step of the sockets: nothing is heard, and the latest chunk is at most later.
LEMMA StreamSocketStep ==
  ASSUME StreamInv, UNCHANGED heard, StreamOK',
         inOrder' => inOrder /\ latestAt <= latestAt'
  PROVE  StreamInv'
<1>. USE DEF StreamInv
<1>1. UNCHANGED <<spoken, offset, ended, segments, lastStart, holds>>
  BY DEF heard
<1>2. InTurn'
  BY <1>1 DEF InTurn
<1>3. ASSUME inOrder'
      PROVE  Behind' /\ Kept'
  <2>1. Behind /\ Kept /\ latestAt <= latestAt'
    BY <1>3
  <2>2. latestAt \in Nat /\ latestAt' \in Nat /\ spoken \in Nat
    <3>1. latestAt \in 0..MaxPosition /\ latestAt' \in 0..MaxPosition
      BY DEF StreamOK, StreamTypeOK
    <3>2. spoken \in 0..MaxUtterances
      BY DEF StreamOK, StreamTypeOK
    <3>. QED
      BY <3>1, <3>2
  <2>3. \A v \in 1..spoken : offset[v] \in Nat
    <3>1. /\ offset \in [1..MaxUtterances -> 0..MaxChunks] /\ spoken \in 0..MaxUtterances
          /\ MaxUtterances \in Nat /\ MaxChunks \in Nat
      BY StreamAssumption DEF StreamOK, StreamTypeOK, Utterances
    <3>2. \A v \in 1..spoken : v \in 1..MaxUtterances
      BY <3>1
    <3>. QED
      BY <3>1, <3>2
  <2>4. lastStart <= Ahead'
    <3>1. spoken # 0 => spoken \in 1..spoken
      BY <2>2
    <3>2. lastStart \in Nat /\ lastStart <= Ahead
      BY <2>1 DEF StreamOK, Behind
    <3>3. CASE spoken = 0
      BY <1>1, <3>2, <3>3 DEF Ahead
    <3>4. CASE spoken # 0
      <4>1. offset[spoken] \in Nat /\ lastStart <= latestAt + offset[spoken]
        BY <2>3, <3>1, <3>2, <3>4 DEF Ahead
      <4>2. lastStart <= latestAt' + offset[spoken]
        BY <2>1, <2>2, <3>2, <4>1
      <4>. QED
        BY <1>1, <3>4, <4>2 DEF Ahead
    <3>. QED
      BY <3>3, <3>4
  <2>5. ASSUME NEW i \in SegmentIds, segments[i] # "none"
        PROVE  holds[i] \in 1..spoken /\ i <= latestAt' + offset[holds[i]]
    <3>1. holds[i] \in 1..spoken /\ i <= latestAt + offset[holds[i]]
      BY <2>1, <2>5 DEF Behind
    <3>2. offset[holds[i]] \in Nat /\ i \in Nat
      BY <2>3, <3>1, StreamAssumption DEF SegmentIds
    <3>. QED
      BY <2>1, <2>2, <3>1, <3>2
  <2>6. Behind'
    BY <1>1, <2>1, <2>4, <2>5 DEF Behind
  <2>7. Kept'
    BY <1>1, <2>1 DEF Kept
  <2>. QED
    BY <2>6, <2>7
<1>. QED
  BY <1>2, <1>3

LEMMA ChunkStep ==
  ASSUME StreamInv,
         \/ StartSession \/ Connected \/ ProviderCloses \/ ProviderError \/ CloseStream
         \/ \E s \in Streams : Skip(s) \/ TranscribeChunk(s)
  PROVE  StreamInv'
<1>. USE DEF StreamInv, StreamOK
<1>1. CASE StartSession \/ Connected \/ ProviderCloses \/ ProviderError \/ CloseStream
  <2>1. UNCHANGED heard /\ UNCHANGED audioIn
    BY <1>1 DEF StartSession, Connected, ProviderCloses, ProviderError, CloseStream
  <2>2. StreamOK' /\ (inOrder' => inOrder /\ latestAt <= latestAt')
    <3>1. UNCHANGED <<position, latestAt, fed, inOrder, unheard, spoken, offset, ended, segments,
                      lastStart, holds>>
      BY <2>1 DEF heard, audioIn
    <3>2. /\ provider' \in {"none", "connecting", "open", "dropped", "failed", "closed"}
          /\ adapter' \in {"open", "closed"} /\ told' \in BOOLEAN
      BY <1>1 DEF StartSession, Connected, ProviderCloses, ProviderError, CloseStream, StreamTypeOK
    <3>3. latestAt <= latestAt
      BY StreamAssumption DEF StreamTypeOK
    <3>. QED
      BY <3>1, <3>2, <3>3 DEF StreamTypeOK
  <2>. QED
    BY <2>1, <2>2, StreamSocketStep
<1>2. ASSUME NEW s \in Streams, Skip(s)
      PROVE  StreamInv'
  <2>1. /\ UNCHANGED heard /\ latestAt <= latestAt' /\ inOrder' = inOrder
    BY <1>2, StreamAssumption DEF Skip, StreamTypeOK
  <2>2. position' \in [Streams -> 1..MaxPosition]
    <3>1. position[s] + 1 \in 1..MaxPosition
      BY <1>2, StreamAssumption DEF Skip, StreamTypeOK
    <3>. QED
      BY <1>2, <3>1 DEF Skip, StreamTypeOK
  <2>3. StreamOK'
    BY <1>2, <2>2 DEF Skip, StreamTypeOK, heard
  <2>. QED
    BY <2>1, <2>3, StreamSocketStep
<1>3. ASSUME NEW s \in Streams, TranscribeChunk(s)
      PROVE  StreamInv'
  <2>1. /\ UNCHANGED <<provider, adapter, heard>> /\ fed + unheard < MaxChunks
        /\ position' = [position EXCEPT ![s] = position[s] + 1]
        /\ position[s] < MaxPosition /\ position[s] \in 1..MaxPosition
        /\ MaxPosition \in Nat /\ MaxChunks \in Nat
    BY <1>3, StreamAssumption DEF TranscribeChunk, StreamTypeOK
  <2>2. \/ told' = TRUE /\ UNCHANGED <<latestAt, fed, inOrder, unheard>>
        \/ /\ inOrder' = (inOrder /\ latestAt <= position[s]) /\ latestAt' = position[s]
           /\ told' = told
           /\ \/ fed' = fed + 1 /\ unheard' = unheard
              \/ fed' = fed /\ unheard' = unheard + 1
    BY <1>3 DEF TranscribeChunk
  <2>3. position' \in [Streams -> 1..MaxPosition]
    <3>1. position[s] + 1 \in 1..MaxPosition
      BY <2>1
    <3>. QED
      BY <2>1, <3>1 DEF StreamTypeOK
  <2>4. fed' \in Nat /\ unheard' \in Nat /\ fed' + unheard' <= MaxChunks
    BY <2>1, <2>2
  <2>5. latestAt' \in 0..MaxPosition /\ (inOrder' => inOrder /\ latestAt <= latestAt')
    <3>1. latestAt \in 0..MaxPosition /\ latestAt <= latestAt /\ position[s] \in 0..MaxPosition
      BY <2>1 DEF StreamTypeOK
    <3>2. CASE UNCHANGED <<latestAt, fed, inOrder, unheard>>
      BY <3>1, <3>2
    <3>3. CASE inOrder' = (inOrder /\ latestAt <= position[s]) /\ latestAt' = position[s]
      <4>1. inOrder' => inOrder /\ latestAt <= position[s]
        BY <3>3, Zenon
      <4>. QED
        BY <3>1, <3>3, <4>1
    <3>. QED
      BY <2>2, <3>2, <3>3
  <2>6. inOrder' \in BOOLEAN /\ told' \in BOOLEAN
    BY <2>2 DEF StreamTypeOK
  <2>7. StreamOK'
    BY <2>1, <2>3, <2>4, <2>5, <2>6 DEF StreamTypeOK, heard
  <2>. QED
    BY <2>1, <2>5, <2>7, StreamSocketStep
<1>. QED
  BY <1>1, <1>2, <1>3

\* A result is taken, and no other segment of a final result loses its text.
LEMMA ResultStep ==
  ASSUME StreamInv, NEW u \in Utterances, NEW o \in 0..MaxChunks,
         NEW result \in {"partial", "final"}, HeardResult(u, o, result),
         spoken' = u, spoken \in 0..u,
         \A v \in 1..u : v # u => v \in ended /\ offset[v] < o,
         u \notin ended,
         spoken = u => offset[u] = o,
         offset' = [offset EXCEPT ![u] = o],
         ended' = IF result = "final" THEN ended \cup {u} ELSE ended,
         UNCHANGED <<provider, adapter, audioIn, told>>
  PROVE  StreamInv'
<1>. USE DEF StreamInv, StreamOK
<1>. DEFINE id == latestAt + o
<1>1. /\ MaxPosition \in Nat /\ MaxChunks \in Nat /\ MaxUtterances \in Nat
      /\ latestAt \in Nat /\ latestAt <= MaxPosition /\ o \in Nat /\ o <= MaxChunks
      /\ u \in Nat /\ u # 0 /\ u <= MaxUtterances /\ spoken \in Nat /\ spoken <= u
      /\ SegmentIds \subseteq Nat
      /\ UNCHANGED <<position, latestAt, fed, inOrder, unheard>>
  BY StreamAssumption DEF StreamTypeOK, Utterances, SegmentIds, audioIn
<1>2. id \in SegmentIds /\ id \in Nat
  BY <1>1, StreamAssumption DEF SegmentIds
<1>3. /\ ended \subseteq 1..spoken /\ ended' \subseteq 1..u
      /\ \A v \in 1..spoken : v \in Utterances /\ offset[v] \in Nat
      /\ \A v \in 1..u : v \in Utterances
      /\ 1..spoken \subseteq 1..u
  <2>1. \A v \in 1..u : v \in Utterances
    BY <1>1 DEF Utterances
  <2>2. 1..spoken \subseteq 1..u /\ u \in 1..u
    BY <1>1
  <2>3. \A v \in Utterances : offset[v] \in Nat
    BY <1>1 DEF StreamTypeOK
  <2>. QED
    BY <2>1, <2>2, <2>3 DEF StreamTypeOK
<1>4. /\ offset' \in [Utterances -> 0..MaxChunks] /\ offset'[u] = o
      /\ \A v \in 1..u : v # u => offset'[v] = offset[v]
      /\ \A v \in 1..spoken : offset'[v] = offset[v]
  BY <1>3 DEF StreamTypeOK
<1>5. \/ /\ AcceptsResult(id)
         /\ segments' = [segments EXCEPT ![id] = result]
         /\ lastStart' = IF id > lastStart THEN id ELSE lastStart
         /\ holds' = [holds EXCEPT ![id] = u]
      \/ ~AcceptsResult(id) /\ UNCHANGED <<segments, lastStart, holds>>
  BY DEF HeardResult
<1>. HIDE DEF id
<1>6. /\ segments' \in [SegmentIds -> {"none", "partial", "final"}]
      /\ holds' \in [SegmentIds -> 0..u] /\ lastStart' \in Nat
  <2>1. 0..spoken \subseteq 0..u /\ u \in 0..u
    BY <1>1
  <2>2. holds \in [SegmentIds -> 0..u]
    BY <2>1 DEF StreamTypeOK
  <2>. QED
    BY <1>2, <1>5, <2>1, <2>2 DEF StreamTypeOK
<1>7. StreamOK'
  <2>1. u \in 0..MaxUtterances
    BY <1>1
  <2>. QED
    BY <1>1, <1>3, <1>4, <1>6, <2>1 DEF StreamTypeOK
<1>8. InTurn'
  <2>1. \A v \in 1..u : v # u => v \in ended'
    OBVIOUS
  <2>2. ASSUME NEW v \in 1..u, NEW w \in 1..u, v < w
        PROVE  offset'[v] < offset'[w]
    <3>1. v # u
      BY <1>1, <2>2
    <3>2. CASE w = u
      BY <1>4, <3>1, <3>2
    <3>3. CASE w # u
      <4>1. v \in 1..spoken /\ w \in 1..spoken
        BY <1>3, <3>1, <3>3
      <4>. QED
        BY <1>4, <2>2, <3>1, <3>3, <4>1 DEF InTurn
    <3>. QED
      BY <3>2, <3>3
  <2>. QED
    BY <2>1, <2>2 DEF InTurn
<1>9. ASSUME inOrder
      PROVE  Behind' /\ Kept'
  <2>1. Behind /\ Kept
    BY <1>9
  <2>2. \A v \in 1..spoken : offset[v] <= o /\ (v # u => offset[v] < o)
    BY <1>1, <1>3
  <2>3. lastStart <= id
    <3>1. CASE spoken = 0
      BY <1>2, <2>1, <3>1 DEF Behind, Ahead
    <3>2. CASE spoken # 0
      <4>1. spoken \in 1..spoken /\ offset[spoken] \in Nat /\ offset[spoken] <= o
        BY <1>1, <1>3, <2>2, <3>2
      <4>2. lastStart <= latestAt + offset[spoken]
        BY <2>1, <3>2 DEF Behind, Ahead
      <4>. QED
        BY <1>1, <4>1, <4>2 DEF id
    <3>. QED
      BY <3>1, <3>2
  <2>4. segments[id] # "final"
    <3>. SUFFICES ASSUME segments[id] = "final"
                  PROVE  FALSE
      OBVIOUS
    <3>. DEFINE v == holds[id]
    <3>1. v \in 1..spoken /\ id <= latestAt + offset[v] /\ v \in ended
      BY <1>2, <2>1 DEF Behind
    <3>2. v # u /\ offset[v] < o /\ offset[v] \in Nat
      BY <1>3, <2>2, <3>1
    <3>. HIDE DEF v
    <3>. QED
      BY <1>1, <3>1, <3>2 DEF id
  <2>5. AcceptsResult(id)
    BY <1>2, <2>3, <2>4 DEF AcceptsResult
  <2>6. /\ segments'[id] = result /\ holds'[id] = u /\ lastStart' <= id
        /\ \A i \in SegmentIds : i # id => segments'[i] = segments[i] /\ holds'[i] = holds[i]
    BY <1>2, <1>5, <2>3, <2>5 DEF StreamTypeOK
  <2>7. Behind'
    <3>1. lastStart' <= Ahead'
      BY <1>1, <1>4, <2>6 DEF Ahead, id
    <3>2. ASSUME NEW i \in SegmentIds, segments'[i] # "none"
          PROVE  holds'[i] \in 1..u /\ i <= latestAt + offset'[holds'[i]]
      <4>1. CASE i = id
        BY <1>1, <1>2, <1>4, <2>6, <4>1 DEF id
      <4>2. CASE i # id
        <5>1. segments[i] # "none" /\ holds'[i] = holds[i]
          BY <2>6, <3>2, <4>2
        <5>2. holds[i] \in 1..spoken /\ i <= latestAt + offset[holds[i]]
          BY <2>1, <5>1 DEF Behind
        <5>. QED
          BY <1>3, <1>4, <5>1, <5>2
      <4>. QED
        BY <4>1, <4>2
    <3>3. \A i \in SegmentIds : segments'[i] = "final" => holds'[i] \in ended'
      BY <2>1, <2>6 DEF Behind
    <3>. QED
      BY <1>1, <3>1, <3>2, <3>3 DEF Behind
  <2>8. Kept'
    <3>. SUFFICES ASSUME NEW v \in ended'
                  PROVE  \E i \in SegmentIds : segments'[i] = "final" /\ holds'[i] = v
      BY DEF Kept
    <3>1. CASE v = u
      <4>1. result = "final"
        BY <3>1
      <4>. QED
        BY <1>2, <2>6, <3>1, <4>1
    <3>2. CASE v # u
      <4>1. v \in ended
        BY <3>2
      <4>2. PICK i \in SegmentIds : segments[i] = "final" /\ holds[i] = v
        BY <2>1, <4>1 DEF Kept
      <4>3. i # id
        BY <2>4, <4>2
      <4>. QED
        BY <2>6, <4>2, <4>3
    <3>. QED
      BY <3>1, <3>2
  <2>. QED
    BY <2>7, <2>8
<1>. QED
  BY <1>1, <1>7, <1>8, <1>9

LEMMA UtteranceStep ==
  ASSUME StreamInv, NEW result \in {"partial", "final"},
         BeginUtterance(result) \/ ContinueUtterance(result)
  PROVE  StreamInv'
<1>. USE DEF StreamInv, StreamOK
<1>1. /\ MaxChunks \in Nat /\ MaxUtterances \in Nat /\ spoken \in Nat /\ spoken <= MaxUtterances
      /\ fed \in Nat /\ fed <= MaxChunks /\ ended \subseteq 1..spoken
  BY StreamAssumption DEF StreamTypeOK
<1>2. CASE BeginUtterance(result)
  <2>1. PICK o \in 0..fed :
          /\ o < fed /\ \A v \in 1..spoken : offset[v] < o
          /\ offset' = [offset EXCEPT ![spoken + 1] = o]
          /\ HeardResult(spoken + 1, o, result)
    BY <1>2 DEF BeginUtterance
  <2>2. /\ spoken' = spoken + 1 /\ spoken + 1 <= MaxUtterances
        /\ \A v \in 1..spoken : v \in ended
        /\ ended' = IF result = "final" THEN ended \cup {spoken + 1} ELSE ended
        /\ UNCHANGED <<provider, adapter, audioIn, told>>
    BY <1>2 DEF BeginUtterance
  <2>3. /\ spoken + 1 \in Utterances /\ o \in 0..MaxChunks /\ spoken \in 0..(spoken + 1)
        /\ spoken # spoken + 1 /\ spoken + 1 \notin ended
        /\ \A v \in 1..(spoken + 1) : v # spoken + 1 => v \in 1..spoken
    BY <1>1, <2>1, <2>2 DEF Utterances
  <2>. QED
    BY <2>1, <2>2, <2>3, ResultStep
<1>3. CASE ContinueUtterance(result)
  <2>1. /\ spoken # 0 /\ spoken \notin ended
        /\ HeardResult(spoken, offset[spoken], result)
        /\ ended' = IF result = "final" THEN ended \cup {spoken} ELSE ended
        /\ UNCHANGED <<provider, adapter, audioIn, spoken, offset, told>>
    BY <1>3 DEF ContinueUtterance
  <2>2. spoken \in Utterances /\ spoken \in 0..spoken /\ spoken \in 1..spoken
    BY <1>1, <2>1 DEF Utterances
  <2>3. offset[spoken] \in 0..MaxChunks /\ offset' = [offset EXCEPT ![spoken] = offset[spoken]]
    BY <2>1, <2>2 DEF StreamTypeOK
  <2>4. \A v \in 1..spoken : v # spoken => v \in ended /\ offset[v] < offset[spoken]
    BY <1>1, <2>2 DEF InTurn
  <2>. QED
    BY <2>1, <2>2, <2>3, <2>4, ResultStep
<1>. QED
  BY <1>2, <1>3

LEMMA StreamStep == ASSUME StreamInv, [StreamNext]_streamVars PROVE StreamInv'
<1>1. CASE UNCHANGED streamVars
  BY <1>1 DEF streamVars, StreamInv, StreamOK, StreamTypeOK, InTurn, Ahead, Behind, Kept
<1>. QED
  BY <1>1, ChunkStep, UtteranceStep DEF StreamNext

LEMMA StreamInvariant == StreamSpec => []StreamInv
BY StreamStart, StreamStep, PTL DEF StreamSpec

\* The invariant says the range of every variable.
LEMMA StreamTyped == ASSUME StreamInv PROVE StreamTypeOK
BY DEF StreamInv, StreamOK

\* Every variable of a stream stays in its range; what was sent stays within the bound.
THEOREM StreamTypeCorrect == StreamSpec => []StreamTypeOK
BY StreamInvariant, StreamTyped, PTL

\* mapProviderMessages and TranscriptProcessor.process: while chunks come in the order of
\* their timestamps, each final result is in a segment of its own that is final, however
\* many streams, partial results and utterances there are.
THEOREM FinalsKeptHolds == StreamSpec => []FinalsKept
<1>1. StreamInv => FinalsKept
  BY DEF StreamInv, FinalsKept, Kept
<1>. QED
  BY <1>1, StreamInvariant, PTL
=============================================================================
