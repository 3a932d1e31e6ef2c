----------------------------- MODULE DesktopProofs -----------------------------
(***************************************************************************)
(* Proofs about MicrophoneCapture, for every number of meetings, batches,  *)
(* presses, every size of a chunk and every capacity of the queue; about   *)
(* HostedSignIn, for every number of attempts, completions and calls, and  *)
(* for a provider that rotates refresh tokens or not; and of the parts of  *)
(* MCDesktop side by side.                                                 *)
(*                                                                         *)
(* Silence: a place in the queue is audible when, once everything before   *)
(* it has arrived, the controller of the stream is not paused (Audible,    *)
(* Sounds).  Samples of the epoch of the stream only wait at such places,  *)
(* the callback only holds some when the next place is one, and the worker *)
(* only processes some when what was sent leaves the controller unpaused.  *)
(*                                                                         *)
(* Timeline: no audio is lost between the callback and the controller,     *)
(* since each step keeps what is on its way or hands it on (TimeInv).  It  *)
(* remains that the controller does not ignore a chunk of a stream that    *)
(* works.  A controller is started once, so that a start that waits or is  *)
(* carried out is the only one to make a stream for it (StartsInv); hence  *)
(* the controller of a stream is never idle again (SettledInv), and after  *)
(* a failure that it heard of there is no other stream for it (DoomedInv). *)
(*                                                                         *)
(* Sign-in: the provider stops accepting a refresh token only when a panel *)
(* uses it.  The token of a session that a completion is about to store is *)
(* loaded by no panel (SignedAlone), and under rotation neither is the new *)
(* token of a renewal until it is stored (RenewedAlone).  Hence the last   *)
(* renewal that ends has stored a token that is still accepted, or has     *)
(* lost one.                                                               *)
(***************************************************************************)
EXTENDS MCDesktop, DesktopSessionProofs, FiniteSetTheorems

(* Types *)

\* What the lines between the web view and the main thread carry.
Commands == {"start", "pause", "resume", "stop"}
CommandRecord == [cmd : Commands, by : Starts, step : {1}]
ResponseRecord == [cmd : Commands, by : Starts, ok : BOOLEAN]

\* Only chunks and gaps stand for audio.
EventRecord ==
  {e \in [by : Starts, type : {"capturing", "paused", "chunk", "gap", "error"}, chunks : Nat] :
     e.type \in {"capturing", "paused", "error"} => e.chunks = 0}

\* What waits in the queue of a stream.
MessageRecord == [type : {"capturing", "paused", "samples"}, epoch : Nat]

ControllerStates == {"idle", "starting", "capturing", "paused", "stopped", "failed"}

WebOK ==
  /\ starts \in 0..MaxStarts /\ presses \in 0..MaxPresses
  /\ controller \in [Starts -> ControllerStates]
  /\ handle \in [Starts -> BOOLEAN]
  /\ streamTime \in [Starts -> Nat]
  /\ \A g \in Starts : handle[g] => controller[g] \notin {"stopped", "failed"}

\* The lines between the web view and the native side.
LinesOK ==
  /\ commands \in Seq(CommandRecord)
  /\ responses \in Seq(ResponseRecord)
  /\ events \in Seq(EventRecord)

RunningOK ==
  /\ running \in [cmd : Commands \cup {"none"}, by : 0..MaxStarts, step : 0..4]
  /\ running.cmd = "none" => running = Idle
  /\ running.cmd # "none" => running.by \in Starts /\ running.step # 0
  /\ running.cmd \in {"start", "stop", "resume"} => running.step \in 1..2

StreamRecord ==
  [id : 0..MaxStarts, paused : BOOLEAN, stopped : BOOLEAN, failed : BOOLEAN, epoch : Nat,
   queue : Seq(MessageRecord), output : 0..(Batches - 1), dropped : Nat, lateInput : Nat,
   resetOutput : Nat, captured : Nat]

StreamOK ==
  /\ stream \in StreamRecord
  /\ Len(stream.queue) <= Capacity

WorkersOK ==
  /\ callback \in [next : {"idle", "look", "enqueue"}, epoch : Nat]
  /\ worker \in {"report", "receive", "process", "ended"}
  /\ stream.id = 0 => worker = "ended" /\ callback.next = "idle" /\ stream.queue = <<>>

TypeInv == WebOK /\ LinesOK /\ RunningOK /\ StreamOK /\ WorkersOK

-----------------------------------------------------------------------------
(* The invariant *)

\* The events that make a controller pause, or capture again.
IsPause(e, g) == e.by = g /\ e.type = "paused"
IsCapture(e, g) == e.by = g /\ e.type = "capturing"

\* At place k of the events s, the controller of g is not paused, whose states are c now.
Sounds(s, g, k, c) ==
  \/ c[g] # "paused" /\ \A i \in 1..(k - 1) : ~IsPause(s[i], g)
  \/ \E j \in 1..(k - 1) : IsCapture(s[j], g) /\ \A i \in (j + 1)..(k - 1) : ~IsPause(s[i], g)

\* When the events that are on their way have arrived.
Heard == Sounds(events, stream.id, Len(events) + 1, controller)

\* The places of the queue where it is not.
Audible ==
  {k \in 1..(Len(stream.queue) + 1) :
     \/ Heard /\ \A i \in 1..(k - 1) : stream.queue[i].type # "paused"
     \/ \E j \in 1..(k - 1) : /\ stream.queue[j].type = "capturing"
                              /\ \A i \in (j + 1)..(k - 1) : stream.queue[i].type # "paused"}

\* So is the place behind the last.
Ready == stream.id # 0 /\ Len(stream.queue) + 1 \in Audible

\* A chunk on its way finds its controller unpaused.
EventsInv ==
  \A k \in 1..Len(events) :
    events[k].type = "chunk" => Sounds(events, events[k].by, k, controller)

\* Samples whose epoch is not over wait where they may be heard.
QueueInv ==
  \A k \in 1..Len(stream.queue) : stream.queue[k].type = "samples" =>
    /\ stream.queue[k].epoch <= stream.epoch
    /\ stream.queue[k].epoch = stream.epoch => k \in Audible

\* So will those that the callback is about to enqueue.
CallbackInv ==
  /\ callback.next # "idle" => callback.epoch <= stream.epoch
  /\ callback.next = "enqueue" /\ callback.epoch = stream.epoch => Ready
  /\ running.cmd = "pause" /\ running.step > 2 /\ callback.next = "enqueue"
       => callback.epoch # stream.epoch

\* A stream that is not paused, or is about to resume, may be heard.
PauseInv ==
  /\ stream.id # 0 /\ ~stream.paused => Ready
  /\ running.cmd = "pause" /\ running.step > 1 => stream.id # 0 /\ stream.paused
  /\ running.cmd = "resume" /\ running.step > 1 => Ready
  /\ worker = "process" => Heard

MicInv == TypeInv /\ EventsInv /\ QueueInv /\ CallbackInv /\ PauseInv

-----------------------------------------------------------------------------
(* Sequences of events *)

\* A controller that hears more than before is as unpaused as before.
LEMMA SoundsCarries ==
  ASSUME NEW s, NEW g, NEW k \in Nat, NEW c, NEW d, Sounds(s, g, k, c),
         d[g] = "paused" => c[g] = "paused"
  PROVE  Sounds(s, g, k, d)
BY DEF Sounds

\* Later events do not change what is heard before them.
LEMMA SoundsExtended ==
  ASSUME NEW S, NEW s \in Seq(S), NEW t \in Seq(S), NEW g, NEW c,
         NEW k \in 1..(Len(s) + 1), Sounds(s, g, k, c)
  PROVE  Sounds(s \o t, g, k, c)
<1>1. \A i \in 1..(k - 1) : (s \o t)[i] = s[i]
  OBVIOUS
<1>. DEFINE u == s \o t
<1>2. \A i \in 1..(k - 1) : u[i] = s[i]
  BY <1>1
<1>. HIDE DEF u
<1>3. Sounds(u, g, k, c)
  <2>1. \A j \in 1..(k - 1) : \A i \in (j + 1)..(k - 1) : i \in 1..(k - 1)
    OBVIOUS
  <2>. QED
    BY <1>2, <2>1 DEF Sounds
<1>. QED
  BY <1>3 DEF u

\* No pause is behind.
LEMMA SoundsOn ==
  ASSUME NEW S, NEW s \in Seq(S), NEW t \in Seq(S), NEW g, NEW c,
         Sounds(s, g, Len(s) + 1, c),
         \A i \in 1..Len(t) : ~IsPause(t[i], g)
  PROVE  Sounds(s \o t, g, Len(s \o t) + 1, c)
<1>. DEFINE u == s \o t
            n == Len(s)
<1>1. /\ Len(u) = n + Len(t) /\ n \in Nat /\ Len(t) \in Nat
      /\ \A i \in 1..n : u[i] = s[i]
      /\ \A i \in 1..Len(u) : i \notin 1..n => i - n \in 1..Len(t) /\ u[i] = t[i - n]
  OBVIOUS
<1>. HIDE DEF u, n
<1>2. \A i \in 1..Len(u) : i \notin 1..n => ~IsPause(u[i], g)
  BY <1>1
<1>3. ASSUME c[g] # "paused", \A i \in 1..n : ~IsPause(s[i], g)
      PROVE  Sounds(u, g, Len(u) + 1, c)
  <2>1. \A i \in 1..Len(u) : ~IsPause(u[i], g)
    BY <1>1, <1>2, <1>3
  <2>. QED
    BY <1>1, <1>3, <2>1 DEF Sounds
<1>4. ASSUME NEW j \in 1..n, IsCapture(s[j], g), \A i \in (j + 1)..n : ~IsPause(s[i], g)
      PROVE  Sounds(u, g, Len(u) + 1, c)
  <2>1. j \in 1..Len(u) /\ IsCapture(u[j], g)
    BY <1>1, <1>4
  <2>2. ASSUME NEW i \in (j + 1)..Len(u)
        PROVE  ~IsPause(u[i], g)
    <3>1. CASE i \in 1..n
      BY <1>1, <1>4, <3>1
    <3>2. CASE i \notin 1..n
      BY <1>1, <1>2, <3>2
    <3>. QED
      BY <3>1, <3>2
  <2>. QED
    BY <1>1, <2>1, <2>2 DEF Sounds
<1>5. Sounds(u, g, Len(u) + 1, c)
  <2>1. Sounds(s, g, n + 1, c)
    BY DEF n
  <2>2. \/ c[g] # "paused" /\ \A i \in 1..n : ~IsPause(s[i], g)
        \/ \E j \in 1..n : IsCapture(s[j], g) /\ \A i \in (j + 1)..n : ~IsPause(s[i], g)
    BY <1>1, <2>1 DEF Sounds
  <2>. QED
    BY <1>3, <1>4, <2>2
<1>. QED
  BY <1>5 DEF u

\* A capture is the last.
LEMMA SoundsAgain ==
  ASSUME NEW S, NEW s \in Seq(S), NEW e \in S, NEW g, NEW c, IsCapture(e, g)
  PROVE  Sounds(Append(s, e), g, Len(Append(s, e)) + 1, c)
<1>. DEFINE u == Append(s, e)
<1>1. Len(u) \in Nat /\ Len(u) > 0 /\ u[Len(u)] = e
  OBVIOUS
<1>. HIDE DEF u
<1>2. Sounds(u, g, Len(u) + 1, c)
  <2>1. Len(u) \in 1..(Len(u) + 1 - 1) /\ (Len(u) + 1)..(Len(u) + 1 - 1) = {}
    BY <1>1
  <2>. QED
    BY <1>1, <2>1 DEF Sounds
<1>. QED
  BY <1>2 DEF u

\* The first event arrives, and what it does to the controllers.
LEMMA SoundsArrived ==
  ASSUME NEW S, NEW s \in Seq(S), s # <<>>, NEW g, NEW c, NEW d,
         NEW k \in 1..Len(s), Sounds(s, g, k + 1, c),
         IsCapture(s[1], g) => d[g] # "paused",
         c[g] # "paused" /\ ~IsPause(s[1], g) => d[g] # "paused"
  PROVE  Sounds(Tail(s), g, k, d)
<1>. DEFINE u == Tail(s)
<1>1. Len(s) \in Nat /\ \A i \in 1..(k - 1) : u[i] = s[i + 1]
  OBVIOUS
<1>. HIDE DEF u
<1>2. CASE c[g] # "paused" /\ \A i \in 1..k : ~IsPause(s[i], g)
  <2>1. \A i \in 1..(k - 1) : i + 1 \in 1..k
    BY <1>1
  <2>2. 1 \in 1..k
    BY <1>1
  <2>. QED
    BY <1>1, <1>2, <2>1, <2>2 DEF Sounds, u
<1>3. ASSUME NEW j \in 1..k, IsCapture(s[j], g), \A i \in (j + 1)..k : ~IsPause(s[i], g)
      PROVE  Sounds(u, g, k, d)
  <2>1. CASE j = 1
    <3>1. \A i \in 1..(k - 1) : i + 1 \in 2..k
      BY <1>1
    <3>2. \A i \in 2..k : ~IsPause(s[i], g)
      BY <1>3, <2>1
    <3>. QED
      BY <1>1, <1>3, <2>1, <3>1, <3>2 DEF Sounds
  <2>2. CASE j # 1
    <3>1. j - 1 \in 1..(k - 1) /\ IsCapture(u[j - 1], g)
      BY <1>1, <1>3, <2>2
    <3>2. \A i \in ((j - 1) + 1)..(k - 1) : i + 1 \in (j + 1)..k /\ i \in 1..(k - 1)
      BY <1>1
    <3>. QED
      BY <1>1, <1>3, <3>1, <3>2 DEF Sounds
  <2>. QED
    BY <2>1, <2>2
<1>. QED
  BY <1>2, <1>3 DEF Sounds, u

-----------------------------------------------------------------------------
(* The queue *)

\* Nothing happens to it, and what was heard is heard.
LEMMA QueueSame ==
  ASSUME MicInv, UNCHANGED <<stream.id, stream.queue>>, Heard => Heard'
  PROVE  Audible \subseteq Audible' /\ (Ready => Ready')
BY SMTT(30) DEF Audible, Ready

\* A message is added behind the others.
LEMMA QueueGrows ==
  ASSUME MicInv, NEW m \in MessageRecord, Heard => Heard',
         stream'.id = stream.id, stream'.queue = Append(stream.queue, m)
  PROVE  /\ Audible \subseteq Audible'
         /\ Ready /\ m.type # "paused" => Ready'
         /\ stream.id # 0 /\ m.type = "capturing" => Ready'
<1>. DEFINE q == stream.queue
            r == Append(q, m)
            n == Len(q)
<1>1. q \in Seq(MessageRecord) /\ n \in Nat
  BY DEF MicInv, TypeInv, StreamOK, StreamRecord
<1>2. Len(r) = n + 1 /\ r[n + 1] = m /\ \A i \in 1..n : r[i] = q[i]
  BY <1>1
<1>3. stream'.queue = r /\ stream.queue = q /\ n = Len(stream.queue)
  OBVIOUS
<1>. HIDE DEF q, r, n
<1>4. ASSUME NEW k \in Audible
      PROVE  k \in Audible'
  <2>1. k \in 1..(n + 1) /\ k \in 1..(n + 1 + 1)
    BY <1>1, <1>3 DEF Audible
  <2>2. \A i \in 1..(k - 1) : r[i] = q[i]
    BY <1>1, <1>2, <2>1
  <2>3. CASE Heard /\ \A i \in 1..(k - 1) : q[i].type # "paused"
    BY <1>2, <1>3, <2>1, <2>2, <2>3 DEF Audible
  <2>4. ASSUME NEW j \in 1..(k - 1), q[j].type = "capturing",
               \A i \in (j + 1)..(k - 1) : q[i].type # "paused"
        PROVE  k \in Audible'
    <3>1. \A i \in (j + 1)..(k - 1) : i \in 1..(k - 1)
      BY <2>1
    <3>2. r[j].type = "capturing" /\ \A i \in (j + 1)..(k - 1) : r[i].type # "paused"
      BY <2>2, <2>4, <3>1
    <3>. QED
      BY <1>2, <1>3, <2>1, <3>2 DEF Audible
  <2>. QED
    BY <1>3, <2>3, <2>4 DEF Audible
<1>5. ASSUME Ready, m.type # "paused"
      PROVE  Ready'
  <2>1. n + 1 \in Audible /\ stream.id # 0
    BY <1>3, <1>5 DEF Ready
  <2>2. n + 2 \in 1..(n + 1 + 1) /\ n + 2 - 1 = n + 1 /\ n + 1 - 1 = n
    BY <1>1
  <2>3. CASE Heard /\ \A i \in 1..n : q[i].type # "paused"
    <3>1. \A i \in 1..(n + 1) : r[i].type # "paused"
      BY <1>1, <1>2, <1>5, <2>3
    <3>. QED
      BY <1>1, <1>2, <1>3, <2>1, <2>2, <2>3, <3>1 DEF Audible, Ready
  <2>4. ASSUME NEW j \in 1..n, q[j].type = "capturing",
               \A i \in (j + 1)..n : q[i].type # "paused"
        PROVE  Ready'
    <3>1. j \in 1..(n + 1) /\ r[j].type = "capturing"
      BY <1>1, <1>2, <2>4
    <3>2. \A i \in (j + 1)..(n + 1) : r[i].type # "paused"
      BY <1>1, <1>2, <1>5, <2>4
    <3>. QED
      BY <1>1, <1>2, <1>3, <2>1, <2>2, <3>1, <3>2 DEF Audible, Ready
  <2>. QED
    BY <1>3, <2>1, <2>2, <2>3, <2>4 DEF Audible
<1>6. ASSUME stream.id # 0, m.type = "capturing"
      PROVE  Ready'
  <2>1. /\ n + 2 \in 1..(n + 1 + 1) /\ n + 2 - 1 = n + 1 /\ n + 1 \in 1..(n + 1)
        /\ (n + 1 + 1)..(n + 1) = {}
    BY <1>1
  <2>2. n + 2 \in Audible'
    BY <1>1, <1>2, <1>3, <1>6, <2>1 DEF Audible
  <2>. QED
    BY <1>1, <1>2, <1>3, <1>6, <2>2 DEF Ready
<1>. QED
  BY <1>4, <1>5, <1>6

\* The worker takes the first message.
LEMMA QueueTaken ==
  ASSUME MicInv, stream.queue # <<>>,
         stream'.id = stream.id, stream'.queue = Tail(stream.queue),
         stream.queue[1].type = "capturing" => Heard',
         stream.queue[1].type = "samples" /\ Heard => Heard'
  PROVE  /\ \A k \in 1..Len(stream.queue) : k + 1 \in Audible => k \in Audible'
         /\ Ready => Ready'
<1>. DEFINE q == stream.queue
            r == Tail(q)
            n == Len(q)
<1>1. q \in Seq(MessageRecord) /\ n \in Nat \ {0} /\ q[1] \in MessageRecord
  BY DEF MicInv, TypeInv, StreamOK, StreamRecord
<1>2. Len(r) = n - 1 /\ \A i \in 1..(n - 1) : r[i] = q[i + 1]
  BY <1>1
<1>3. stream'.queue = r /\ stream.queue = q /\ n = Len(stream.queue)
  OBVIOUS
<1>. HIDE DEF q, r, n
<1>4. ASSUME NEW k \in 1..n, k + 1 \in Audible
      PROVE  k \in Audible'
  <2>1. k \in Nat /\ k # 0 /\ k <= n /\ k + 1 - 1 = k /\ k \in 1..((n - 1) + 1)
    BY <1>1
  <2>2. \A i \in 1..(k - 1) : r[i] = q[i + 1] /\ i + 1 \in 2..k
    BY <1>1, <1>2, <2>1
  <2>3. CASE Heard /\ \A i \in 1..k : q[i].type # "paused"
    <3>1. 1 \in 1..k /\ q[1].type # "paused"
      BY <2>1, <2>3
    <3>2. Heard'
      BY <1>1, <1>3, <2>3, <3>1 DEF MessageRecord
    <3>3. \A i \in 1..(k - 1) : r[i].type # "paused"
      BY <2>1, <2>2, <2>3
    <3>. QED
      BY <1>2, <1>3, <2>1, <3>2, <3>3 DEF Audible
  <2>4. ASSUME NEW j \in 1..k, q[j].type = "capturing",
               \A i \in (j + 1)..k : q[i].type # "paused"
        PROVE  k \in Audible'
    <3>1. CASE j = 1
      <4>1. Heard'
        BY <1>3, <2>4, <3>1
      <4>2. \A i \in 1..(k - 1) : r[i].type # "paused"
        BY <2>1, <2>2, <2>4, <3>1
      <4>. QED
        BY <1>2, <1>3, <2>1, <4>1, <4>2 DEF Audible
    <3>2. CASE j # 1
      <4>1. j - 1 \in 1..(k - 1) /\ j - 1 + 1 = j
        BY <2>1, <3>2
      <4>2. r[j - 1].type = "capturing"
        BY <2>2, <2>4, <4>1
      <4>3. ASSUME NEW i \in ((j - 1) + 1)..(k - 1)
            PROVE  r[i].type # "paused"
        <5>1. i \in 1..(k - 1) /\ i + 1 \in (j + 1)..k
          BY <2>1
        <5>. QED
          BY <2>2, <2>4, <5>1
      <4>. QED
        BY <1>2, <1>3, <2>1, <4>1, <4>2, <4>3 DEF Audible
    <3>. QED
      BY <3>1, <3>2
  <2>. QED
    BY <1>3, <1>4, <2>1, <2>3, <2>4 DEF Audible
<1>5. Ready => Ready'
  BY <1>1, <1>2, <1>3, <1>4 DEF Ready
<1>. QED
  BY <1>3, <1>4, <1>5

-----------------------------------------------------------------------------
(* What the helpers of the model return *)

LEMMA EstimateNat == ASSUME NEW n \in Nat PROVE Estimate(n) \in Nat
<1>1. Batches \in Nat \ {0} /\ n + Batches - 1 \in Nat
  BY MicrophoneAssumption
<1>. QED
  BY <1>1 DEF Estimate

LEMMA AfterTyped ==
  ASSUME TypeInv, NEW g \in Starts, NEW n \in Nat
  PROVE  After(g, n) \in [Starts -> Nat]
<1>1. streamTime \in [Starts -> Nat] /\ n * Batches \in Nat
  BY MicrophoneAssumption DEF TypeInv, WebOK
<1>2. streamTime[g] + n * Batches \in Nat
  BY <1>1
<1>. QED
  BY <1>1, <1>2 DEF After

LEMMA StopCommandsTyped ==
  ASSUME NEW g \in 0..MaxStarts
  PROVE  StopCommands(g) \in Seq(CommandRecord)
<1>1. g # 0 => g \in Starts
  BY MicrophoneAssumption DEF Starts
<1>. DEFINE c == Command("stop", g)
<1>2. g # 0 => c \in CommandRecord
  BY <1>1 DEF Command, CommandRecord, Commands
<1>. HIDE DEF c
<1>3. (g # 0 => <<c>> \in Seq(CommandRecord)) /\ <<>> \in Seq(CommandRecord)
  BY <1>2
<1>. QED
  BY <1>3 DEF StopCommands, c

\* A controller that fails has its handle taken and pauses nothing.
LEMMA FailTyped ==
  ASSUME TypeInv, NEW g \in Starts, Fail(g), UNCHANGED <<starts, presses>>
  PROVE  /\ WebOK' /\ commands' \in Seq(CommandRecord)
         /\ \A h \in Starts : controller'[h] = "paused" => controller[h] = "paused"
<1>. USE DEF TypeInv, WebOK
<1>1. CASE controller[g] \in {"failed", "stopped"}
  BY <1>1 DEF Fail, LinesOK
<1>2. CASE controller[g] \notin {"failed", "stopped"}
  <2>1. /\ controller' = [controller EXCEPT ![g] = "failed"]
        /\ streamTime' = After(g, 1)
        /\ handle' = [handle EXCEPT ![g] = FALSE]
        /\ commands' = commands \o StopCommands(g)
    BY <1>2 DEF Fail
  <2>2. After(g, 1) \in [Starts -> Nat]
    BY AfterTyped
  <2>3. g \in 0..MaxStarts
    BY MicrophoneAssumption DEF Starts
  <2>4. commands' \in Seq(CommandRecord)
    BY <2>1, <2>3, StopCommandsTyped DEF LinesOK
  <2>5. controller' \in [Starts -> ControllerStates] /\ handle' \in [Starts -> BOOLEAN]
    BY <2>1 DEF ControllerStates
  <2>6. \A h \in Starts : handle'[h] => controller'[h] \notin {"stopped", "failed"}
    BY <2>1
  <2>7. \A h \in Starts : controller'[h] = "paused" => controller[h] = "paused"
    BY <2>1
  <2>. QED
    BY <2>1, <2>2, <2>4, <2>5, <2>6, <2>7
<1>. QED
  BY <1>1, <1>2

LEMMA NewStreamTyped ==
  ASSUME NEW g \in 0..MaxStarts
  PROVE  NewStream(g) \in StreamRecord /\ NoStream \in StreamRecord
<1>1. 0 \in 0..MaxStarts /\ 0 \in 0..(Batches - 1)
  BY MicrophoneAssumption
<1>. DEFINE m == Message("capturing", 0)
<1>2. m \in MessageRecord
  BY DEF Message, MessageRecord
<1>. HIDE DEF m
<1>3. <<m>> \in Seq(MessageRecord) /\ <<>> \in Seq(MessageRecord)
  BY <1>2
<1>4. \A h \in 0..MaxStarts : NewStream(h) \in StreamRecord
  BY <1>1, <1>3 DEF NewStream, StreamRecord, m
<1>. DEFINE r == NewStream(0)
<1>5. r \in StreamRecord
  BY <1>1, <1>4
<1>. HIDE DEF r
<1>6. [r EXCEPT !.stopped = TRUE, !.queue = <<>>] \in StreamRecord
  BY <1>3, <1>5 DEF StreamRecord
<1>. QED
  BY <1>4, <1>6 DEF NoStream, r

\* Initially there is no stream, and nothing is on its way.
LEMMA MicStart == ASSUME MicInit PROVE MicInv
<1>1. /\ 0 \in 0..MaxStarts /\ 0 \in 0..MaxPresses /\ 0 \in 0..4
      /\ 0 \in 0..(Batches - 1) /\ 0 <= Capacity
  BY MicrophoneAssumption
<1>2. WebOK
  BY <1>1 DEF MicInit, WebOK, ControllerStates
<1>3. LinesOK
  BY DEF MicInit, LinesOK
<1>4. RunningOK
  BY <1>1 DEF MicInit, RunningOK, Idle, Commands
<1>5. stream = NoStream /\ stream.queue = <<>> /\ stream.id = 0
  BY DEF MicInit, NoStream, NewStream
<1>6. StreamOK
  BY <1>1, <1>5, NewStreamTyped DEF StreamOK
<1>7. WorkersOK
  BY <1>5 DEF MicInit, WorkersOK
<1>8. EventsInv /\ QueueInv
  BY <1>5 DEF MicInit, EventsInv, QueueInv
<1>9. CallbackInv /\ PauseInv
  BY <1>5 DEF MicInit, CallbackInv, PauseInv, Idle
<1>. QED
  BY <1>2, <1>3, <1>4, <1>6, <1>7, <1>8, <1>9 DEF MicInv, TypeInv

-----------------------------------------------------------------------------
(* The user, and the controllers *)

\* What arrives at a controller, or becomes of it, leaves what is behind as it is.
LEMMA WebStep ==
  ASSUME MicInv, UNCHANGED native, WebOK', LinesOK',
         \/ /\ events' = events
            /\ \A g \in Starts : controller'[g] = "paused" => controller[g] = "paused"
         \/ /\ events # <<>> /\ events' = Tail(events)
            /\ \A g \in Starts :
                 /\ IsCapture(events[1], g) => controller'[g] # "paused"
                 /\ controller[g] # "paused" /\ ~IsPause(events[1], g) => controller'[g] # "paused"
  PROVE  MicInv'
<1>1. UNCHANGED <<running, stream, callback, worker>>
  BY DEF native
<1>2. TypeInv'
  BY <1>1 DEF MicInv, TypeInv, RunningOK, StreamOK, WorkersOK
<1>3. events \in Seq(EventRecord) /\ Len(events) \in Nat
  BY DEF MicInv, TypeInv, LinesOK
<1>4. EventsInv' /\ \A g \in Starts : Sounds(events, g, Len(events) + 1, controller)
                                       => Sounds(events', g, Len(events') + 1, controller')
  <2>1. CASE /\ events' = events
             /\ \A g \in Starts : controller'[g] = "paused" => controller[g] = "paused"
    <3>1. \A g \in Starts : \A k \in Nat : Sounds(events, g, k, controller)
                                           => Sounds(events, g, k, controller')
      BY <2>1, SoundsCarries
    <3>2. \A k \in 1..Len(events) : events[k].by \in Starts /\ k \in Nat
      <4>1. \A k \in 1..Len(events) : events[k] \in EventRecord /\ k \in Nat
        BY <1>3
      <4>. QED
        BY <4>1 DEF EventRecord
    <3>3. EventsInv'
      BY <2>1, <3>1, <3>2 DEF MicInv, EventsInv
    <3>4. Len(events) + 1 \in Nat
      BY <1>3
    <3>. QED
      BY <2>1, <3>1, <3>3, <3>4
  <2>2. CASE /\ events # <<>> /\ events' = Tail(events)
             /\ \A g \in Starts :
                  /\ IsCapture(events[1], g) => controller'[g] # "paused"
                  /\ controller[g] # "paused" /\ ~IsPause(events[1], g) => controller'[g] # "paused"
    <3>1. \A g \in Starts : \A k \in 1..Len(events) :
            Sounds(events, g, k + 1, controller) => Sounds(events', g, k, controller')
      BY <1>3, <2>2, SoundsArrived
    <3>2. /\ Len(events') = Len(events) - 1 /\ Len(events) # 0
          /\ \A k \in 1..Len(events') :
               /\ k \in 1..Len(events) /\ k + 1 \in 1..Len(events)
               /\ events'[k] = events[k + 1] /\ events[k + 1].by \in Starts
      <4>1. \A k \in 1..Len(events) : events[k] \in EventRecord
        BY <1>3
      <4>2. \A k \in 1..Len(events) : events[k].by \in Starts
        BY <4>1 DEF EventRecord
      <4>. QED
        BY <1>3, <2>2, <4>2
    <3>3. EventsInv'
      BY <3>1, <3>2 DEF MicInv, EventsInv
    <3>4. Len(events) \in 1..Len(events) /\ Len(events') + 1 = Len(events)
      BY <1>3, <3>2
    <3>. QED
      BY <3>1, <3>3, <3>4
  <2>. QED
    BY <2>1, <2>2
<1>5. CASE stream.id = 0
  <2>1. QueueInv'
    BY <1>1, <1>5 DEF MicInv, TypeInv, WorkersOK, QueueInv
  <2>2. CallbackInv' /\ PauseInv'
    BY <1>1, <1>5 DEF MicInv, TypeInv, WorkersOK, CallbackInv, PauseInv, Ready
  <2>. QED
    BY <1>2, <1>4, <2>1, <2>2 DEF MicInv
<1>6. CASE stream.id # 0
  <2>1. stream.id \in Starts
    BY <1>6, MicrophoneAssumption DEF MicInv, TypeInv, StreamOK, StreamRecord, Starts
  <2>2. Heard => Heard'
    BY <1>1, <1>4, <2>1 DEF Heard
  <2>3. Audible \subseteq Audible' /\ (Ready => Ready')
    BY <1>1, <2>2, QueueSame
  <2>4. QueueInv'
    BY <1>1, <2>3 DEF MicInv, QueueInv
  <2>5. CallbackInv' /\ PauseInv'
    BY <1>1, <2>2, <2>3 DEF MicInv, CallbackInv, PauseInv
  <2>. QED
    BY <1>2, <1>4, <2>4, <2>5 DEF MicInv
<1>. QED
  BY <1>5, <1>6

\* What the user presses is no event, and a new controller starts unpaused.
LEMMA PressStep ==
  ASSUME MicInv, StartMicrophoneSession \/ StopSession \/ PauseCapture \/ ResumeCapture
  PROVE  MicInv'
<1>. USE DEF MicInv, TypeInv, WebOK, LinesOK
<1>1. /\ starts \in Nat /\ starts <= MaxStarts /\ MaxStarts \in Nat
      /\ presses \in Nat /\ MaxPresses \in Nat
  BY MicrophoneAssumption
<1>2. \A g \in Starts : \A cmd \in Commands : Command(cmd, g) \in CommandRecord
  BY DEF Command, CommandRecord
<1>3. StopCommands(starts) \in Seq(CommandRecord)
  BY StopCommandsTyped
<1>4. CASE StartMicrophoneSession
  <2>1. starts + 1 \in Starts /\ starts + 1 \in 0..MaxStarts /\ (starts # 0 => starts \in Starts)
    BY <1>1, <1>4 DEF StartMicrophoneSession, Starts
  <2>2. commands' \in Seq(CommandRecord)
    <3>1. <<Command("start", starts + 1)>> \in Seq(CommandRecord)
      BY <1>2, <2>1 DEF Commands
    <3>. QED
      BY <1>3, <1>4, <3>1 DEF StartMicrophoneSession
  <2>. DEFINE old == IF starts = 0 THEN controller ELSE Stopped(starts)
  <2>3. /\ old \in [Starts -> ControllerStates]
        /\ \A g \in Starts : old[g] = "paused" => controller[g] = "paused"
        /\ \A g \in Starts : g # starts => old[g] = controller[g]
    BY <2>1 DEF Stopped, ControllerStates
  <2>4. controller' = [old EXCEPT ![starts + 1] = "starting"]
    BY <1>4 DEF StartMicrophoneSession
  <2>. HIDE DEF old
  <2>5. /\ controller' \in [Starts -> ControllerStates]
        /\ \A g \in Starts : controller'[g] = "paused" => controller[g] = "paused"
        /\ \A g \in Starts : g # starts => controller'[g] \in {controller[g], "starting"}
    BY <2>3, <2>4 DEF ControllerStates
  <2>6. handle' \in [Starts -> BOOLEAN] /\ \A g \in Starts : handle'[g] => handle[g] /\ g # starts
    BY <1>1, <1>4, <2>1 DEF StartMicrophoneSession, Starts
  <2>7. WebOK' /\ LinesOK'
    BY <1>4, <2>1, <2>2, <2>5, <2>6 DEF StartMicrophoneSession
  <2>. QED
    BY <1>4, <2>5, <2>7, WebStep DEF StartMicrophoneSession
<1>5. CASE StopSession
  <2>1. starts \in Starts
    BY <1>1, <1>5 DEF StopSession, Starts
  <2>2. commands' \in Seq(CommandRecord)
    BY <1>3, <1>5 DEF StopSession
  <2>3. /\ controller' \in [Starts -> ControllerStates] /\ handle' \in [Starts -> BOOLEAN]
        /\ \A g \in Starts : controller'[g] = "paused" => controller[g] = "paused"
        /\ \A g \in Starts : handle'[g] => controller'[g] \notin {"stopped", "failed"}
    BY <1>5, <2>1 DEF StopSession, Stopped, ControllerStates
  <2>4. WebOK' /\ LinesOK'
    BY <1>5, <2>2, <2>3 DEF StopSession
  <2>. QED
    BY <1>5, <2>3, <2>4, WebStep DEF StopSession
<1>6. CASE PauseCapture \/ ResumeCapture
  <2>1. starts \in Starts /\ presses + 1 \in 0..MaxPresses
    BY <1>1, <1>6 DEF PauseCapture, ResumeCapture, Starts
  <2>2. commands' \in Seq(CommandRecord)
    <3>1. Command("pause", starts) \in CommandRecord /\ Command("resume", starts) \in CommandRecord
      BY <1>2, <2>1 DEF Commands
    <3>2. \/ commands' = Append(commands, Command("pause", starts))
          \/ commands' = Append(commands, Command("resume", starts))
      BY <1>6 DEF PauseCapture, ResumeCapture
    <3>3. \A c \in CommandRecord : Append(commands, c) \in Seq(CommandRecord)
      OBVIOUS
    <3>. QED
      BY <3>1, <3>2, <3>3
  <2>3. WebOK' /\ LinesOK'
    BY <1>6, <2>1, <2>2 DEF PauseCapture, ResumeCapture
  <2>. QED
    BY <1>6, <2>3, WebStep DEF PauseCapture, ResumeCapture
<1>. QED
  BY <1>4, <1>5, <1>6

\* An answer makes no controller paused.
LEMMA RespondsStep == ASSUME MicInv, Responds PROVE MicInv'
<1>. USE DEF MicInv, TypeInv
<1>. DEFINE r == Head(responses)
<1>1. /\ r \in ResponseRecord /\ responses' \in Seq(ResponseRecord)
      /\ UNCHANGED <<starts, presses, events, native>>
  BY DEF Responds, LinesOK
<1>2. r.by \in Starts
  BY <1>1 DEF ResponseRecord
<1>3. \/ /\ commands' = Append(commands, Command("stop", r.by))
         /\ UNCHANGED <<controller, handle, streamTime>>
      \/ /\ handle' = [handle EXCEPT ![r.by] = TRUE]
         /\ controller' = [controller EXCEPT ![r.by] = "capturing"]
         /\ UNCHANGED <<streamTime, commands>>
      \/ Fail(r.by)
      \/ UNCHANGED <<controller, handle, streamTime, commands>>
  BY DEF Responds
<1>. HIDE DEF r
<1>4. /\ WebOK' /\ commands' \in Seq(CommandRecord)
      /\ \A g \in Starts : controller'[g] = "paused" => controller[g] = "paused"
  <2>1. CASE /\ commands' = Append(commands, Command("stop", r.by))
             /\ UNCHANGED <<controller, handle, streamTime>>
    <3>1. Command("stop", r.by) \in CommandRecord
      BY <1>2 DEF Command, CommandRecord, Commands
    <3>2. \A c \in CommandRecord : Append(commands, c) \in Seq(CommandRecord)
      BY DEF LinesOK
    <3>. QED
      BY <1>1, <2>1, <3>1, <3>2 DEF WebOK
  <2>2. CASE /\ handle' = [handle EXCEPT ![r.by] = TRUE]
             /\ controller' = [controller EXCEPT ![r.by] = "capturing"]
             /\ UNCHANGED <<streamTime, commands>>
    <3>1. /\ controller' \in [Starts -> ControllerStates] /\ handle' \in [Starts -> BOOLEAN]
          /\ \A g \in Starts : controller'[g] = "paused" => controller[g] = "paused"
          /\ \A g \in Starts : handle'[g] => controller'[g] \notin {"stopped", "failed"}
      BY <1>2, <2>2 DEF WebOK, ControllerStates
    <3>. QED
      BY <1>1, <2>2, <3>1 DEF WebOK, LinesOK
  <2>3. CASE Fail(r.by)
    BY <1>1, <1>2, <2>3, FailTyped
  <2>4. CASE UNCHANGED <<controller, handle, streamTime, commands>>
    BY <1>1, <2>4 DEF WebOK, LinesOK
  <2>. QED
    BY <1>3, <2>1, <2>2, <2>3, <2>4
<1>5. LinesOK'
  BY <1>1, <1>4 DEF LinesOK
<1>. QED
  BY <1>1, <1>4, <1>5, WebStep

LEMMA MaxTyped == ASSUME NEW n \in Nat PROVE Max({1, n}) \in Nat
<1>1. \E x \in {1, n} : \A y \in {1, n} : x >= y
  BY DEF Max
<1>. QED
  BY <1>1 DEF Max

\* The first event arrives: what was heard behind it is still heard.
LEMMA EventArrivesStep == ASSUME MicInv, EventArrives PROVE MicInv'
<1>. USE DEF MicInv, TypeInv
<1>. DEFINE e == events[1]
<1>1. /\ events \in Seq(EventRecord) /\ events # <<>> /\ events' = Tail(events)
      /\ e \in EventRecord /\ Head(events) = e /\ events' \in Seq(EventRecord)
      /\ UNCHANGED <<starts, presses, responses, native>>
  BY DEF EventArrives, LinesOK
<1>2. /\ e.by \in Starts /\ e.chunks \in Nat
  BY <1>1 DEF EventRecord
<1>3. \/ /\ Ignores(e) /\ UNCHANGED <<controller, handle, streamTime, commands>>
      \/ /\ ~Ignores(e) /\ e.type \in {"chunk", "gap"}
         /\ streamTime' = After(e.by, Max({1, e.chunks}))
         /\ UNCHANGED <<controller, handle, commands>>
      \/ ~Ignores(e) /\ e.type = "error" /\ Fail(e.by)
      \/ /\ ~Ignores(e) /\ e.type \in {"paused", "capturing"}
         /\ controller' = [controller EXCEPT ![e.by] = e.type]
         /\ UNCHANGED <<handle, streamTime, commands>>
  BY <1>1 DEF EventArrives
<1>. DEFINE Effect ==
       \A g \in Starts : /\ IsCapture(e, g) => controller'[g] # "paused"
                         /\ controller[g] # "paused" /\ ~IsPause(e, g) => controller'[g] # "paused"
<1>. HIDE DEF e
<1>4. WebOK' /\ commands' \in Seq(CommandRecord) /\ Effect
  <2>1. CASE Ignores(e) /\ UNCHANGED <<controller, handle, streamTime, commands>>
    <3>1. e.type = "capturing" => controller[e.by] \in {"stopped", "starting"}
      BY <2>1 DEF Ignores
    <3>2. Effect
      BY <2>1, <3>1 DEF IsCapture
    <3>. QED
      BY <1>1, <2>1, <3>2 DEF WebOK, LinesOK
  <2>2. CASE /\ e.type \in {"chunk", "gap"}
             /\ streamTime' = After(e.by, Max({1, e.chunks}))
             /\ UNCHANGED <<controller, handle, commands>>
    <3>1. streamTime' \in [Starts -> Nat]
      BY <1>2, <2>2, MaxTyped, AfterTyped
    <3>2. Effect
      BY <2>2 DEF IsCapture
    <3>. QED
      BY <1>1, <2>2, <3>1, <3>2 DEF WebOK, LinesOK
  <2>3. CASE e.type = "error" /\ Fail(e.by)
    <3>1. /\ WebOK' /\ commands' \in Seq(CommandRecord)
          /\ \A g \in Starts : controller'[g] = "paused" => controller[g] = "paused"
      BY <1>1, <1>2, <2>3, FailTyped
    <3>. QED
      BY <2>3, <3>1 DEF IsCapture
  <2>4. CASE /\ ~Ignores(e) /\ e.type \in {"paused", "capturing"}
             /\ controller' = [controller EXCEPT ![e.by] = e.type]
             /\ UNCHANGED <<handle, streamTime, commands>>
    <3>1. /\ controller' \in [Starts -> ControllerStates]
          /\ \A g \in Starts : controller'[g] = IF g = e.by THEN e.type ELSE controller[g]
      BY <1>2, <2>4 DEF WebOK, ControllerStates
    <3>2. Effect
      BY <2>4, <3>1 DEF IsCapture, IsPause
    <3>3. \A g \in Starts : handle[g] => controller'[g] \notin {"stopped", "failed"}
      BY <2>4, <3>1 DEF WebOK
    <3>. QED
      BY <1>1, <2>4, <3>1, <3>2, <3>3 DEF WebOK, LinesOK
  <2>. QED
    BY <1>3, <2>1, <2>2, <2>3, <2>4
<1>5. LinesOK'
  BY <1>1, <1>4 DEF LinesOK
<1>. QED
  BY <1>1, <1>4, <1>5, WebStep DEF e

-----------------------------------------------------------------------------
(* The main thread *)

\* What a step keeps that touches neither the queue nor the events.
LEMMA SameQueue ==
  ASSUME MicInv, UNCHANGED <<web, events, stream.id, stream.queue, stream.epoch>>
  PROVE  EventsInv' /\ QueueInv' /\ (Ready => Ready') /\ (Heard => Heard')
<1>1. controller' = controller
  BY DEF web
<1>2. Heard => Heard'
  BY <1>1 DEF Heard
<1>3. Audible \subseteq Audible' /\ (Ready => Ready')
  BY <1>2, QueueSame
<1>4. EventsInv'
  BY <1>1 DEF MicInv, EventsInv
<1>5. QueueInv'
  BY <1>3 DEF MicInv, QueueInv
<1>. QED
  BY <1>2, <1>3, <1>4, <1>5

LEMMA WebSame == ASSUME MicInv, UNCHANGED web PROVE WebOK'
BY DEF web, MicInv, TypeInv, WebOK

LEMMA ReturnTyped ==
  ASSUME MicInv, running.cmd # "none", NEW ok \in BOOLEAN, Return(ok)
  PROVE  /\ RunningOK' /\ running' = Idle /\ running'.cmd = "none"
         /\ responses' \in Seq(ResponseRecord)
<1>. USE DEF MicInv, TypeInv
<1>1. [cmd |-> running.cmd, by |-> running.by, ok |-> ok] \in ResponseRecord
  BY DEF RunningOK, ResponseRecord
<1>2. responses' \in Seq(ResponseRecord)
  BY <1>1 DEF Return, LinesOK
<1>3. Idle.cmd = "none" /\ Idle \in [cmd : Commands \cup {"none"}, by : 0..MaxStarts, step : 0..4]
  BY MicrophoneAssumption DEF Idle
<1>. QED
  BY <1>2, <1>3 DEF Return, RunningOK, Commands

LEMMA ProceedTyped ==
  ASSUME MicInv, running.cmd # "none", Proceed,
         IF running.cmd = "pause" THEN running.step < 4 ELSE running.step < 2
  PROVE  /\ RunningOK' /\ responses' \in Seq(ResponseRecord)
         /\ running'.cmd = running.cmd /\ running'.step = running.step + 1
<1>. USE DEF MicInv, TypeInv
<1>1. /\ running.cmd \in Commands /\ running.step \in 1..4 /\ running.by \in Starts
      /\ running.cmd # "pause" => running.step \in 1..2
  BY DEF RunningOK, Commands
<1>2. /\ running'.cmd = running.cmd /\ running'.step = running.step + 1 /\ running'.by = running.by
      /\ running' \in [cmd : Commands \cup {"none"}, by : 0..MaxStarts, step : 0..4]
      /\ responses' = responses
  BY <1>1 DEF Proceed, RunningOK
<1>3. /\ running.step + 1 # 0
      /\ running.cmd # "pause" => running.step + 1 \in 1..2
  BY <1>1
<1>4. RunningOK'
  BY <1>1, <1>2, <1>3 DEF RunningOK, Commands
<1>. QED
  BY <1>2, <1>4 DEF LinesOK

\* The next command leaves the line for the main thread.
LEMMA NextCommandStep == ASSUME MicInv, NextCommand PROVE MicInv'
<1>. USE DEF MicInv, TypeInv
<1>1. /\ commands \in Seq(CommandRecord) /\ commands # <<>>
      /\ running' \in CommandRecord /\ commands' \in Seq(CommandRecord)
      /\ UNCHANGED <<web, responses, events, stream, callback, worker>>
  BY DEF NextCommand, LinesOK
<1>2. /\ running'.cmd \in Commands /\ running'.by \in Starts /\ running'.step = 1
      /\ running' = [cmd |-> running'.cmd, by |-> running'.by, step |-> running'.step]
  BY <1>1 DEF CommandRecord
<1>3. \A g \in Starts : g \in 0..MaxStarts
  BY MicrophoneAssumption DEF Starts
<1>4. RunningOK'
  BY <1>2, <1>3 DEF RunningOK, Commands
<1>5. WebOK' /\ LinesOK' /\ StreamOK' /\ WorkersOK'
  BY <1>1, WebSame DEF LinesOK, StreamOK, WorkersOK
<1>6. EventsInv' /\ QueueInv' /\ (Ready => Ready') /\ (Heard => Heard')
  BY <1>1, SameQueue
<1>7. CallbackInv' /\ PauseInv'
  BY <1>1, <1>2, <1>6 DEF CallbackInv, PauseInv
<1>. QED
  BY <1>4, <1>5, <1>6, <1>7

LEMMA SignalStopStep == ASSUME MicInv, SignalStop PROVE MicInv'
<1>. USE DEF MicInv, TypeInv
<1>1. /\ running.cmd \in {"start", "stop"} /\ running.step = 1 /\ Proceed
      /\ stream' = [stream EXCEPT !.stopped = TRUE]
      /\ UNCHANGED <<web, commands, events, callback, worker>>
  BY DEF SignalStop, StopActiveStream, AtStep
<1>2. /\ RunningOK' /\ responses' \in Seq(ResponseRecord)
      /\ running'.cmd = running.cmd
  BY <1>1, ProceedTyped
<1>3. stream' \in StreamRecord /\ UNCHANGED <<stream.id, stream.queue, stream.epoch, stream.paused>>
  BY <1>1 DEF StreamOK, StreamRecord
<1>4. WebOK' /\ LinesOK' /\ StreamOK' /\ WorkersOK'
  BY <1>1, <1>2, <1>3, WebSame DEF LinesOK, StreamOK, WorkersOK
<1>5. EventsInv' /\ QueueInv' /\ (Ready => Ready') /\ (Heard => Heard')
  BY <1>1, <1>3, SameQueue
<1>6. CallbackInv' /\ PauseInv'
  BY <1>1, <1>2, <1>3, <1>5 DEF CallbackInv, PauseInv
<1>. QED
  BY <1>2, <1>4, <1>5, <1>6

\* Commands that have nothing to do.
LEMMA RefusedStep == ASSUME MicInv, AlreadyActive \/ NotActive PROVE MicInv'
<1>. USE DEF MicInv, TypeInv
<1>1. /\ running.cmd # "none" /\ Return(FALSE)
      /\ UNCHANGED <<web, commands, events, stream, callback, worker>>
  BY DEF AlreadyActive, NotActive, AtStep
<1>2. RunningOK' /\ running'.cmd = "none" /\ responses' \in Seq(ResponseRecord)
  BY <1>1, ReturnTyped
<1>3. WebOK' /\ LinesOK' /\ StreamOK' /\ WorkersOK'
  BY <1>1, <1>2, WebSame DEF LinesOK, StreamOK, WorkersOK
<1>4. EventsInv' /\ QueueInv' /\ (Ready => Ready') /\ (Heard => Heard')
  BY <1>1, SameQueue
<1>5. CallbackInv' /\ PauseInv'
  BY <1>1, <1>2, <1>4 DEF CallbackInv, PauseInv
<1>. QED
  BY <1>2, <1>3, <1>4, <1>5

\* The manager has a new stream, or none.
LEMMA NewStreamStep == ASSUME MicInv, StartStream \/ StopStream PROVE MicInv'
<1>. USE DEF MicInv, TypeInv
<1>1. /\ running.cmd \in {"start", "stop"}
      /\ \/ stream.id = 0
         \/ worker = "ended" /\ callback.next = "idle"
      /\ UNCHANGED <<web, commands, events, callback>>
  BY DEF StartStream, StopStream, Joined, AtStep
<1>2. /\ worker = "ended" /\ callback.next = "idle" /\ running.by \in Starts /\ running.by # 0
      /\ running.by \in 0..MaxStarts
  BY <1>1, MicrophoneAssumption DEF WorkersOK, RunningOK, Starts
<1>3. /\ \/ stream' = NewStream(running.by) /\ worker' = "report"
         \/ stream' = NoStream /\ worker' = "ended"
      /\ \E ok \in BOOLEAN : Return(ok)
  BY <1>2 DEF StartStream, StopStream
<1>4. RunningOK' /\ running'.cmd = "none" /\ responses' \in Seq(ResponseRecord)
  BY <1>1, <1>3, ReturnTyped
<1>5. EventsInv'
  BY <1>1 DEF EventsInv, web
<1>6. CASE stream' = NewStream(running.by) /\ worker' = "report"
  <2>. DEFINE m == Message("capturing", 0)
  <2>1. /\ stream' \in StreamRecord /\ stream'.id = running.by /\ stream'.queue = <<m>>
        /\ stream'.epoch = 0
    BY <1>2, <1>6, NewStreamTyped DEF NewStream
  <2>2. m.type = "capturing"
    BY DEF Message
  <2>. HIDE DEF m
  <2>3. Len(<<m>>) = 1 /\ <<m>>[1] = m /\ 1 <= Capacity
    BY MicrophoneAssumption
  <2>4. 2 \in Audible'
    <3>1. /\ 2 \in 1..(1 + 1) /\ 1 \in 1..(2 - 1) /\ (1 + 1)..(2 - 1) = {}
      OBVIOUS
    <3>. QED
      BY <2>1, <2>2, <2>3, <3>1 DEF Audible
  <2>5. Ready'
    BY <1>2, <2>1, <2>3, <2>4 DEF Ready
  <2>6. QueueInv'
    BY <2>1, <2>2, <2>3 DEF QueueInv
  <2>7. WebOK' /\ LinesOK' /\ StreamOK' /\ WorkersOK'
    BY <1>1, <1>2, <1>4, <1>6, <2>1, <2>3, WebSame DEF LinesOK, StreamOK, WorkersOK
  <2>8. CallbackInv' /\ PauseInv'
    BY <1>1, <1>2, <1>4, <1>6, <2>5 DEF CallbackInv, PauseInv
  <2>. QED
    BY <1>4, <1>5, <2>6, <2>7, <2>8
<1>7. CASE stream' = NoStream /\ worker' = "ended"
  <2>1. /\ stream' \in StreamRecord /\ stream'.id = 0 /\ stream'.queue = <<>>
    <3>1. NoStream.id = 0 /\ NoStream.queue = <<>>
      BY DEF NoStream, NewStream
    <3>. QED
      BY <1>2, <1>7, <3>1, NewStreamTyped
  <2>2. Len(<<>>) = 0 /\ 0 <= Capacity
    BY MicrophoneAssumption
  <2>3. WebOK' /\ LinesOK' /\ StreamOK' /\ WorkersOK'
    BY <1>1, <1>2, <1>4, <1>7, <2>1, <2>2, WebSame DEF LinesOK, StreamOK, WorkersOK
  <2>4. QueueInv'
    BY <2>1, <2>2 DEF QueueInv
  <2>5. CallbackInv' /\ PauseInv'
    BY <1>1, <1>2, <1>4, <1>7, <2>1 DEF CallbackInv, PauseInv
  <2>. QED
    BY <1>4, <1>5, <2>3, <2>4, <2>5
<1>. QED
  BY <1>3, <1>6, <1>7

\* From the flag on, no callback that looks goes on.
LEMMA PauseStreamStep == ASSUME MicInv, PauseStream PROVE MicInv'
<1>. USE DEF MicInv, TypeInv
<1>1. /\ running.cmd = "pause" /\ running.step = 1 /\ stream.id # 0 /\ Proceed
      /\ stream' = [stream EXCEPT !.paused = TRUE]
      /\ UNCHANGED <<web, commands, events, callback, worker>>
  BY DEF PauseStream, AtStep
<1>2. /\ RunningOK' /\ responses' \in Seq(ResponseRecord)
      /\ running'.cmd = "pause" /\ running'.step = 2
  BY <1>1, ProceedTyped
<1>3. /\ stream' \in StreamRecord /\ stream'.paused
      /\ UNCHANGED <<stream.id, stream.queue, stream.epoch>>
  BY <1>1 DEF StreamOK, StreamRecord
<1>4. WebOK' /\ LinesOK' /\ StreamOK' /\ WorkersOK'
  BY <1>1, <1>2, <1>3, WebSame DEF LinesOK, StreamOK, WorkersOK
<1>5. EventsInv' /\ QueueInv' /\ (Ready => Ready') /\ (Heard => Heard')
  BY <1>1, <1>3, SameQueue
<1>6. CallbackInv' /\ PauseInv'
  BY <1>1, <1>2, <1>3, <1>5 DEF CallbackInv, PauseInv
<1>. QED
  BY <1>2, <1>4, <1>5, <1>6

\* Whatever was read before is of an epoch that is over.
LEMMA PauseNewEpochStep == ASSUME MicInv, PauseNewEpoch PROVE MicInv'
<1>. USE DEF MicInv, TypeInv
<1>1. /\ running.cmd = "pause" /\ running.step = 2 /\ Proceed
      /\ stream' = [stream EXCEPT !.epoch = stream.epoch + 1]
      /\ UNCHANGED <<web, commands, events, callback, worker>>
  BY DEF PauseNewEpoch, AtStep
<1>2. /\ RunningOK' /\ responses' \in Seq(ResponseRecord)
      /\ running'.cmd = "pause" /\ running'.step = 3
  BY <1>1, ProceedTyped
<1>3. /\ stream' \in StreamRecord /\ stream'.epoch = stream.epoch + 1 /\ stream.epoch \in Nat
      /\ UNCHANGED <<stream.id, stream.queue, stream.paused>>
  BY <1>1, SMTT(30) DEF StreamOK, StreamRecord
<1>4. WebOK' /\ LinesOK' /\ StreamOK' /\ WorkersOK'
  BY <1>1, <1>2, <1>3, WebSame DEF LinesOK, StreamOK, WorkersOK
<1>5. controller' = controller /\ (Heard => Heard')
  BY <1>1, <1>3 DEF Heard, web
<1>6. Ready => Ready'
  BY <1>3, <1>5, QueueSame
<1>7. EventsInv'
  BY <1>1, <1>5 DEF EventsInv
<1>8. \A k \in 1..Len(stream.queue) : stream.queue[k].epoch \in Nat
  <2>1. stream.queue \in Seq(MessageRecord)
    BY DEF StreamOK, StreamRecord
  <2>2. \A k \in 1..Len(stream.queue) : stream.queue[k] \in MessageRecord
    BY <2>1
  <2>. QED
    BY <2>2 DEF MessageRecord
<1>9. QueueInv'
  <2>. SUFFICES ASSUME NEW k \in 1..Len(stream.queue), stream.queue[k].type = "samples"
                PROVE  /\ stream.queue[k].epoch <= stream.epoch + 1
                       /\ stream.queue[k].epoch # stream.epoch + 1
    BY <1>3 DEF QueueInv
  <2>1. stream.queue[k].epoch <= stream.epoch /\ stream.queue[k].epoch \in Nat
    BY <1>8 DEF QueueInv
  <2>. QED
    BY <1>3, <2>1
<1>10. callback.epoch \in Nat
  BY DEF WorkersOK
<1>11. callback.next # "idle"
         => callback.epoch <= stream.epoch + 1 /\ callback.epoch # stream.epoch + 1
  BY <1>3, <1>10 DEF CallbackInv
<1>12. CallbackInv'
  BY <1>1, <1>3, <1>11 DEF CallbackInv
<1>13. PauseInv'
  BY <1>1, <1>2, <1>3, <1>5, <1>6 DEF PauseInv
<1>. QED
  BY <1>2, <1>4, <1>7, <1>9, <1>12, <1>13

\* A reset of the processor neither queues nor announces anything.
LEMMA PauseResetsStep == ASSUME MicInv, PauseResets PROVE MicInv'
<1>. USE DEF MicInv, TypeInv
<1>1. /\ running.cmd = "pause" /\ running.step = 3 /\ Proceed
      /\ stream' = [stream EXCEPT !.output = 0, !.resetOutput = @ + stream.output]
      /\ UNCHANGED <<web, commands, events, callback, worker>>
  BY DEF PauseResets, AtStep, Reset
<1>2. /\ RunningOK' /\ responses' \in Seq(ResponseRecord)
      /\ running'.cmd = "pause" /\ running'.step = 4
  BY <1>1, ProceedTyped
<1>3. /\ stream' \in StreamRecord
      /\ UNCHANGED <<stream.id, stream.queue, stream.epoch, stream.paused>>
  <2>1. 0 \in 0..(Batches - 1) /\ stream.resetOutput + stream.output \in Nat
    BY MicrophoneAssumption DEF StreamOK, StreamRecord
  <2>. QED
    BY <1>1, <2>1 DEF StreamOK, StreamRecord
<1>4. WebOK' /\ LinesOK' /\ StreamOK' /\ WorkersOK'
  BY <1>1, <1>2, <1>3, WebSame DEF LinesOK, StreamOK, WorkersOK
<1>5. EventsInv' /\ QueueInv' /\ (Ready => Ready') /\ (Heard => Heard')
  BY <1>1, <1>3, SameQueue
<1>6. CallbackInv' /\ PauseInv'
  BY <1>1, <1>2, <1>3, <1>5 DEF CallbackInv, PauseInv
<1>. QED
  BY <1>2, <1>4, <1>5, <1>6

\* What a step keeps that adds a message.
LEMMA MessageAdded ==
  ASSUME MicInv, UNCHANGED <<web, events>>, NEW m \in MessageRecord,
         stream' = [stream EXCEPT !.queue = Append(@, m)], Len(stream.queue) < Capacity,
         m.type = "samples" => m.epoch <= stream.epoch /\ (m.epoch = stream.epoch => Ready)
  PROVE  /\ EventsInv' /\ QueueInv' /\ StreamOK'
         /\ UNCHANGED <<stream.id, stream.epoch, stream.paused>> /\ (Heard => Heard')
         /\ Ready /\ m.type # "paused" => Ready'
         /\ stream.id # 0 /\ m.type = "capturing" => Ready'
<1>. USE DEF MicInv, TypeInv
<1>. DEFINE q == stream.queue
            r == Append(q, m)
<1>1. /\ q \in Seq(MessageRecord) /\ r \in Seq(MessageRecord) /\ Len(q) \in Nat /\ Capacity \in Nat
      /\ Len(r) = Len(q) + 1 /\ r[Len(q) + 1] = m /\ \A i \in 1..Len(q) : r[i] = q[i]
  BY MicrophoneAssumption, SMTT(30) DEF StreamOK, StreamRecord
<1>2. stream.queue = q /\ stream' = [stream EXCEPT !.queue = r]
  OBVIOUS
<1>. HIDE DEF q, r
<1>3. /\ stream' \in StreamRecord /\ stream'.queue = r
      /\ UNCHANGED <<stream.id, stream.epoch, stream.paused>>
  BY <1>1, <1>2 DEF StreamOK, StreamRecord
<1>4. controller' = controller /\ (Heard => Heard')
  BY <1>3 DEF Heard, web
<1>5. /\ Audible \subseteq Audible'
      /\ Ready /\ m.type # "paused" => Ready'
      /\ stream.id # 0 /\ m.type = "capturing" => Ready'
  BY <1>3, <1>4, QueueGrows DEF q, r
<1>6. EventsInv'
  BY <1>4 DEF EventsInv
<1>7. Len(r) <= Capacity
  BY <1>1, <1>2
<1>8. StreamOK'
  BY <1>3, <1>7 DEF StreamOK
<1>9. QueueInv'
  <2>. SUFFICES ASSUME NEW k \in 1..Len(r), r[k].type = "samples"
                PROVE  /\ r[k].epoch <= stream.epoch
                       /\ r[k].epoch = stream.epoch => k \in Audible'
    BY <1>3 DEF QueueInv
  <2>1. CASE k \in 1..Len(q)
    BY <1>1, <1>2, <1>5, <2>1 DEF QueueInv
  <2>2. CASE k = Len(q) + 1
    BY <1>1, <1>2, <1>5, <2>2 DEF Ready
  <2>. QED
    BY <1>1, <2>1, <2>2
<1>. QED
  BY <1>3, <1>4, <1>5, <1>6, <1>8, <1>9

\* The announcement of a pause is behind everything that was captured before it.
LEMMA PauseAnnouncesStep == ASSUME MicInv, PauseAnnounces PROVE MicInv'
<1>. USE DEF MicInv, TypeInv
<1>. DEFINE m == Message("paused", 0)
<1>1. /\ running.cmd = "pause" /\ running.step = 4
      /\ \/ /\ worker # "ended" /\ Len(stream.queue) < Capacity
            /\ stream' = [stream EXCEPT !.queue = Append(@, m)] /\ Return(TRUE)
         \/ Return(FALSE) /\ UNCHANGED stream
      /\ UNCHANGED <<web, commands, events, callback, worker>>
  BY DEF PauseAnnounces, AtStep, SendState
<1>2. m \in MessageRecord /\ m.type = "paused"
  BY DEF Message, MessageRecord
<1>. HIDE DEF m
<1>3. RunningOK' /\ running'.cmd = "none" /\ responses' \in Seq(ResponseRecord)
  BY <1>1, ReturnTyped
<1>4. stream.id # 0 /\ stream.paused /\ (callback.next = "enqueue" => callback.epoch # stream.epoch)
  BY <1>1 DEF PauseInv, CallbackInv
<1>5. CASE stream' = [stream EXCEPT !.queue = Append(@, m)] /\ Len(stream.queue) < Capacity
  <2>1. /\ EventsInv' /\ QueueInv' /\ StreamOK'
        /\ UNCHANGED <<stream.id, stream.epoch, stream.paused>> /\ (Heard => Heard')
    BY <1>1, <1>2, <1>5, MessageAdded
  <2>2. WebOK' /\ LinesOK' /\ WorkersOK'
    BY <1>1, <1>3, <1>4, <2>1, WebSame DEF LinesOK, WorkersOK
  <2>3. CallbackInv' /\ PauseInv'
    BY <1>1, <1>3, <1>4, <2>1 DEF CallbackInv, PauseInv
  <2>. QED
    BY <1>3, <2>1, <2>2, <2>3
<1>6. CASE UNCHANGED stream
  <2>1. EventsInv' /\ QueueInv' /\ (Ready => Ready') /\ (Heard => Heard')
    BY <1>1, <1>6, SameQueue
  <2>2. WebOK' /\ LinesOK' /\ StreamOK' /\ WorkersOK'
    BY <1>1, <1>3, <1>6, WebSame DEF LinesOK, StreamOK, WorkersOK
  <2>3. CallbackInv' /\ PauseInv'
    BY <1>1, <1>3, <1>6, <2>1 DEF CallbackInv, PauseInv
  <2>. QED
    BY <1>3, <2>1, <2>2, <2>3
<1>. QED
  BY <1>1, <1>5, <1>6

\* The announcement of a resume makes the place behind it audible.
LEMMA ResumeAnnouncesStep == ASSUME MicInv, ResumeAnnounces PROVE MicInv'
<1>. USE DEF MicInv, TypeInv
<1>. DEFINE m == Message("capturing", 0)
<1>1. /\ running.cmd = "resume" /\ running.step = 1 /\ stream.id # 0
      /\ \/ /\ worker # "ended" /\ Len(stream.queue) < Capacity
            /\ stream' = [stream EXCEPT !.queue = Append(@, m)] /\ Proceed
         \/ Return(FALSE) /\ UNCHANGED stream
      /\ UNCHANGED <<web, commands, events, callback, worker>>
  BY DEF ResumeAnnounces, AtStep, SendState
<1>2. m \in MessageRecord /\ m.type = "capturing"
  BY DEF Message, MessageRecord
<1>. HIDE DEF m
<1>3. CASE /\ stream' = [stream EXCEPT !.queue = Append(@, m)]
           /\ Len(stream.queue) < Capacity /\ Proceed
  <2>1. /\ EventsInv' /\ QueueInv' /\ StreamOK' /\ Ready'
        /\ UNCHANGED <<stream.id, stream.epoch, stream.paused>> /\ (Heard => Heard')
    BY <1>1, <1>2, <1>3, MessageAdded
  <2>2. RunningOK' /\ running'.cmd = "resume" /\ responses' \in Seq(ResponseRecord)
    BY <1>1, <1>3, ProceedTyped
  <2>3. WebOK' /\ LinesOK' /\ WorkersOK'
    BY <1>1, <2>1, <2>2, WebSame DEF LinesOK, WorkersOK
  <2>4. CallbackInv' /\ PauseInv'
    BY <1>1, <2>1, <2>2 DEF CallbackInv, PauseInv
  <2>. QED
    BY <2>1, <2>2, <2>3, <2>4
<1>4. CASE UNCHANGED stream /\ Return(FALSE)
  <2>1. EventsInv' /\ QueueInv' /\ (Ready => Ready') /\ (Heard => Heard')
    BY <1>1, <1>4, SameQueue
  <2>2. RunningOK' /\ running'.cmd = "none" /\ responses' \in Seq(ResponseRecord)
    BY <1>1, <1>4, ReturnTyped
  <2>3. WebOK' /\ LinesOK' /\ StreamOK' /\ WorkersOK'
    BY <1>1, <1>4, <2>2, WebSame DEF LinesOK, StreamOK, WorkersOK
  <2>4. CallbackInv' /\ PauseInv'
    BY <1>1, <1>4, <2>1, <2>2 DEF CallbackInv, PauseInv
  <2>. QED
    BY <2>1, <2>2, <2>3, <2>4
<1>. QED
  BY <1>1, <1>3, <1>4

\* The stream resumes behind its announcement.
LEMMA ResumeStreamStep == ASSUME MicInv, ResumeStream PROVE MicInv'
<1>. USE DEF MicInv, TypeInv
<1>1. /\ running.cmd = "resume" /\ running.step = 2 /\ Return(TRUE)
      /\ stream' = [stream EXCEPT !.paused = FALSE]
      /\ UNCHANGED <<web, commands, events, callback, worker>>
  BY DEF ResumeStream, AtStep
<1>2. RunningOK' /\ running'.cmd = "none" /\ responses' \in Seq(ResponseRecord)
  BY <1>1, ReturnTyped
<1>3. stream' \in StreamRecord /\ UNCHANGED <<stream.id, stream.queue, stream.epoch>>
  BY <1>1 DEF StreamOK, StreamRecord
<1>4. WebOK' /\ LinesOK' /\ StreamOK' /\ WorkersOK'
  BY <1>1, <1>2, <1>3, WebSame DEF LinesOK, StreamOK, WorkersOK
<1>5. EventsInv' /\ QueueInv' /\ Ready' /\ (Heard => Heard')
  BY <1>1, <1>3, SameQueue DEF PauseInv
<1>6. CallbackInv' /\ PauseInv'
  BY <1>1, <1>2, <1>3, <1>5 DEF CallbackInv, PauseInv
<1>. QED
  BY <1>2, <1>4, <1>5, <1>6

LEMMA ExecuteStep == ASSUME MicInv, Execute PROVE MicInv'
BY NextCommandStep, SignalStopStep, RefusedStep, NewStreamStep, PauseStreamStep,
   PauseNewEpochStep, PauseResetsStep, PauseAnnouncesStep, ResumeAnnouncesStep, ResumeStreamStep
   DEF Execute

-----------------------------------------------------------------------------
(* The audio callback *)

LEMMA DeviceStep == ASSUME MicInv, DeviceDelivers \/ DeviceFails PROVE MicInv'
<1>. USE DEF MicInv, TypeInv
<1>1. /\ stream.id # 0
      /\ UNCHANGED <<web, commands, responses, events, running, worker>>
      /\ stream' \in {stream, [stream EXCEPT !.failed = TRUE]}
      /\ \/ callback' = [next |-> "look", epoch |-> stream.epoch]
         \/ callback' = callback
  BY DEF DeviceDelivers, DeviceFails
<1>2. stream' \in StreamRecord /\ UNCHANGED <<stream.id, stream.queue, stream.epoch, stream.paused>>
  BY <1>1 DEF StreamOK, StreamRecord
<1>3. stream.epoch \in Nat /\ stream.epoch <= stream.epoch
  BY DEF StreamOK, StreamRecord
<1>4. WebOK' /\ LinesOK' /\ RunningOK' /\ StreamOK'
  BY <1>1, <1>2, WebSame DEF LinesOK, RunningOK, StreamOK
<1>5. WorkersOK'
  BY <1>1, <1>2, <1>3 DEF WorkersOK
<1>6. EventsInv' /\ QueueInv' /\ (Ready => Ready') /\ (Heard => Heard')
  BY <1>1, <1>2, SameQueue
<1>7. CallbackInv' /\ PauseInv'
  BY <1>1, <1>2, <1>3, <1>6 DEF CallbackInv, PauseInv
<1>. QED
  BY <1>4, <1>5, <1>6, <1>7

\* The callback holds samples only if the stream was not paused.
LEMMA CallbackLooksStep == ASSUME MicInv, CallbackLooks PROVE MicInv'
<1>. USE DEF MicInv, TypeInv
<1>1. /\ callback.next = "look"
      /\ UNCHANGED <<web, commands, responses, events, running, worker>>
      /\ \/ callback' = [callback EXCEPT !.next = "idle"] /\ UNCHANGED stream
         \/ /\ ~stream.paused /\ callback' = [callback EXCEPT !.next = "enqueue"]
            /\ stream' = [stream EXCEPT !.captured = stream.captured + 1]
  BY DEF CallbackLooks
<1>2. stream.id # 0
  BY <1>1 DEF WorkersOK
<1>3. stream' \in StreamRecord /\ UNCHANGED <<stream.id, stream.queue, stream.epoch, stream.paused>>
  BY <1>1 DEF StreamOK, StreamRecord
<1>4. callback'.epoch = callback.epoch /\ callback'.next \in {"idle", "enqueue"}
      /\ (callback'.next = "enqueue" => ~stream.paused)
      /\ callback' \in [next : {"idle", "look", "enqueue"}, epoch : Nat]
  BY <1>1 DEF WorkersOK
<1>5. WebOK' /\ LinesOK' /\ RunningOK' /\ StreamOK' /\ WorkersOK'
  BY <1>1, <1>2, <1>3, <1>4, WebSame DEF LinesOK, RunningOK, StreamOK, WorkersOK
<1>6. EventsInv' /\ QueueInv' /\ (Ready => Ready') /\ (Heard => Heard')
  BY <1>1, <1>3, SameQueue
<1>7. callback'.next = "enqueue" => Ready' /\ ~(running.cmd = "pause" /\ running.step > 2)
  <2>1. running.cmd = "pause" /\ running.step > 2 => running.step > 1
    BY DEF RunningOK
  <2>. QED
    BY <1>2, <1>4, <1>6, <2>1 DEF PauseInv
<1>8. CallbackInv'
  BY <1>1, <1>3, <1>4, <1>7 DEF CallbackInv
<1>9. PauseInv'
  BY <1>1, <1>3, <1>6 DEF PauseInv
<1>. QED
  BY <1>5, <1>6, <1>8, <1>9

\* It enqueues them with the epoch that it read, behind all that is audible.
LEMMA CallbackEnqueuesStep == ASSUME MicInv, CallbackEnqueues PROVE MicInv'
<1>. USE DEF MicInv, TypeInv
<1>. DEFINE m == Message("samples", callback.epoch)
<1>1. /\ callback.next = "enqueue" /\ callback' = [callback EXCEPT !.next = "idle"]
      /\ UNCHANGED <<web, commands, responses, events, running, worker>>
      /\ \/ stream' = [stream EXCEPT !.failed = TRUE]
         \/ /\ Len(stream.queue) < Capacity
            /\ stream' = [stream EXCEPT !.queue = Append(@, m)]
         \/ stream' = [stream EXCEPT !.dropped = stream.dropped + 1]
  BY DEF CallbackEnqueues, ReadEpoch
<1>2. /\ m \in MessageRecord /\ m.type = "samples" /\ m.epoch = callback.epoch
  BY DEF Message, MessageRecord, WorkersOK
<1>. HIDE DEF m
<1>3. callback' \in [next : {"idle", "look", "enqueue"}, epoch : Nat] /\ callback'.next = "idle"
  BY <1>1 DEF WorkersOK
<1>4. stream.id # 0
  BY <1>1 DEF WorkersOK
<1>5. /\ EventsInv' /\ QueueInv' /\ StreamOK' /\ (Ready => Ready') /\ (Heard => Heard')
      /\ UNCHANGED <<stream.id, stream.epoch, stream.paused>>
  <2>1. CASE /\ Len(stream.queue) < Capacity
             /\ stream' = [stream EXCEPT !.queue = Append(@, m)]
    BY <1>1, <1>2, <2>1, MessageAdded DEF CallbackInv
  <2>2. CASE \/ stream' = [stream EXCEPT !.failed = TRUE]
             \/ stream' = [stream EXCEPT !.dropped = stream.dropped + 1]
    <3>1. stream' \in StreamRecord
      <4>1. CASE stream' = [stream EXCEPT !.failed = TRUE]
        BY <4>1 DEF StreamOK, StreamRecord
      <4>2. CASE stream' = [stream EXCEPT !.dropped = stream.dropped + 1]
        BY <4>2, SMTT(30) DEF StreamOK, StreamRecord
      <4>. QED
        BY <2>2, <4>1, <4>2
    <3>2. UNCHANGED <<stream.id, stream.queue, stream.epoch, stream.paused>>
      BY <2>2 DEF StreamOK, StreamRecord
    <3>. QED
      BY <1>1, <2>2, <3>1, <3>2, SameQueue DEF StreamOK
  <2>. QED
    BY <1>1, <2>1, <2>2
<1>6. WebOK' /\ LinesOK' /\ RunningOK' /\ WorkersOK'
  BY <1>1, <1>3, <1>4, <1>5, WebSame DEF LinesOK, RunningOK, WorkersOK
<1>7. CallbackInv' /\ PauseInv'
  BY <1>1, <1>3, <1>5 DEF CallbackInv, PauseInv
<1>. QED
  BY <1>5, <1>6, <1>7

-----------------------------------------------------------------------------
(* The worker *)

\* Gaps and errors are no news of a pause.
LEMMA QuietEvents ==
  ASSUME MicInv, NEW s \in Seq(EventRecord), NEW t \in Seq(EventRecord),
         \A i \in 1..Len(t) : t[i].type \in {"gap", "error"},
         \A k \in 1..Len(s) : s[k].type = "chunk" => Sounds(s, s[k].by, k, controller)
  PROVE  /\ s \o t \in Seq(EventRecord)
         /\ \A k \in 1..Len(s \o t) :
              (s \o t)[k].type = "chunk" => Sounds(s \o t, (s \o t)[k].by, k, controller)
         /\ \A g : Sounds(s, g, Len(s) + 1, controller)
                    => Sounds(s \o t, g, Len(s \o t) + 1, controller)
<1>1. \A g : \A i \in 1..Len(t) : ~IsPause(t[i], g)
  BY DEF IsPause
<1>2. \A g : Sounds(s, g, Len(s) + 1, controller)
             => Sounds(s \o t, g, Len(s \o t) + 1, controller)
  BY <1>1, SoundsOn
<1>. DEFINE u == s \o t
            n == Len(s)
<1>3. /\ u \in Seq(EventRecord) /\ Len(u) \in Nat /\ n \in Nat
      /\ \A k \in 1..Len(u) :
           \/ k \in 1..n /\ u[k] = s[k] /\ k \in 1..(n + 1)
           \/ k - n \in 1..Len(t) /\ u[k] = t[k - n]
  <2>1. u \in Seq(EventRecord) /\ Len(u) = n + Len(t) /\ n \in Nat /\ Len(t) \in Nat
    OBVIOUS
  <2>2. \A k \in 1..n : u[k] = s[k]
    OBVIOUS
  <2>3. \A k \in 1..Len(u) : k \notin 1..n => u[k] = t[k - n]
    OBVIOUS
  <2>. HIDE DEF u, n
  <2>4. \A k \in 1..n : k \in 1..(n + 1)
    BY <2>1
  <2>5. \A k \in 1..Len(u) : k \notin 1..n => k - n \in 1..Len(t)
    BY <2>1
  <2>6. Len(u) \in Nat
    BY <2>1
  <2>. QED
    BY <2>1, <2>2, <2>3, <2>4, <2>5, <2>6, Zenon
<1>4. \A g : \A k \in 1..(n + 1) : Sounds(s, g, k, controller) => Sounds(u, g, k, controller)
  BY SoundsExtended
<1>. HIDE DEF u, n
<1>5. ASSUME NEW k \in 1..Len(u), u[k].type = "chunk"
      PROVE  Sounds(u, u[k].by, k, controller)
  <2>1. CASE k \in 1..n /\ u[k] = s[k] /\ k \in 1..(n + 1)
    BY <1>4, <1>5, <2>1 DEF n
  <2>2. CASE k - n \in 1..Len(t) /\ u[k] = t[k - n]
    BY <1>5, <2>2
  <2>. QED
    BY <1>3, <2>1, <2>2
<1>. QED
  BY <1>2, <1>3, <1>5 DEF u

LEMMA EventTyped ==
  ASSUME NEW g \in Starts, NEW n \in Nat,
         NEW type \in {"capturing", "paused", "chunk", "gap", "error"},
         type \in {"capturing", "paused", "error"} => n = 0
  PROVE  /\ Event(g, type, n) \in EventRecord
         /\ Event(g, type, n).by = g /\ Event(g, type, n).type = type
         /\ Event(g, type, n).chunks = n
BY DEF Event, EventRecord

LEMMA GapTyped ==
  ASSUME MicInv, stream.id # 0, NEW n \in Nat
  PROVE  /\ GapOf(n) \in Seq(EventRecord)
         /\ \A i \in 1..Len(GapOf(n)) : GapOf(n)[i].type \in {"gap", "error"}
<1>1. stream.id \in Starts
  BY MicrophoneAssumption DEF MicInv, TypeInv, StreamOK, StreamRecord, Starts
<1>. DEFINE e == Event(stream.id, "gap", n)
<1>2. e \in EventRecord /\ e.type = "gap"
  BY <1>1, EventTyped
<1>. HIDE DEF e
<1>3. /\ <<e>> \in Seq(EventRecord) /\ <<>> \in Seq(EventRecord)
      /\ \A i \in 1..Len(<<e>>) : <<e>>[i] = e
      /\ Len(<<>>) = 0
  BY <1>2
<1>. QED
  BY <1>2, <1>3 DEF GapOf, e

\* Gaps and a failure are no chunks.
LEMMA WorkerReportsStep == ASSUME MicInv, WorkerReports PROVE MicInv'
<1>. USE DEF MicInv, TypeInv
<1>1. /\ worker = "report" /\ worker' = "receive"
      /\ UNCHANGED <<web, commands, responses, running, callback>>
      /\ stream' = [stream EXCEPT !.dropped = 0, !.lateInput = 0, !.resetOutput = 0,
                                  !.stopped = stream.failed]
  BY DEF WorkerReports
<1>2. stream.id # 0 /\ stream.id \in Starts
  BY <1>1, MicrophoneAssumption DEF WorkersOK, StreamOK, StreamRecord, Starts
<1>. DEFINE n1 == Estimate(stream.dropped)
            n2 == Estimate(stream.lateInput) + Estimate(stream.resetOutput)
            t3 == IF stream.failed THEN <<Event(stream.id, "error", 0)>> ELSE <<>>
            s1 == events \o GapOf(n1)
            s2 == s1 \o GapOf(n2)
<1>3. events' = s2 \o t3
  BY DEF WorkerReports
<1>4. n1 \in Nat /\ n2 \in Nat
  <2>1. stream.dropped \in Nat /\ stream.lateInput \in Nat /\ stream.resetOutput \in Nat
    BY DEF StreamOK, StreamRecord
  <2>2. /\ Estimate(stream.dropped) \in Nat /\ Estimate(stream.lateInput) \in Nat
        /\ Estimate(stream.resetOutput) \in Nat
    BY <2>1, EstimateNat
  <2>. QED
    BY <2>2
<1>5. t3 \in Seq(EventRecord) /\ \A i \in 1..Len(t3) : t3[i].type \in {"gap", "error"}
  <2>. DEFINE e == Event(stream.id, "error", 0)
  <2>1. e \in EventRecord /\ e.type = "error"
    BY <1>2, EventTyped
  <2>. HIDE DEF e
  <2>2. /\ <<e>> \in Seq(EventRecord) /\ <<>> \in Seq(EventRecord)
        /\ \A i \in 1..Len(<<e>>) : <<e>>[i] = e
        /\ Len(<<>>) = 0
    BY <2>1
  <2>. QED
    BY <2>1, <2>2 DEF e
<1>. HIDE DEF n1, n2, t3
<1>6. /\ events \in Seq(EventRecord)
      /\ \A k \in 1..Len(events) :
           events[k].type = "chunk" => Sounds(events, events[k].by, k, controller)
  BY DEF LinesOK, EventsInv
<1>7. /\ s1 \in Seq(EventRecord)
      /\ \A k \in 1..Len(s1) : s1[k].type = "chunk" => Sounds(s1, s1[k].by, k, controller)
      /\ \A g : Sounds(events, g, Len(events) + 1, controller)
                => Sounds(s1, g, Len(s1) + 1, controller)
  <2>1. /\ GapOf(n1) \in Seq(EventRecord)
        /\ \A i \in 1..Len(GapOf(n1)) : GapOf(n1)[i].type \in {"gap", "error"}
    BY <1>2, <1>4, GapTyped
  <2>. QED
    BY <1>6, <2>1, QuietEvents
<1>. HIDE DEF s1
<1>8. /\ s2 \in Seq(EventRecord)
      /\ \A k \in 1..Len(s2) : s2[k].type = "chunk" => Sounds(s2, s2[k].by, k, controller)
      /\ \A g : Sounds(s1, g, Len(s1) + 1, controller) => Sounds(s2, g, Len(s2) + 1, controller)
  <2>1. /\ GapOf(n2) \in Seq(EventRecord)
        /\ \A i \in 1..Len(GapOf(n2)) : GapOf(n2)[i].type \in {"gap", "error"}
    BY <1>2, <1>4, GapTyped
  <2>. QED
    BY <1>7, <2>1, QuietEvents
<1>. HIDE DEF s2
<1>9. /\ events' \in Seq(EventRecord)
      /\ \A k \in 1..Len(events') :
           events'[k].type = "chunk" => Sounds(events', events'[k].by, k, controller)
      /\ \A g : Sounds(s2, g, Len(s2) + 1, controller)
                => Sounds(events', g, Len(events') + 1, controller)
  BY <1>3, <1>5, <1>8, QuietEvents
<1>10. /\ stream' \in StreamRecord
       /\ UNCHANGED <<stream.id, stream.queue, stream.epoch, stream.paused>>
  BY <1>1 DEF StreamOK, StreamRecord
<1>11. controller' = controller
  BY <1>1 DEF web
<1>12. Heard => Heard'
  BY <1>7, <1>8, <1>9, <1>10, <1>11 DEF Heard
<1>13. Audible \subseteq Audible' /\ (Ready => Ready')
  BY <1>10, <1>12, QueueSame
<1>14. EventsInv' /\ QueueInv'
  BY <1>9, <1>10, <1>11, <1>13 DEF EventsInv, QueueInv
<1>15. WebOK' /\ LinesOK' /\ RunningOK' /\ StreamOK' /\ WorkersOK'
  BY <1>1, <1>2, <1>9, <1>10, WebSame DEF LinesOK, RunningOK, StreamOK, WorkersOK
<1>16. CallbackInv' /\ PauseInv'
  BY <1>1, <1>10, <1>13 DEF CallbackInv, PauseInv
<1>. QED
  BY <1>14, <1>15, <1>16

LEMMA WorkerEndsStep == ASSUME MicInv, WorkerEnds PROVE MicInv'
<1>. USE DEF MicInv, TypeInv
<1>1. /\ stream.id # 0 /\ worker' = "ended"
      /\ UNCHANGED <<web, commands, responses, events, running, stream, callback>>
  BY DEF WorkerEnds
<1>2. WebOK' /\ LinesOK' /\ RunningOK' /\ StreamOK' /\ WorkersOK'
  BY <1>1, WebSame DEF LinesOK, RunningOK, StreamOK, WorkersOK
<1>3. EventsInv' /\ QueueInv' /\ (Ready => Ready') /\ (Heard => Heard')
  BY <1>1, SameQueue
<1>4. CallbackInv' /\ PauseInv'
  BY <1>1, <1>3 DEF CallbackInv, PauseInv
<1>. QED
  BY <1>2, <1>3, <1>4

\* What one event more does.
LEMMA EventAdded ==
  ASSUME MicInv, NEW e \in EventRecord, events' = Append(events, e), controller' = controller,
         e.by = stream.id, stream'.id = stream.id, e.type = "chunk" => Heard
  PROVE  /\ EventsInv' /\ events' \in Seq(EventRecord)
         /\ Heard /\ e.type # "paused" => Heard'
         /\ e.type = "capturing" => Heard'
<1>. DEFINE t == <<e>>
            n == Len(events)
<1>1. /\ events \in Seq(EventRecord) /\ t \in Seq(EventRecord) /\ n \in Nat
      /\ Len(t) = 1 /\ \A i \in 1..Len(t) : t[i] = e
  BY DEF MicInv, TypeInv, LinesOK
<1>2. events' = events \o t
  BY <1>1
<1>3. /\ Len(events') = n + 1 /\ events'[n + 1] = e /\ \A k \in 1..n : events'[k] = events[k]
      /\ events' \in Seq(EventRecord)
  BY <1>1
<1>. HIDE DEF t
<1>4. \A g : \A k \in 1..(n + 1) :
        Sounds(events, g, k, controller) => Sounds(events', g, k, controller)
  BY <1>1, <1>2, SoundsExtended
<1>. HIDE DEF n
<1>5. ASSUME Heard, e.type # "paused"
      PROVE  Heard'
  <2>1. \A i \in 1..Len(t) : ~IsPause(t[i], stream.id)
    BY <1>1, <1>5 DEF IsPause
  <2>. QED
    BY <1>1, <1>2, <1>5, <2>1, SoundsOn DEF Heard
<1>6. ASSUME e.type = "capturing"
      PROVE  Heard'
  BY <1>1, <1>6, SoundsAgain DEF Heard, IsCapture
<1>7. EventsInv'
  <2>. SUFFICES ASSUME NEW k \in 1..(n + 1), events'[k].type = "chunk"
                PROVE  Sounds(events', events'[k].by, k, controller)
    BY <1>3 DEF EventsInv
  <2>1. CASE k \in 1..n
    BY <1>3, <1>4, <2>1 DEF MicInv, EventsInv, n
  <2>2. CASE k = n + 1
    <3>1. events'[k] = e /\ e.type = "chunk" /\ Sounds(events, stream.id, n + 1, controller)
      BY <1>3, <2>2 DEF Heard, n
    <3>2. n + 1 \in 1..(n + 1)
      BY <1>1
    <3>3. Sounds(events', stream.id, n + 1, controller)
      BY <1>4, <3>1, <3>2
    <3>. QED
      BY <1>3, <2>2, <3>1, <3>3
  <2>3. n \in Nat
    BY <1>1
  <2>4. k \in 1..n \/ k = n + 1
    BY <2>3
  <2>. QED
    BY <2>1, <2>2, <2>4
<1>. QED
  BY <1>3, <1>5, <1>6, <1>7

\* Samples of the epoch are processed, and an announcement is passed on.
LEMMA WorkerReceivesStep == ASSUME MicInv, WorkerReceives PROVE MicInv'
<1>. USE DEF MicInv, TypeInv
<1>1. /\ worker = "receive" /\ UNCHANGED <<web, commands, responses, running, callback>>
  BY DEF WorkerReceives
<1>2. /\ stream.id # 0 /\ stream.id \in Starts /\ controller' = controller
  BY <1>1, MicrophoneAssumption DEF WorkersOK, StreamOK, StreamRecord, Starts, web
<1>3. CASE stream.queue = <<>>
  <2>1. worker' = "report" /\ UNCHANGED <<stream, events>>
    BY <1>3 DEF WorkerReceives
  <2>2. WebOK' /\ LinesOK' /\ RunningOK' /\ StreamOK' /\ WorkersOK'
    BY <1>1, <1>2, <2>1, WebSame DEF LinesOK, RunningOK, StreamOK, WorkersOK
  <2>3. EventsInv' /\ QueueInv' /\ (Ready => Ready') /\ (Heard => Heard')
    BY <1>1, <2>1, SameQueue
  <2>4. CallbackInv' /\ PauseInv'
    BY <1>1, <2>1, <2>3 DEF CallbackInv, PauseInv
  <2>. QED
    BY <2>2, <2>3, <2>4
<1>4. CASE stream.queue # <<>>
  <2>. DEFINE q == stream.queue
              r == Tail(q)
              m == q[1]
  <2>1. /\ q \in Seq(MessageRecord) /\ r \in Seq(MessageRecord) /\ Len(q) \in Nat
        /\ m \in MessageRecord /\ Head(q) = m /\ Len(r) = Len(q) - 1 /\ 1 \in 1..Len(q)
        /\ \A k \in 1..Len(r) : k \in 1..Len(q) /\ k + 1 \in 1..Len(q) /\ r[k] = q[k + 1]
    BY <1>4 DEF StreamOK, StreamRecord
  <2>2. /\ \/ /\ m.type # "samples" /\ worker' = "report"
              /\ events' = Append(events, Event(stream.id, m.type, 0))
              /\ stream' = [stream EXCEPT !.queue = r]
           \/ /\ m.type = "samples" /\ m.epoch = stream.epoch /\ worker' = "process"
              /\ UNCHANGED events
              /\ stream' = [stream EXCEPT !.queue = r]
           \/ /\ m.type = "samples" /\ worker' = "report" /\ UNCHANGED events
              /\ stream' = [[stream EXCEPT !.queue = r] EXCEPT !.lateInput = @ + 1]
    BY <1>4, <2>1 DEF WorkerReceives
  <2>. HIDE DEF r, m
  <2>3. /\ stream' \in StreamRecord /\ stream'.queue = r
        /\ UNCHANGED <<stream.id, stream.epoch, stream.paused>>
    <3>. DEFINE rest == [stream EXCEPT !.queue = r]
    <3>1. /\ rest \in StreamRecord /\ rest.queue = r /\ rest.id = stream.id
          /\ rest.epoch = stream.epoch /\ rest.paused = stream.paused
      BY <2>1 DEF StreamOK, StreamRecord
    <3>. HIDE DEF rest
    <3>2. stream' \in {rest, [rest EXCEPT !.lateInput = rest.lateInput + 1]}
      BY <2>2 DEF rest
    <3>. QED
      BY <3>1, <3>2 DEF StreamRecord
  <2>4. StreamOK'
    BY <2>1, <2>3, MicrophoneAssumption DEF StreamOK
  <2>5. /\ EventsInv' /\ events' \in Seq(EventRecord)
        /\ m.type = "capturing" => Heard'
        /\ m.type = "samples" /\ Heard => Heard'
    <3>1. CASE m.type # "samples" /\ events' = Append(events, Event(stream.id, m.type, 0))
      <4>. DEFINE e == Event(stream.id, m.type, 0)
      <4>1. e \in EventRecord /\ e.by = stream.id /\ e.type = m.type /\ e.type # "chunk"
        <5>1. m.type \in {"capturing", "paused"}
          BY <2>1, <3>1 DEF MessageRecord
        <5>. QED
          BY <1>2, <5>1, EventTyped
      <4>. HIDE DEF e
      <4>2. events' = Append(events, e)
        BY <3>1 DEF e
      <4>. QED
        BY <1>2, <2>3, <3>1, <4>1, <4>2, EventAdded
    <3>2. CASE m.type = "samples" /\ UNCHANGED events
      <4>1. Heard => Heard'
        BY <1>2, <2>3, <3>2 DEF Heard
      <4>2. EventsInv'
        BY <1>2, <3>2 DEF EventsInv
      <4>. QED
        BY <3>2, <4>1, <4>2 DEF LinesOK
    <3>. QED
      BY <2>2, <3>1, <3>2
  <2>6. /\ \A k \in 1..Len(q) : k + 1 \in Audible => k \in Audible'
        /\ Ready => Ready'
    BY <1>4, <2>3, <2>5, QueueTaken DEF r, m
  <2>7. QueueInv'
    <3>. SUFFICES ASSUME NEW k \in 1..Len(r), r[k].type = "samples"
                  PROVE  /\ r[k].epoch <= stream.epoch
                         /\ r[k].epoch = stream.epoch => k \in Audible'
      BY <2>3 DEF QueueInv
    <3>. QED
      BY <2>1, <2>6 DEF QueueInv
  <2>8. worker' = "process" => Heard'
    <3>. SUFFICES ASSUME worker' = "process"
                  PROVE  Heard'
      OBVIOUS
    <3>1. m.type = "samples" /\ m.epoch = stream.epoch
      BY <2>2
    <3>2. 1 \in Audible
      BY <2>1, <3>1 DEF QueueInv, m
    <3>3. Heard
      BY <3>2 DEF Audible
    <3>. QED
      BY <2>5, <3>1, <3>3
  <2>9. worker' \in {"report", "process"}
    BY <2>2
  <2>10. WebOK' /\ LinesOK' /\ RunningOK' /\ WorkersOK'
    BY <1>1, <1>2, <2>3, <2>5, <2>9, WebSame DEF LinesOK, RunningOK, WorkersOK
  <2>11. CallbackInv' /\ PauseInv'
    BY <1>1, <2>3, <2>6, <2>8 DEF CallbackInv, PauseInv
  <2>. QED
    BY <2>4, <2>5, <2>7, <2>10, <2>11
<1>. QED
  BY <1>3, <1>4

\* A chunk is emitted only when the controller will hear it.
LEMMA WorkerProcessesStep == ASSUME MicInv, WorkerProcesses PROVE MicInv'
<1>. USE DEF MicInv, TypeInv
<1>. DEFINE e == Event(stream.id, "chunk", 1)
<1>1. /\ worker = "process" /\ worker' = "report"
      /\ UNCHANGED <<web, commands, responses, running, callback>>
      /\ \/ events' = Append(events, e) /\ stream' = [stream EXCEPT !.output = 0]
         \/ /\ stream.output + 1 # Batches /\ UNCHANGED events
            /\ stream' = [stream EXCEPT !.output = stream.output + 1]
  BY DEF WorkerProcesses
<1>2. /\ stream.id # 0 /\ stream.id \in Starts /\ controller' = controller /\ Heard
  BY <1>1, MicrophoneAssumption DEF WorkersOK, StreamOK, StreamRecord, Starts, web, PauseInv
<1>3. e \in EventRecord /\ e.by = stream.id /\ e.type = "chunk"
  BY <1>2, EventTyped
<1>. HIDE DEF e
<1>4. /\ stream' \in StreamRecord
      /\ UNCHANGED <<stream.id, stream.queue, stream.epoch, stream.paused>>
  <2>1. 0 \in 0..(Batches - 1)
    BY MicrophoneAssumption
  <2>2. stream.output + 1 # Batches => stream.output + 1 \in 0..(Batches - 1)
    BY MicrophoneAssumption, SMTT(30) DEF StreamOK, StreamRecord
  <2>. QED
    BY <1>1, <2>1, <2>2 DEF StreamOK, StreamRecord
<1>5. EventsInv' /\ events' \in Seq(EventRecord) /\ Heard'
  <2>1. CASE events' = Append(events, e)
    BY <1>2, <1>3, <1>4, <2>1, EventAdded
  <2>2. CASE UNCHANGED events
    BY <1>2, <1>4, <2>2 DEF EventsInv, LinesOK, Heard
  <2>. QED
    BY <1>1, <2>1, <2>2
<1>6. Audible \subseteq Audible' /\ (Ready => Ready')
  BY <1>4, <1>5, QueueSame
<1>7. QueueInv'
  BY <1>4, <1>6 DEF QueueInv
<1>8. WebOK' /\ LinesOK' /\ RunningOK' /\ StreamOK' /\ WorkersOK'
  BY <1>1, <1>2, <1>4, <1>5, WebSame DEF LinesOK, RunningOK, StreamOK, WorkersOK
<1>9. CallbackInv' /\ PauseInv'
  BY <1>1, <1>4, <1>6 DEF CallbackInv, PauseInv
<1>. QED
  BY <1>5, <1>7, <1>8, <1>9

-----------------------------------------------------------------------------
(* The invariant holds *)

\* Every step of the microphone preserves its invariant.
LEMMA MicStep == ASSUME MicInv, [MicNext]_micVars PROVE MicInv'
<1>1. CASE UNCHANGED micVars
  <2>1. /\ UNCHANGED <<web, commands, responses, events, running, stream, callback, worker>>
    BY <1>1 DEF micVars, native
  <2>2. EventsInv' /\ QueueInv' /\ (Ready => Ready') /\ (Heard => Heard')
    BY <2>1, SameQueue
  <2>3. WebOK' /\ LinesOK' /\ RunningOK' /\ StreamOK' /\ WorkersOK'
    BY <2>1, WebSame DEF MicInv, TypeInv, LinesOK, RunningOK, StreamOK, WorkersOK
  <2>4. CallbackInv' /\ PauseInv'
    BY <2>1, <2>2 DEF MicInv, CallbackInv, PauseInv
  <2>. QED
    BY <2>2, <2>3, <2>4 DEF MicInv, TypeInv
<1>2. CASE Callback
  BY <1>2, CallbackLooksStep, CallbackEnqueuesStep DEF Callback
<1>3. CASE Work
  BY <1>3, WorkerReportsStep, WorkerEndsStep, WorkerReceivesStep, WorkerProcessesStep DEF Work
<1>. QED
  BY <1>1, <1>2, <1>3, PressStep, RespondsStep, EventArrivesStep, ExecuteStep, DeviceStep
     DEF MicNext

LEMMA MicImplies == ASSUME MicInv PROVE MicTypeOK /\ PauseIsSilent
<1>. USE DEF MicInv, TypeInv
<1>1. MicTypeOK
  <2>1. /\ running.cmd \in {"none", "start", "pause", "resume", "stop"}
    BY DEF RunningOK, Commands
  <2>2. /\ stream.id \in 0..MaxStarts /\ stream.output \in 0..(Batches - 1)
        /\ Len(stream.queue) <= Capacity
    BY DEF StreamOK, StreamRecord
  <2>3. /\ callback.next \in {"idle", "look", "enqueue"}
        /\ worker \in {"report", "receive", "process", "ended"}
        /\ worker # "ended" => stream.id # 0
    BY DEF WorkersOK
  <2>. QED
    BY <2>1, <2>2, <2>3 DEF MicTypeOK, WebOK, ControllerStates
<1>2. PauseIsSilent
  <2>. SUFFICES ASSUME events # <<>>, events[1].type = "chunk"
                PROVE  controller[events[1].by] # "paused"
    <3>1. events # <<>> => Head(events) = events[1]
      BY DEF LinesOK
    <3>. QED
      BY <3>1 DEF PauseIsSilent
  <2>1. 1 \in 1..Len(events)
    BY DEF LinesOK
  <2>2. Sounds(events, events[1].by, 1, controller)
    BY <2>1 DEF EventsInv
  <2>. QED
    BY <2>2 DEF Sounds
<1>. QED
  BY <1>1, <1>2

LEMMA MicInvariant == MicSpec => []MicInv
BY MicStart, MicStep, PTL DEF MicSpec

\* microphoneCaptureController.ts and microphone_stream.rs: every variable stays in its
\* range, the queue within its capacity, the output of the processor below a chunk, and a
\* controller that stopped or failed has no handle of a stream.
THEOREM MicrophoneTypeCorrect == MicSpec => []MicTypeOK
BY MicInvariant, MicImplies, PTL

\* handleNativeEvent drops a chunk that a paused controller gets, without a gap: none
\* arrives there, however the pause, the callback and the worker interleave.
THEOREM PauseIsSilentHolds == MicSpec => []PauseIsSilent
BY MicInvariant, MicImplies, PTL

-----------------------------------------------------------------------------
(* Batches and chunks are counted by the places they have in the queue and among the events *)

\* The places of samples in a queue, which WaitingIn counts.
SamplesIn(queue) == {k \in 1..Len(queue) : queue[k].type = "samples"}

\* Two sets have the same size if a function pairs their elements.
LEMMA OneToOne ==
  ASSUME NEW S, NEW T, IsFiniteSet(S), NEW f \in [S -> T],
         \A a, b \in S : f[a] = f[b] => a = b, \A t \in T : \E a \in S : f[a] = t
  PROVE  IsFiniteSet(T) /\ Cardinality(T) = Cardinality(S)
<1>1. f \in Bijection(S, T)
  BY DEF Bijection, Injection, IsInjective, Surjection
<1>. QED
  BY <1>1, FS_Bijection DEF ExistsBijection

LEMMA SamplesFinite ==
  ASSUME NEW q \in Seq(MessageRecord)
  PROVE  /\ IsFiniteSet(SamplesIn(q))
         /\ WaitingIn(q) = Cardinality(SamplesIn(q)) /\ WaitingIn(q) \in Nat
<1>1. Len(q) \in Nat /\ IsFiniteSet(1..Len(q)) /\ SamplesIn(q) \in SUBSET (1..Len(q))
  BY FS_Interval DEF SamplesIn
<1>2. IsFiniteSet(SamplesIn(q))
  BY <1>1, FS_Subset
<1>3. WaitingIn(q) = Cardinality(SamplesIn(q))
  BY DEF WaitingIn, SamplesIn
<1>. QED
  BY <1>2, <1>3, FS_CardinalityType

\* One more message is at most one more batch that waits,
LEMMA SamplesAdded ==
  ASSUME NEW q \in Seq(MessageRecord), NEW m \in MessageRecord
  PROVE  WaitingIn(Append(q, m)) = WaitingIn(q) + IF m.type = "samples" THEN 1 ELSE 0
<1>. DEFINE r == Append(q, m)
            n == Len(q)
<1>1. /\ r \in Seq(MessageRecord) /\ n \in Nat /\ Len(r) = n + 1 /\ r[n + 1] = m
      /\ \A k \in 1..n : r[k] = q[k]
  OBVIOUS
<1>. HIDE DEF r
<1>2. SamplesIn(r) = SamplesIn(q) \cup (IF m.type = "samples" THEN {n + 1} ELSE {})
  BY <1>1 DEF SamplesIn
<1>3. n + 1 \notin SamplesIn(q)
  BY <1>1 DEF SamplesIn
<1>4. IsFiniteSet(SamplesIn(q)) /\ WaitingIn(q) = Cardinality(SamplesIn(q)) /\ WaitingIn(q) \in Nat
      /\ WaitingIn(r) = Cardinality(SamplesIn(r))
  BY <1>1, SamplesFinite
<1>5. Cardinality(SamplesIn(q) \cup {n + 1}) = Cardinality(SamplesIn(q)) + 1
  BY <1>3, <1>4, FS_AddElement
<1>6. CASE m.type = "samples"
  BY <1>2, <1>4, <1>5, <1>6 DEF r
<1>7. CASE m.type # "samples"
  <2>1. SamplesIn(r) = SamplesIn(q)
    BY <1>2, <1>7
  <2>. QED
    BY <1>4, <1>7, <2>1 DEF r
<1>. QED
  BY <1>6, <1>7

\* and one less at most one less.
LEMMA SamplesTaken ==
  ASSUME NEW q \in Seq(MessageRecord), q # <<>>
  PROVE  WaitingIn(q) = WaitingIn(Tail(q)) + IF q[1].type = "samples" THEN 1 ELSE 0
<1>. DEFINE r == Tail(q)
            n == Len(q)
            S == SamplesIn(r)
            T == SamplesIn(q) \ {1}
            f == [k \in S |-> k + 1]
<1>1. /\ r \in Seq(MessageRecord) /\ n \in Nat \ {0} /\ Len(r) = n - 1
      /\ \A k \in 1..(n - 1) : r[k] = q[k + 1]
  OBVIOUS
<1>2. /\ IsFiniteSet(S) /\ WaitingIn(r) = Cardinality(S) /\ WaitingIn(r) \in Nat
      /\ IsFiniteSet(SamplesIn(q))
      /\ WaitingIn(q) = Cardinality(SamplesIn(q)) /\ WaitingIn(q) \in Nat
  BY <1>1, SamplesFinite
<1>. HIDE DEF r
<1>4. Cardinality(T) = Cardinality(S)
  <2>1. \A k \in S : k \in 1..(n - 1) /\ k + 1 \in 1..n /\ k + 1 # 1 /\ k + 1 \in T
    BY <1>1 DEF SamplesIn
  <2>2. f \in [S -> T]
    BY <2>1
  <2>3. \A j, k \in S : f[j] = f[k] => j = k
    BY <2>1
  <2>4. ASSUME NEW t \in T PROVE \E k \in S : f[k] = t
    <3>1. t \in 1..n /\ t # 1 /\ q[t].type = "samples"
      BY DEF SamplesIn
    <3>2. t - 1 \in 1..(n - 1) /\ t - 1 + 1 = t
      BY <1>1, <3>1
    <3>3. t - 1 \in S
      BY <1>1, <3>1, <3>2 DEF SamplesIn
    <3>. QED
      BY <3>2, <3>3
  <2>. HIDE DEF f, S, T
  <2>. QED
    BY <1>2, <2>2, <2>3, <2>4, OneToOne
<1>5. Cardinality(T) = IF 1 \in SamplesIn(q) THEN Cardinality(SamplesIn(q)) - 1
                       ELSE Cardinality(SamplesIn(q))
  BY <1>2, FS_RemoveElement
<1>6. 1 \in SamplesIn(q) <=> q[1].type = "samples"
  BY <1>1 DEF SamplesIn
<1>. HIDE DEF S, T
<1>. QED
  BY <1>2, <1>4, <1>5, <1>6 DEF r

\* The chunks that the event at place k of a line stands for, c of them.
Batch(k, c) == {<<k, n>> : n \in 1..c}

LEMMA BatchSize ==
  ASSUME NEW k, NEW c \in Nat
  PROVE  IsFiniteSet(Batch(k, c)) /\ Cardinality(Batch(k, c)) = c
<1>. DEFINE f == [n \in 1..c |-> <<k, n>>]
<1>1. /\ f \in [1..c -> Batch(k, c)]
      /\ \A m, n \in 1..c : f[m] = f[n] => m = n
      /\ \A t \in Batch(k, c) : \E n \in 1..c : f[n] = t
  BY DEF Batch
<1>2. IsFiniteSet(1..c) /\ Cardinality(1..c) = c
  BY FS_Interval
<1>. HIDE DEF f
<1>. QED
  BY <1>1, <1>2, OneToOne

LEMMA ChunksMember ==
  ASSUME NEW s, NEW g
  PROVE  ChunksIn(s, g) = UNION {Batch(k, s[k].chunks) : k \in {i \in 1..Len(s) : s[i].by = g}}
BY DEF ChunksIn, Batch

LEMMA ChunksFinite ==
  ASSUME NEW s \in Seq(EventRecord), NEW g
  PROVE  IsFiniteSet(ChunksIn(s, g)) /\ Cardinality(ChunksIn(s, g)) \in Nat
<1>. DEFINE K == {i \in 1..Len(s) : s[i].by = g}
            B == {Batch(k, s[k].chunks) : k \in K}
            f == [k \in K |-> Batch(k, s[k].chunks)]
<1>1. Len(s) \in Nat /\ IsFiniteSet(1..Len(s)) /\ K \in SUBSET (1..Len(s))
  BY FS_Interval
<1>2. IsFiniteSet(K)
  BY <1>1, FS_Subset
<1>3. f \in Surjection(K, B)
  BY DEF Surjection
<1>4. IsFiniteSet(B)
  BY <1>2, <1>3, FS_Surjection
<1>5. \A T \in B : IsFiniteSet(T)
  <2>1. \A k \in K : s[k] \in EventRecord
    OBVIOUS
  <2>2. \A k \in K : s[k].chunks \in Nat
    BY <2>1 DEF EventRecord
  <2>. QED
    BY <2>2, BatchSize
<1>6. IsFiniteSet(UNION B)
  BY <1>4, <1>5, FS_UNION
<1>. QED
  BY <1>6, ChunksMember, FS_CardinalityType

\* An event adds the chunks that it stands for,
LEMMA ChunksAdded ==
  ASSUME NEW s \in Seq(EventRecord), NEW e \in EventRecord, NEW g
  PROVE  Cardinality(ChunksIn(Append(s, e), g))
           = Cardinality(ChunksIn(s, g)) + IF e.by = g THEN e.chunks ELSE 0
<1>. DEFINE u == Append(s, e)
            n == Len(s)
            C == ChunksIn(s, g)
            B == Batch(n + 1, e.chunks)
<1>1. /\ u \in Seq(EventRecord) /\ n \in Nat /\ Len(u) = n + 1 /\ u[n + 1] = e
      /\ \A k \in 1..n : u[k] = s[k]
  OBVIOUS
<1>2. e.chunks \in Nat
  BY DEF EventRecord
<1>3. IsFiniteSet(C) /\ Cardinality(C) \in Nat
  BY ChunksFinite
<1>4. IsFiniteSet(B) /\ Cardinality(B) = e.chunks
  BY <1>2, BatchSize
<1>. HIDE DEF u, n
<1>5. C \cap B = {}
  <2>1. \A p \in C : p[1] \in 1..n
    BY DEF ChunksIn, n
  <2>2. \A p \in B : p[1] = n + 1
    BY DEF Batch
  <2>. HIDE DEF C, B
  <2>3. n + 1 \notin 1..n
    BY <1>1
  <2>. QED
    BY <2>1, <2>2, <2>3
<1>6. ChunksIn(u, g) = IF e.by = g THEN C \cup B ELSE C
  <2>. DEFINE K == {i \in 1..n : s[i].by = g}
              L == {i \in 1..(n + 1) : u[i].by = g}
  <2>1. L = IF e.by = g THEN K \cup {n + 1} ELSE K
    BY <1>1
  <2>2. \A k \in K : Batch(k, u[k].chunks) = Batch(k, s[k].chunks)
    BY <1>1
  <2>3. Batch(n + 1, u[n + 1].chunks) = B
    BY <1>1
  <2>4. ChunksIn(u, g) = UNION {Batch(k, u[k].chunks) : k \in L}
    BY <1>1, ChunksMember
  <2>5. C = UNION {Batch(k, s[k].chunks) : k \in K}
    BY ChunksMember DEF n
  <2>. HIDE DEF K, L, C, B
  <2>6. UNION {Batch(k, u[k].chunks) : k \in K} = C
    BY <2>2, <2>5
  <2>7. UNION {Batch(k, u[k].chunks) : k \in K \cup {n + 1}} = C \cup B
    BY <2>3, <2>6
  <2>. QED
    BY <2>1, <2>4, <2>6, <2>7
<1>7. Cardinality(C \cup B) = Cardinality(C) + e.chunks
  <2>1. Cardinality(C \cup B) = Cardinality(C) + Cardinality(B) - Cardinality(C \cap B)
    BY <1>3, <1>4, FS_Union
  <2>2. Cardinality(C \cap B) = 0
    BY <1>5, FS_EmptySet
  <2>. HIDE DEF C, B
  <2>. QED
    BY <1>2, <1>3, <1>4, <2>1, <2>2
<1>. HIDE DEF C, B
<1>8. Cardinality(ChunksIn(u, g)) = Cardinality(C) + IF e.by = g THEN e.chunks ELSE 0
  BY <1>3, <1>6, <1>7
<1>. QED
  BY <1>8 DEF C, u

\* and takes them along when it arrives.
LEMMA ChunksTaken ==
  ASSUME NEW s \in Seq(EventRecord), s # <<>>, NEW g
  PROVE  Cardinality(ChunksIn(s, g))
           = Cardinality(ChunksIn(Tail(s), g)) + IF s[1].by = g THEN s[1].chunks ELSE 0
<1>. DEFINE u == Tail(s)
            n == Len(s)
            c == s[1].chunks
            C == ChunksIn(u, g)
            D == UNION {Batch(k, s[k].chunks) : k \in {i \in 2..n : s[i].by = g}}
            B == Batch(1, c)
            f == [p \in C |-> <<p[1] + 1, p[2]>>]
<1>1. /\ u \in Seq(EventRecord) /\ n \in Nat \ {0} /\ Len(u) = n - 1
      /\ \A k \in 1..(n - 1) : u[k] = s[k + 1]
      /\ s[1] \in EventRecord
  OBVIOUS
<1>2. c \in Nat
  BY <1>1 DEF EventRecord
<1>3. IsFiniteSet(C) /\ Cardinality(C) \in Nat
  BY <1>1, ChunksFinite
<1>4. IsFiniteSet(B) /\ Cardinality(B) = c
  BY <1>2, BatchSize
<1>. HIDE DEF u, n, c
<1>5. \A p : p \in C <=>
        \E k \in 1..(n - 1) : \E m \in 1..s[k + 1].chunks : s[k + 1].by = g /\ p = <<k, m>>
  <2>1. \A p : p \in C <=> \E k \in 1..Len(u) : u[k].by = g /\ p \in Batch(k, u[k].chunks)
    BY ChunksMember
  <2>. HIDE DEF C
  <2>. QED
    BY <1>1, <2>1 DEF Batch
<1>6. \A p : p \in D <=> \E k \in 2..n : \E m \in 1..s[k].chunks : s[k].by = g /\ p = <<k, m>>
  BY DEF Batch
<1>8. IsFiniteSet(D) /\ Cardinality(D) = Cardinality(C)
  <2>1. ASSUME NEW p \in C
        PROVE  <<p[1] + 1, p[2]>> \in D /\ p[1] \in Nat /\ p = <<p[1], p[2]>>
    <3>1. PICK k \in 1..(n - 1) : s[k + 1].by = g /\ \E m \in 1..s[k + 1].chunks : p = <<k, m>>
      BY <1>5
    <3>. PICK m \in 1..s[k + 1].chunks : p = <<k, m>>
      BY <3>1
    <3>2. k + 1 \in 2..n /\ k \in Nat
      BY <1>1
    <3>3. <<k + 1, m>> \in D
      BY <1>6, <3>1, <3>2
    <3>. QED
      BY <3>1, <3>2, <3>3
  <2>2. f \in [C -> D]
    BY <2>1
  <2>3. ASSUME NEW p \in C, NEW q \in C, f[p] = f[q] PROVE p = q
    <3>1. f[p] = <<p[1] + 1, p[2]>> /\ f[q] = <<q[1] + 1, q[2]>>
      OBVIOUS
    <3>2. p[1] + 1 = q[1] + 1 /\ p[2] = q[2]
      BY <2>3, <3>1
    <3>. HIDE DEF f, C
    <3>3. p[1] \in Nat /\ q[1] \in Nat /\ p = <<p[1], p[2]>> /\ q = <<q[1], q[2]>>
      BY <2>1
    <3>4. p[1] = q[1]
      BY <3>2, <3>3
    <3>. QED
      BY <3>2, <3>3, <3>4, Zenon
  <2>4. ASSUME NEW t \in D PROVE \E p \in C : f[p] = t
    <3>1. PICK k \in 2..n : s[k].by = g /\ \E m \in 1..s[k].chunks : t = <<k, m>>
      BY <1>6
    <3>. PICK m \in 1..s[k].chunks : t = <<k, m>>
      BY <3>1
    <3>2. k - 1 \in 1..(n - 1) /\ k - 1 + 1 = k
      BY <1>1
    <3>3. <<k - 1, m>> \in C
      BY <1>5, <3>1, <3>2
    <3>4. f[<<k - 1, m>>] = t
      BY <3>1, <3>2, <3>3
    <3>. QED
      BY <3>3, <3>4
  <2>. HIDE DEF f, C, D
  <2>. QED
    BY <1>3, <2>2, <2>3, <2>4, OneToOne
<1>9. ChunksIn(s, g) = IF s[1].by = g THEN D \cup B ELSE D
  <2>. DEFINE K == {i \in 2..n : s[i].by = g}
              L == {i \in 1..n : s[i].by = g}
  <2>1. L = IF s[1].by = g THEN K \cup {1} ELSE K
    BY <1>1
  <2>2. ChunksIn(s, g) = UNION {Batch(k, s[k].chunks) : k \in L}
    BY ChunksMember DEF n
  <2>3. Batch(1, s[1].chunks) = B
    BY DEF c
  <2>4. UNION {Batch(k, s[k].chunks) : k \in K} = D
    OBVIOUS
  <2>. HIDE DEF K, L, D, B
  <2>5. UNION {Batch(k, s[k].chunks) : k \in K \cup {1}} = D \cup B
    BY <2>3, <2>4
  <2>. QED
    BY <2>1, <2>2, <2>4, <2>5
<1>10. D \cap B = {}
  <2>1. \A p \in D : p[1] \in 2..n
    BY <1>6
  <2>2. \A p \in B : p[1] = 1
    BY DEF Batch
  <2>3. 1 \notin 2..n
    BY <1>1
  <2>. HIDE DEF D, B
  <2>. QED
    BY <2>1, <2>2, <2>3
<1>11. Cardinality(D \cup B) = Cardinality(D) + c
  <2>1. Cardinality(D \cup B) = Cardinality(D) + Cardinality(B) - Cardinality(D \cap B)
    BY <1>4, <1>8, FS_Union
  <2>2. Cardinality(D \cap B) = 0
    BY <1>10, FS_EmptySet
  <2>. HIDE DEF D, B, C
  <2>. QED
    BY <1>2, <1>3, <1>4, <1>8, <2>1, <2>2
<1>. HIDE DEF D, B, C
<1>12. Cardinality(ChunksIn(s, g)) = Cardinality(C) + IF s[1].by = g THEN c ELSE 0
  BY <1>3, <1>8, <1>9, <1>11
<1>. QED
  BY <1>12 DEF C, u, c

-----------------------------------------------------------------------------
(* The history of the starts *)

\* What stands in a line.
InLine(s) == {s[k] : k \in 1..Len(s)}

\* The controllers whose start waits in a line of commands, and that none waits twice.
StartsIn(s) == {c.by : c \in {d \in InLine(s) : d.cmd = "start"}}

\* No controller is started twice in a line of commands.
Once(s) ==
  \A j, k \in 1..Len(s) :
    s[j].cmd = "start" /\ s[k].cmd = "start" /\ s[j].by = s[k].by => j = k

\* The starts that were not carried out yet.
Pending == StartsIn(commands) \cup (IF running.cmd = "start" THEN {running.by} ELSE {})

\* A controller that was made, and whose start was carried out.
Settled(g) == g \in 1..starts /\ g \notin Pending

\* The stream of g failed, or g has none any more: there will be no other.
Doomed(g) == Settled(g) /\ (stream.id = g => stream.failed)

\* Each controller is started once, and idle only before.
StartsInv ==
  /\ Pending \subseteq 1..starts
  /\ Once(commands)
  /\ running.cmd = "start" => running.by \notin StartsIn(commands)
  /\ \A g \in 1..starts : controller[g] # "idle"

\* The stream, the handles, and all that is asked of a stream belong to such controllers.
SettledInv ==
  /\ stream.id # 0 => Settled(stream.id)
  /\ \A c \in InLine(commands) : c.cmd \in {"pause", "resume"} => Settled(c.by)
  /\ running.cmd \in {"pause", "resume"} => Settled(running.by)
  /\ \A r \in InLine(responses) : r.cmd = "start" => Settled(r.by)
  /\ \A g \in Starts : handle[g] => Settled(g)

\* Whoever learns of a failure has no stream that works, now or later.
DoomedInv ==
  /\ \A r \in InLine(responses) : ~r.ok => Doomed(r.by)
  /\ \A e \in InLine(events) : e.type = "error" => Doomed(e.by)
  /\ \A g \in Starts : controller[g] = "failed" => Doomed(g)

\* A worker ends only after a stop or a failure.
EndedInv ==
  stream.id # 0 =>
    /\ worker = "ended" => stream.stopped
    /\ stream.stopped => stream.failed \/ (running.cmd \in {"start", "stop"} /\ running.step = 2)

HistoryInv == MicInv /\ StartsInv /\ SettledInv /\ DoomedInv /\ EndedInv

LEMMA InLineJoined ==
  ASSUME NEW S, NEW s \in Seq(S), NEW t \in Seq(S)
  PROVE  InLine(s \o t) = InLine(s) \cup InLine(t)
<1>. DEFINE u == s \o t
            n == Len(s)
<1>1. /\ Len(u) = n + Len(t) /\ n \in Nat /\ Len(t) \in Nat
      /\ \A k \in 1..n : u[k] = s[k]
      /\ \A k \in 1..Len(u) : k \notin 1..n => u[k] = t[k - n]
      /\ \A k \in 1..Len(t) : u[k + n] = t[k]
  OBVIOUS
<1>. HIDE DEF u
<1>2. \A k \in 1..Len(u) : k \notin 1..n => k - n \in 1..Len(t)
  BY <1>1
<1>3. \A k \in 1..n : k \in 1..Len(u)
  BY <1>1
<1>4. \A k \in 1..Len(t) : k + n \in 1..Len(u)
  BY <1>1
<1>5. InLine(u) = InLine(s) \cup InLine(t)
  <2>1. \A k \in 1..Len(u) : u[k] \in InLine(s) \cup InLine(t)
    BY <1>1, <1>2 DEF InLine
  <2>2. \A k \in 1..n : s[k] \in InLine(u)
    BY <1>1, <1>3 DEF InLine
  <2>3. \A k \in 1..Len(t) : t[k] \in InLine(u)
    BY <1>1, <1>4 DEF InLine
  <2>. QED
    BY <2>1, <2>2, <2>3 DEF InLine
<1>. QED
  BY <1>5 DEF u

LEMMA InLineAdded ==
  ASSUME NEW S, NEW s \in Seq(S), NEW e \in S
  PROVE  InLine(Append(s, e)) = InLine(s) \cup {e}
<1>. DEFINE u == Append(s, e)
            n == Len(s)
<1>1. Len(u) = n + 1 /\ n \in Nat /\ u[n + 1] = e /\ \A k \in 1..n : u[k] = s[k]
  OBVIOUS
<1>. HIDE DEF u
<1>2. InLine(u) = InLine(s) \cup {e}
  BY <1>1 DEF InLine
<1>. QED
  BY <1>2 DEF u

LEMMA InLineOne ==
  ASSUME NEW S, NEW e \in S
  PROVE  InLine(<<e>>) = {e} /\ <<e>> \in Seq(S) /\ InLine(<<>>) = {} /\ <<>> \in Seq(S)
BY DEF InLine

LEMMA InLineTail ==
  ASSUME NEW S, NEW s \in Seq(S), s # <<>>
  PROVE  s[1] \in InLine(s) /\ InLine(Tail(s)) \subseteq InLine(s) /\ Head(s) = s[1]
<1>. DEFINE u == Tail(s)
            n == Len(s)
<1>1. n \in Nat \ {0} /\ Len(u) = n - 1 /\ \A k \in 1..Len(u) : u[k] = s[k + 1]
  OBVIOUS
<1>. HIDE DEF u
<1>2. InLine(u) \subseteq InLine(s) /\ s[1] \in InLine(s)
  BY <1>1 DEF InLine
<1>. QED
  BY <1>2 DEF u

LEMMA OnceJoined ==
  ASSUME NEW s \in Seq(CommandRecord), NEW t \in Seq(CommandRecord), Once(s),
         \A c \in InLine(t) : c.cmd # "start"
  PROVE  Once(s \o t) /\ StartsIn(s \o t) = StartsIn(s)
<1>. DEFINE u == s \o t
            n == Len(s)
<1>1. /\ Len(u) = n + Len(t) /\ n \in Nat /\ Len(t) \in Nat
      /\ \A k \in 1..n : u[k] = s[k]
      /\ \A k \in 1..Len(u) : k \notin 1..n => u[k] = t[k - n]
  OBVIOUS
<1>. HIDE DEF u
<1>2. \A k \in 1..Len(u) : k \notin 1..n => k - n \in 1..Len(t)
  BY <1>1
<1>3. \A k \in 1..Len(u) : u[k].cmd = "start" => k \in 1..n
  BY <1>1, <1>2 DEF InLine
<1>4. Once(u)
  BY <1>1, <1>3 DEF Once
<1>5. StartsIn(u) = StartsIn(s)
  BY InLineJoined DEF StartsIn, u
<1>. QED
  BY <1>4, <1>5 DEF u

LEMMA OnceAdded ==
  ASSUME NEW s \in Seq(CommandRecord), NEW c \in CommandRecord, Once(s),
         c.cmd = "start", c.by \notin StartsIn(s)
  PROVE  Once(Append(s, c)) /\ StartsIn(Append(s, c)) = StartsIn(s) \cup {c.by}
<1>. DEFINE u == Append(s, c)
            n == Len(s)
<1>1. Len(u) = n + 1 /\ n \in Nat /\ u[n + 1] = c /\ \A k \in 1..n : u[k] = s[k]
  OBVIOUS
<1>2. StartsIn(u) = StartsIn(s) \cup {c.by}
  <2>1. InLine(u) = InLine(s) \cup {c}
    BY InLineAdded
  <2>. HIDE DEF u
  <2>. QED
    BY <2>1 DEF StartsIn
<1>. HIDE DEF u
<1>3. \A k \in 1..n : s[k].cmd = "start" => s[k].by # c.by
  BY DEF StartsIn, InLine
<1>4. \A k \in 1..Len(u) : k \in 1..n \/ k = n + 1
  BY <1>1
<1>5. Once(u)
  BY <1>1, <1>3, <1>4 DEF Once
<1>. QED
  BY <1>2, <1>5 DEF u

LEMMA OnceTail ==
  ASSUME NEW s \in Seq(CommandRecord), s # <<>>, Once(s)
  PROVE  /\ Once(Tail(s)) /\ StartsIn(Tail(s)) \subseteq StartsIn(s)
         /\ s[1].cmd = "start" => s[1].by \in StartsIn(s) /\ s[1].by \notin StartsIn(Tail(s))
<1>. DEFINE u == Tail(s)
            n == Len(s)
<1>1. n \in Nat \ {0} /\ Len(u) = n - 1 /\ \A k \in 1..Len(u) : u[k] = s[k + 1]
  OBVIOUS
<1>. HIDE DEF u
<1>2. \A k \in 1..Len(u) : k + 1 \in 1..n /\ k + 1 # 1
  BY <1>1
<1>3. Once(u)
  <2>. SUFFICES ASSUME NEW j \in 1..Len(u), NEW k \in 1..Len(u),
                       u[j].cmd = "start", u[k].cmd = "start", u[j].by = u[k].by
                PROVE  j = k
    BY DEF Once
  <2>1. j + 1 = k + 1
    BY <1>1, <1>2 DEF Once
  <2>. QED
    BY <2>1
<1>4. StartsIn(u) \subseteq StartsIn(s)
  BY InLineTail DEF StartsIn, u
<1>5. ASSUME s[1].cmd = "start"
      PROVE  s[1].by \in StartsIn(s) /\ s[1].by \notin StartsIn(u)
  <2>1. s[1].by \in StartsIn(s)
    BY <1>5, InLineTail DEF StartsIn
  <2>2. ASSUME NEW k \in 1..Len(u), u[k].cmd = "start", u[k].by = s[1].by
        PROVE  FALSE
    <3>1. 1 \in 1..n
      BY <1>1
    <3>. QED
      BY <1>1, <1>2, <1>5, <2>2, <3>1 DEF Once
  <2>. QED
    BY <2>1, <2>2 DEF StartsIn, InLine
<1>. QED
  BY <1>3, <1>4, <1>5 DEF u

\* A start is carried out once and for all,
LEMMA SettledStays ==
  ASSUME MicInv, starts <= starts', starts' \in Nat, Pending' \cap (1..starts) \subseteq Pending
  PROVE  \A g : Settled(g) => Settled(g)'
<1>1. starts \in Nat
  BY DEF MicInv, TypeInv, WebOK
<1>2. \A g \in 1..starts : g \in 1..starts'
  BY <1>1
<1>. QED
  BY <1>2 DEF Settled

\* and a failed stream is not replaced for its controller.
LEMMA DoomedStays ==
  ASSUME MicInv, starts <= starts', starts' \in Nat, Pending' \cap (1..starts) \subseteq Pending,
         \/ stream'.id = stream.id /\ (stream.failed => stream'.failed)
         \/ stream'.id = 0
         \/ stream'.id \in Pending
  PROVE  \A g : Doomed(g) => Doomed(g)'
<1>1. \A g : Settled(g) => Settled(g)'
  BY SettledStays
<1>2. \A g : Settled(g) => g # 0 /\ g \notin Pending
  BY DEF Settled, MicInv, TypeInv, WebOK
<1>. QED
  BY <1>1, <1>2 DEF Doomed

-----------------------------------------------------------------------------
(* The history, in the web view *)

LEMMA HistoryStart == ASSUME MicInit PROVE HistoryInv
<1>1. MicInv
  BY MicStart
<1>2. stream.id = 0 /\ running.cmd = "none" /\ starts = 0
  BY DEF MicInit, NoStream, NewStream, Idle
<1>3. InLine(commands) = {} /\ InLine(responses) = {} /\ InLine(events) = {}
  BY DEF MicInit, InLine
<1>4. StartsInv
  BY <1>2, <1>3 DEF MicInit, StartsInv, Pending, StartsIn, Once
<1>5. SettledInv /\ DoomedInv /\ EndedInv
  BY <1>2, <1>3 DEF MicInit, SettledInv, DoomedInv, EndedInv
<1>. QED
  BY <1>1, <1>4, <1>5 DEF HistoryInv

\* What the controllers do with what the user, a response or an event tells them.
LEMMA WebHistory ==
  ASSUME HistoryInv, MicInv', UNCHANGED native, starts <= starts',
         Once(commands'),
         StartsIn(commands') \subseteq StartsIn(commands) \cup ((starts + 1)..starts'),
         \A c \in InLine(commands') :
           \/ c \in InLine(commands)
           \/ c.cmd \in {"start", "stop"}
           \/ c.by \in Starts /\ handle[c.by],
         \A g \in Starts : handle'[g] =>
           handle[g] \/ \E r \in InLine(responses) : r.cmd = "start" /\ r.by = g,
         \A g \in Starts : controller'[g] = "failed" =>
           \/ controller[g] = "failed"
           \/ \E r \in InLine(responses) : ~r.ok /\ r.by = g
           \/ \E e \in InLine(events) : e.type = "error" /\ e.by = g,
         \A g \in 1..starts' : controller'[g] = "idle" => g \in 1..starts /\ controller[g] = "idle",
         InLine(responses') \subseteq InLine(responses), InLine(events') \subseteq InLine(events)
  PROVE  HistoryInv'
<1>1. UNCHANGED <<running, stream, callback, worker>>
  BY DEF native
<1>2. starts \in Nat /\ starts' \in Nat
  BY DEF HistoryInv, MicInv, TypeInv, WebOK
<1>3. Pending' \subseteq Pending \cup ((starts + 1)..starts')
  BY <1>1 DEF Pending
<1>4. ((starts + 1)..starts') \cap (1..starts) = {} /\ 1..starts \subseteq 1..starts'
      /\ (starts + 1)..starts' \subseteq 1..starts'
  BY <1>2
<1>5. /\ Pending' \cap (1..starts) \subseteq Pending
      /\ MicInv
  BY <1>3, <1>4 DEF HistoryInv
<1>6. \A g : Settled(g) => Settled(g)'
  BY <1>2, <1>5, SettledStays
<1>7. \A g : Doomed(g) => Doomed(g)'
  BY <1>1, <1>2, <1>5, DoomedStays
<1>8. StartsInv'
  <2>1. Pending' \subseteq 1..starts'
    BY <1>3, <1>4 DEF HistoryInv, StartsInv
  <2>2. running.cmd = "start" => running.by \notin StartsIn(commands')
    BY <1>4 DEF HistoryInv, StartsInv, Pending
  <2>3. \A g \in 1..starts' : controller'[g] # "idle"
    BY DEF HistoryInv, StartsInv
  <2>. QED
    BY <1>1, <2>1, <2>2, <2>3 DEF StartsInv
<1>9. SettledInv'
  BY <1>1, <1>6 DEF HistoryInv, SettledInv
<1>10. DoomedInv'
  BY <1>7 DEF HistoryInv, DoomedInv
<1>11. EndedInv'
  BY <1>1 DEF HistoryInv, EndedInv
<1>. QED
  BY <1>8, <1>9, <1>10, <1>11 DEF HistoryInv

LEMMA CommandsJoined ==
  ASSUME HistoryInv, NEW t \in Seq(CommandRecord), \A c \in InLine(t) : c.cmd # "start"
  PROVE  /\ Once(commands \o t) /\ StartsIn(commands \o t) = StartsIn(commands)
         /\ InLine(commands \o t) = InLine(commands) \cup InLine(t)
         /\ commands \o t \in Seq(CommandRecord)
<1>1. commands \in Seq(CommandRecord) /\ Once(commands)
  BY DEF HistoryInv, MicInv, TypeInv, LinesOK, StartsInv
<1>2. commands \o t \in Seq(CommandRecord)
  BY <1>1
<1>. QED
  BY <1>1, <1>2, OnceJoined, InLineJoined

\* One command more, other than a start.
LEMMA CommandAdded ==
  ASSUME HistoryInv, NEW c \in CommandRecord, c.cmd # "start"
  PROVE  /\ Once(Append(commands, c)) /\ StartsIn(Append(commands, c)) = StartsIn(commands)
         /\ InLine(Append(commands, c)) = InLine(commands) \cup {c}
<1>1. <<c>> \in Seq(CommandRecord) /\ InLine(<<c>>) = {c}
  BY InLineOne
<1>2. Append(commands, c) = commands \o <<c>>
  BY DEF HistoryInv, MicInv, TypeInv, LinesOK
<1>. DEFINE t == <<c>>
<1>3. t \in Seq(CommandRecord) /\ InLine(t) = {c} /\ Append(commands, c) = commands \o t
  BY <1>1, <1>2
<1>. HIDE DEF t
<1>. QED
  BY <1>3, CommandsJoined

LEMMA StopsOnly ==
  ASSUME NEW g \in 0..MaxStarts
  PROVE  StopCommands(g) \in Seq(CommandRecord) /\ \A c \in InLine(StopCommands(g)) : c.cmd = "stop"
<1>1. \A c \in InLine(StopCommands(g)) : c = Command("stop", g)
  BY DEF StopCommands, InLine
<1>. QED
  BY <1>1, StopCommandsTyped DEF Command

LEMMA UserHistory ==
  ASSUME HistoryInv, StartMicrophoneSession \/ StopSession \/ PauseCapture \/ ResumeCapture
  PROVE  HistoryInv'
<1>1. MicInv' /\ MicInv
  BY PressStep DEF HistoryInv
<1>2. /\ starts \in 0..MaxStarts /\ starts \in Nat /\ starts' \in Nat
      /\ controller \in [Starts -> ControllerStates] /\ handle \in [Starts -> BOOLEAN]
      /\ starts' \in 0..MaxStarts
  BY <1>1 DEF MicInv, TypeInv, WebOK
<1>3. starts # 0 => starts \in Starts
  BY <1>2, MicrophoneAssumption DEF Starts
<1>4. \A g \in 1..starts' : g \in Starts
  BY <1>2, MicrophoneAssumption DEF Starts
<1>5. \A g \in 1..starts : controller[g] # "idle"
  BY DEF HistoryInv, StartsInv
<1>6. CASE StartMicrophoneSession
  <2>. DEFINE t == StopCommands(starts)
              c == Command("start", starts + 1)
              mid == commands \o t
  <2>1. /\ starts' = starts + 1 /\ UNCHANGED <<responses, events, native>>
        /\ commands' = commands \o t \o <<c>>
        /\ controller' = [(IF starts = 0 THEN controller ELSE Stopped(starts))
                            EXCEPT ![starts + 1] = "starting"]
        /\ handle' = IF starts = 0 THEN handle ELSE [handle EXCEPT ![starts] = FALSE]
    BY <1>6 DEF StartMicrophoneSession
  <2>2. starts + 1 \in Starts
    BY <1>2, <1>4, <2>1
  <2>3. c \in CommandRecord /\ c.cmd = "start" /\ c.by = starts + 1
    BY <2>2 DEF Command, CommandRecord, Commands
  <2>4. t \in Seq(CommandRecord) /\ \A d \in InLine(t) : d.cmd = "stop"
    BY <1>2, StopsOnly
  <2>. HIDE DEF t, c
  <2>5. /\ Once(mid) /\ StartsIn(mid) = StartsIn(commands) /\ mid \in Seq(CommandRecord)
        /\ InLine(mid) = InLine(commands) \cup InLine(t)
    BY <2>4, CommandsJoined
  <2>6. starts + 1 \notin StartsIn(commands)
    <3>1. StartsIn(commands) \subseteq 1..starts
      BY DEF HistoryInv, StartsInv, Pending
    <3>. QED
      BY <1>2, <3>1
  <2>. HIDE DEF mid
  <2>7. mid \o <<c>> = Append(mid, c)
    BY <2>3, <2>5
  <2>8. commands' = Append(mid, c)
    BY <2>1, <2>7 DEF mid
  <2>9. /\ Once(commands') /\ StartsIn(commands') = StartsIn(commands) \cup {starts + 1}
        /\ InLine(commands') = InLine(mid) \cup {c}
    BY <2>3, <2>5, <2>6, <2>8, OnceAdded, InLineAdded
  <2>10. starts + 1 \in (starts + 1)..starts' /\ starts <= starts'
    BY <1>2, <2>1
  <2>11. /\ \A g \in Starts : handle'[g] => handle[g]
         /\ \A g \in Starts : controller'[g] = "failed" => controller[g] = "failed"
         /\ \A g \in Starts : controller'[g] = "idle" => controller[g] = "idle" /\ g # starts + 1
    BY <1>2, <1>3, <2>1, <2>2 DEF Stopped
  <2>12. \A g \in 1..starts' : g \in 1..starts \/ g = starts + 1
    BY <1>2, <2>1
  <2>13. \A d \in InLine(commands') : d \in InLine(commands) \/ d.cmd \in {"start", "stop"}
    BY <2>3, <2>4, <2>5, <2>9
  <2>. QED
    BY <1>1, <1>4, <2>1, <2>9, <2>10, <2>11, <2>12, <2>13, WebHistory
<1>7. CASE StopSession
  <2>. DEFINE t == StopCommands(starts)
  <2>1. /\ starts' = starts /\ UNCHANGED <<responses, events, native>> /\ starts # 0
        /\ commands' = commands \o t
        /\ controller' = Stopped(starts)
        /\ handle' = [handle EXCEPT ![starts] = FALSE]
    BY <1>7 DEF StopSession
  <2>2. t \in Seq(CommandRecord) /\ \A d \in InLine(t) : d.cmd = "stop"
    BY <1>2, StopsOnly
  <2>. HIDE DEF t
  <2>3. /\ Once(commands') /\ StartsIn(commands') = StartsIn(commands)
        /\ InLine(commands') = InLine(commands) \cup InLine(t)
    BY <2>1, <2>2, CommandsJoined
  <2>4. /\ \A g \in Starts : handle'[g] => handle[g]
        /\ \A g \in Starts : controller'[g] = "failed" => controller[g] = "failed"
        /\ \A g \in Starts : controller'[g] = "idle" => controller[g] = "idle"
    BY <1>2, <1>3, <2>1 DEF Stopped
  <2>5. starts <= starts'
    BY <1>2, <2>1
  <2>. QED
    BY <1>1, <1>4, <2>1, <2>2, <2>3, <2>4, <2>5, WebHistory
<1>8. CASE PauseCapture \/ ResumeCapture
  <2>1. /\ starts' = starts /\ starts # 0
        /\ UNCHANGED <<responses, events, native, controller, handle>>
        /\ handle[starts]
        /\ \E cmd \in {"pause", "resume"} : commands' = Append(commands, Command(cmd, starts))
    BY <1>8 DEF PauseCapture, ResumeCapture
  <2>2. PICK cmd \in {"pause", "resume"} : commands' = Append(commands, Command(cmd, starts))
    BY <2>1
  <2>. DEFINE c == Command(cmd, starts)
  <2>3. c \in CommandRecord /\ c.cmd # "start" /\ c.by = starts
    BY <1>3, <2>1 DEF Command, CommandRecord, Commands
  <2>. HIDE DEF c
  <2>4. /\ Once(commands') /\ StartsIn(commands') = StartsIn(commands)
        /\ InLine(commands') = InLine(commands) \cup {c}
    BY <2>2, <2>3, CommandAdded DEF c
  <2>5. starts <= starts'
    BY <1>2, <2>1
  <2>. QED
    BY <1>1, <1>3, <1>4, <2>1, <2>3, <2>4, <2>5, WebHistory
<1>. QED
  BY <1>6, <1>7, <1>8

\* A controller that fails, for a reason that was told.
LEMMA FailHistory ==
  ASSUME HistoryInv, NEW g \in Starts, Fail(g)
  PROVE  /\ Once(commands') /\ StartsIn(commands') = StartsIn(commands)
         /\ \A c \in InLine(commands') : c \in InLine(commands) \/ c.cmd = "stop"
         /\ \A h \in Starts :
              /\ handle'[h] => handle[h]
              /\ controller'[h] = "failed" => controller[h] = "failed" \/ h = g
              /\ controller'[h] = "idle" => controller[h] = "idle"
<1>1. /\ commands \in Seq(CommandRecord) /\ Once(commands)
      /\ controller \in [Starts -> ControllerStates] /\ handle \in [Starts -> BOOLEAN]
  BY DEF HistoryInv, MicInv, TypeInv, LinesOK, WebOK, StartsInv
<1>2. CASE controller[g] \in {"failed", "stopped"}
  BY <1>1, <1>2 DEF Fail
<1>3. CASE controller[g] \notin {"failed", "stopped"}
  <2>1. /\ controller' = [controller EXCEPT ![g] = "failed"]
        /\ handle' = [handle EXCEPT ![g] = FALSE]
        /\ commands' = commands \o StopCommands(g)
    BY <1>3 DEF Fail
  <2>2. g \in 0..MaxStarts
    BY MicrophoneAssumption DEF Starts
  <2>3. /\ Once(commands') /\ StartsIn(commands') = StartsIn(commands)
        /\ InLine(commands') = InLine(commands) \cup InLine(StopCommands(g))
        /\ \A c \in InLine(StopCommands(g)) : c.cmd = "stop"
    BY <2>1, <2>2, StopsOnly, CommandsJoined
  <2>4. \A h \in Starts :
              /\ handle'[h] => handle[h]
              /\ controller'[h] = "failed" => controller[h] = "failed" \/ h = g
              /\ controller'[h] = "idle" => controller[h] = "idle"
    BY <1>1, <2>1
  <2>. QED
    BY <2>3, <2>4
<1>. QED
  BY <1>2, <1>3

LEMMA RespondsHistory == ASSUME HistoryInv, Responds PROVE HistoryInv'
<1>. DEFINE r == Head(responses)
<1>1. MicInv' /\ MicInv
  BY RespondsStep DEF HistoryInv
<1>2. /\ responses \in Seq(ResponseRecord) /\ responses # <<>> /\ responses' = Tail(responses)
      /\ UNCHANGED <<starts, presses, events, native>>
      /\ controller \in [Starts -> ControllerStates] /\ handle \in [Starts -> BOOLEAN]
      /\ starts \in Nat /\ MaxStarts \in Nat /\ starts <= MaxStarts
  BY <1>1, MicrophoneAssumption DEF MicInv, TypeInv, LinesOK, WebOK, Responds
<1>3. /\ r \in InLine(responses) /\ r \in ResponseRecord
      /\ InLine(responses') \subseteq InLine(responses)
  <2>1. r \in ResponseRecord
    BY <1>2
  <2>. HIDE DEF r
  <2>2. responses[1] \in InLine(responses) /\ InLine(Tail(responses)) \subseteq InLine(responses)
        /\ Head(responses) = responses[1]
    BY <1>2, InLineTail
  <2>. QED
    BY <1>2, <2>1, <2>2 DEF r
<1>4. \/ /\ r.ok /\ commands' = Append(commands, Command("stop", r.by))
         /\ UNCHANGED <<controller, handle, streamTime>>
      \/ /\ r.ok /\ r.cmd = "start" /\ handle' = [handle EXCEPT ![r.by] = TRUE]
         /\ controller' = [controller EXCEPT ![r.by] = "capturing"]
         /\ UNCHANGED <<streamTime, commands>>
      \/ ~r.ok /\ Fail(r.by)
      \/ UNCHANGED <<controller, handle, streamTime, commands>>
  BY DEF Responds
<1>. HIDE DEF r
<1>5. r.by \in Starts
  BY <1>3 DEF ResponseRecord
<1>6. \A g \in 1..starts : g \in Starts
  BY <1>2 DEF Starts
<1>7. Once(commands)
  BY DEF HistoryInv, StartsInv
<1>8. starts <= starts' /\ InLine(events') \subseteq InLine(events)
  BY <1>2
<1>9. CASE /\ commands' = Append(commands, Command("stop", r.by))
           /\ UNCHANGED <<controller, handle, streamTime>>
  <2>. DEFINE c == Command("stop", r.by)
  <2>1. c \in CommandRecord /\ c.cmd = "stop"
    BY <1>5 DEF Command, CommandRecord, Commands
  <2>. HIDE DEF c
  <2>2. /\ Once(commands') /\ StartsIn(commands') = StartsIn(commands)
        /\ InLine(commands') = InLine(commands) \cup {c}
    BY <1>9, <2>1, CommandAdded DEF c
  <2>. QED
    BY <1>1, <1>2, <1>3, <1>8, <1>9, <2>1, <2>2, WebHistory
<1>10. CASE /\ r.cmd = "start" /\ handle' = [handle EXCEPT ![r.by] = TRUE]
            /\ controller' = [controller EXCEPT ![r.by] = "capturing"]
            /\ UNCHANGED <<streamTime, commands>>
  <2>1. \A g \in Starts :
          /\ handle'[g] => handle[g] \/ g = r.by
          /\ controller'[g] = "failed" => controller[g] = "failed"
          /\ controller'[g] = "idle" => controller[g] = "idle"
    BY <1>2, <1>5, <1>10
  <2>. QED
    BY <1>1, <1>2, <1>3, <1>6, <1>7, <1>8, <1>10, <2>1, WebHistory
<1>11. CASE ~r.ok /\ Fail(r.by)
  <2>1. /\ Once(commands') /\ StartsIn(commands') = StartsIn(commands)
        /\ \A c \in InLine(commands') : c \in InLine(commands) \/ c.cmd = "stop"
        /\ \A h \in Starts :
             /\ handle'[h] => handle[h]
             /\ controller'[h] = "failed" => controller[h] = "failed" \/ h = r.by
             /\ controller'[h] = "idle" => controller[h] = "idle"
    BY <1>5, <1>11, FailHistory
  <2>. QED
    BY <1>1, <1>2, <1>3, <1>6, <1>8, <1>11, <2>1, WebHistory
<1>12. CASE UNCHANGED <<controller, handle, streamTime, commands>>
  BY <1>1, <1>2, <1>3, <1>7, <1>8, <1>12, WebHistory
<1>. QED
  BY <1>4, <1>9, <1>10, <1>11, <1>12

LEMMA EventArrivesHistory == ASSUME HistoryInv, EventArrives PROVE HistoryInv'
<1>. DEFINE e == Head(events)
<1>1. MicInv' /\ MicInv
  BY EventArrivesStep DEF HistoryInv
<1>2. /\ events \in Seq(EventRecord) /\ events # <<>> /\ events' = Tail(events)
      /\ UNCHANGED <<starts, presses, responses, native>>
      /\ controller \in [Starts -> ControllerStates] /\ handle \in [Starts -> BOOLEAN]
      /\ starts \in Nat /\ MaxStarts \in Nat /\ starts <= MaxStarts
  BY <1>1, MicrophoneAssumption DEF MicInv, TypeInv, LinesOK, WebOK, EventArrives
<1>3. e \in InLine(events) /\ InLine(events') \subseteq InLine(events) /\ e \in EventRecord
  <2>1. e \in EventRecord
    BY <1>2
  <2>. HIDE DEF e
  <2>2. events[1] \in InLine(events) /\ InLine(Tail(events)) \subseteq InLine(events)
        /\ Head(events) = events[1]
    BY <1>2, InLineTail
  <2>. QED
    BY <1>2, <2>1, <2>2 DEF e
<1>4. \/ UNCHANGED <<controller, handle, commands>>
      \/ e.type = "error" /\ Fail(e.by)
      \/ /\ e.type \in {"paused", "capturing"}
         /\ controller' = [controller EXCEPT ![e.by] = e.type]
         /\ UNCHANGED <<handle, streamTime, commands>>
  BY DEF EventArrives
<1>. HIDE DEF e
<1>5. e.by \in Starts
  BY <1>3 DEF EventRecord
<1>6. \A g \in 1..starts : g \in Starts
  BY <1>2 DEF Starts
<1>7. Once(commands)
  BY DEF HistoryInv, StartsInv
<1>8. starts <= starts' /\ InLine(responses') \subseteq InLine(responses)
  BY <1>2
<1>9. CASE UNCHANGED <<controller, handle, commands>>
  BY <1>1, <1>2, <1>3, <1>7, <1>8, <1>9, WebHistory
<1>10. CASE e.type = "error" /\ Fail(e.by)
  <2>1. /\ Once(commands') /\ StartsIn(commands') = StartsIn(commands)
        /\ \A c \in InLine(commands') : c \in InLine(commands) \/ c.cmd = "stop"
        /\ \A h \in Starts :
             /\ handle'[h] => handle[h]
             /\ controller'[h] = "failed" => controller[h] = "failed" \/ h = e.by
             /\ controller'[h] = "idle" => controller[h] = "idle"
    BY <1>5, <1>10, FailHistory
  <2>. QED
    BY <1>1, <1>2, <1>3, <1>6, <1>8, <1>10, <2>1, WebHistory
<1>11. CASE /\ e.type \in {"paused", "capturing"}
            /\ controller' = [controller EXCEPT ![e.by] = e.type]
            /\ UNCHANGED <<handle, streamTime, commands>>
  <2>1. \A g \in Starts :
          /\ controller'[g] = "failed" => controller[g] = "failed"
          /\ controller'[g] = "idle" => controller[g] = "idle"
    BY <1>2, <1>5, <1>11
  <2>. QED
    BY <1>1, <1>2, <1>3, <1>6, <1>7, <1>8, <1>11, <2>1, WebHistory
<1>. QED
  BY <1>4, <1>9, <1>10, <1>11

-----------------------------------------------------------------------------
(* The history, on the native side *)

LEMMA NativeHistory ==
  ASSUME HistoryInv, MicInv', UNCHANGED <<web, commands>>, EndedInv',
         \/ running'.cmd = "none"
         \/ running'.cmd = running.cmd /\ running'.by = running.by,
         \/ stream'.id = stream.id /\ (stream.failed => stream'.failed)
         \/ stream'.id = 0
         \/ stream'.id = running.by /\ running.cmd = "start" /\ running'.cmd = "none",
         \A r \in InLine(responses') :
           \/ r \in InLine(responses)
           \/ /\ running.cmd # "none" /\ running'.cmd = "none"
              /\ r.cmd = running.cmd /\ r.by = running.by
              /\ r.ok \/ (running.cmd # "stop" /\ (stream'.id = running.by => stream'.failed)),
         \A e \in InLine(events') :
           \/ e \in InLine(events)
           \/ e.type # "error"
           \/ e.by = stream.id /\ stream.id # 0 /\ stream'.id = stream.id /\ stream'.failed
  PROVE  HistoryInv'
<1>1. /\ starts' = starts /\ handle' = handle /\ controller' = controller /\ starts \in Nat
      /\ commands' = commands /\ MicInv /\ starts <= starts' /\ starts' \in Nat
  BY DEF web, HistoryInv, MicInv, TypeInv, WebOK
<1>2. Pending' \subseteq Pending
  BY <1>1 DEF Pending
<1>. DEFINE S(g) == g \in 1..starts' /\ g \notin Pending'
            D(g) == S(g) /\ (stream'.id = g => stream'.failed)
<1>3. \A g : Settled(g) => S(g)
  BY <1>1, <1>2, SettledStays DEF Settled
<1>4. \A g : Doomed(g) => D(g)
  BY <1>1, <1>2, DoomedStays DEF Pending, Doomed, Settled
<1>5. StartsInv'
  BY <1>1, <1>2 DEF HistoryInv, StartsInv, Pending
<1>6. running.cmd # "none" => running.cmd \in Commands
  BY <1>1 DEF MicInv, TypeInv, RunningOK
<1>7. ASSUME running.cmd # "none", running.cmd # "stop", running'.cmd = "none"
      PROVE  S(running.by)
  <2>1. CASE running.cmd \in {"pause", "resume"}
    BY <1>3, <2>1 DEF HistoryInv, SettledInv
  <2>2. CASE running.cmd = "start"
    <3>1. running.by \in 1..starts /\ running.by \notin StartsIn(commands)
      BY <2>2 DEF HistoryInv, StartsInv, Pending
    <3>. QED
      BY <1>1, <1>7, <3>1 DEF Pending
  <2>. QED
    BY <1>6, <1>7, <2>1, <2>2 DEF Commands
<1>. HIDE DEF S
<1>8. SettledInv'
  <2>1. stream'.id # 0 => S(stream'.id)
    <3>1. CASE stream'.id = stream.id
      BY <1>3, <3>1 DEF HistoryInv, SettledInv
    <3>2. CASE stream'.id = running.by /\ running.cmd = "start" /\ running'.cmd = "none"
      BY <1>7, <3>2
    <3>. QED
      BY <3>1, <3>2
  <2>2. ASSUME NEW r \in InLine(responses'), r.cmd = "start"
        PROVE  S(r.by)
    <3>1. CASE r \in InLine(responses)
      BY <1>3, <2>2, <3>1 DEF HistoryInv, SettledInv
    <3>2. CASE /\ running.cmd # "none" /\ running'.cmd = "none"
               /\ r.cmd = running.cmd /\ r.by = running.by
      BY <1>7, <2>2, <3>2
    <3>. QED
      BY <3>1, <3>2
  <2>3. running'.cmd \in {"pause", "resume"} => S(running'.by)
    BY <1>3 DEF HistoryInv, SettledInv
  <2>4. \A c \in InLine(commands') : c.cmd \in {"pause", "resume"} => S(c.by)
    BY <1>1, <1>3 DEF HistoryInv, SettledInv
  <2>5. \A g \in Starts : handle'[g] => S(g)
    BY <1>1, <1>3 DEF HistoryInv, SettledInv
  <2>. QED
    BY <2>1, <2>2, <2>3, <2>4, <2>5 DEF SettledInv, Settled, S
<1>9. DoomedInv'
  <2>1. ASSUME NEW r \in InLine(responses'), ~r.ok
        PROVE  D(r.by)
    <3>1. CASE r \in InLine(responses)
      BY <1>4, <2>1, <3>1 DEF HistoryInv, DoomedInv
    <3>2. CASE /\ running.cmd # "none" /\ running'.cmd = "none"
               /\ r.by = running.by
               /\ running.cmd # "stop" /\ (stream'.id = running.by => stream'.failed)
      BY <1>7, <3>2
    <3>. QED
      BY <2>1, <3>1, <3>2
  <2>2. ASSUME NEW e \in InLine(events'), e.type = "error"
        PROVE  D(e.by)
    <3>1. CASE e \in InLine(events)
      BY <1>4, <2>2, <3>1 DEF HistoryInv, DoomedInv
    <3>2. CASE e.by = stream.id /\ stream.id # 0 /\ stream'.id = stream.id /\ stream'.failed
      BY <1>3, <3>2 DEF HistoryInv, SettledInv
    <3>. QED
      BY <2>2, <3>1, <3>2
  <2>3. \A g \in Starts : controller'[g] = "failed" => D(g)
    BY <1>1, <1>4 DEF HistoryInv, DoomedInv
  <2>. QED
    BY <2>1, <2>2, <2>3 DEF DoomedInv, Doomed, Settled, S
<1>. QED
  BY <1>5, <1>8, <1>9 DEF HistoryInv

\* A command that was carried out, or refused.
LEMMA ReturnLine ==
  ASSUME MicInv, running.cmd # "none", NEW ok \in BOOLEAN, Return(ok)
  PROVE  /\ running'.cmd = "none"
         /\ \A r \in InLine(responses') :
              r \in InLine(responses) \/ (r.cmd = running.cmd /\ r.by = running.by /\ r.ok = ok)
<1>. DEFINE r == [cmd |-> running.cmd, by |-> running.by, ok |-> ok]
<1>1. r \in ResponseRecord /\ r.cmd = running.cmd /\ r.by = running.by /\ r.ok = ok
  BY DEF MicInv, TypeInv, RunningOK, ResponseRecord
<1>2. responses' = Append(responses, r) /\ running' = Idle /\ responses \in Seq(ResponseRecord)
  BY DEF Return, MicInv, TypeInv, LinesOK
<1>. HIDE DEF r
<1>3. InLine(responses') = InLine(responses) \cup {r}
  BY <1>1, <1>2, InLineAdded
<1>. QED
  BY <1>1, <1>2, <1>3 DEF Idle

LEMMA NextCommandHistory == ASSUME HistoryInv, NextCommand PROVE HistoryInv'
<1>1. MicInv' /\ MicInv
  BY NextCommandStep DEF HistoryInv
<1>2. /\ UNCHANGED <<web, responses, events, stream, callback, worker>>
      /\ commands # <<>> /\ commands \in Seq(CommandRecord) /\ running' = Head(commands)
      /\ running = Idle
      /\ commands' = Tail(commands) /\ Once(commands)
      /\ starts \in Nat
  BY <1>1 DEF NextCommand, HistoryInv, StartsInv, MicInv, TypeInv, LinesOK, WebOK
<1>3. /\ running' = commands[1] /\ commands[1] \in InLine(commands)
      /\ InLine(commands') \subseteq InLine(commands)
  BY <1>2, InLineTail
<1>4. /\ Once(commands') /\ StartsIn(commands') \subseteq StartsIn(commands)
      /\ running'.cmd = "start"
           => running'.by \in StartsIn(commands) /\ running'.by \notin StartsIn(commands')
  BY <1>2, <1>3, OnceTail
<1>5. starts' = starts /\ controller' = controller /\ handle' = handle
  BY <1>2 DEF web
<1>6. Pending' \subseteq Pending
  BY <1>4 DEF Pending
<1>7. starts <= starts' /\ starts' \in Nat
  BY <1>2, <1>5
<1>8. \A g : Settled(g) => Settled(g)'
  BY <1>1, <1>6, <1>7, SettledStays
<1>9. \A g : Doomed(g) => Doomed(g)'
  BY <1>1, <1>2, <1>6, <1>7, DoomedStays
<1>10. StartsInv'
  BY <1>4, <1>5, <1>6 DEF HistoryInv, StartsInv
<1>11. SettledInv'
  BY <1>2, <1>3, <1>5, <1>8 DEF HistoryInv, SettledInv
<1>12. DoomedInv'
  BY <1>2, <1>5, <1>9 DEF HistoryInv, DoomedInv
<1>13. EndedInv'
  <2>1. running.cmd = "none"
    BY <1>2 DEF Idle
  <2>. QED
    BY <1>2, <2>1 DEF HistoryInv, EndedInv
<1>. QED
  BY <1>1, <1>10, <1>11, <1>12, <1>13 DEF HistoryInv

\* The commands that leave the stream its identity.
LEMMA SameStreamHistory ==
  ASSUME HistoryInv,
         \/ SignalStop \/ PauseStream \/ PauseNewEpoch \/ PauseResets \/ ResumeStream
         \/ PauseAnnounces \/ ResumeAnnounces
  PROVE  HistoryInv'
<1>1. MicInv' /\ MicInv
  BY SignalStopStep, PauseStreamStep, PauseNewEpochStep, PauseResetsStep, ResumeStreamStep,
     PauseAnnouncesStep, ResumeAnnouncesStep DEF HistoryInv
<1>2. /\ UNCHANGED <<web, commands, events, callback, worker>> /\ running.cmd # "none"
      /\ running.cmd # "stop" \/ SignalStop
  BY DEF SignalStop, PauseStream, PauseNewEpoch, PauseResets, ResumeStream, PauseAnnounces,
         ResumeAnnounces, AtStep, StopActiveStream
<1>3. stream \in StreamRecord /\ running.step \in 0..4
  BY <1>1 DEF MicInv, TypeInv, StreamOK, RunningOK
<1>4. /\ stream'.id = stream.id /\ stream'.failed = stream.failed
      /\ SignalStop \/ stream'.stopped = stream.stopped
  BY <1>3 DEF SignalStop, PauseStream, PauseNewEpoch, PauseResets, ResumeStream, PauseAnnounces,
              ResumeAnnounces, SendState, Reset, StreamRecord
<1>5. \/ Proceed
      \/ Return(TRUE)
      \/ Return(FALSE) /\ worker = "ended" /\ running.cmd \in {"pause", "resume"}
  BY DEF SignalStop, PauseStream, PauseNewEpoch, PauseResets, ResumeStream, PauseAnnounces,
         ResumeAnnounces, SendState, AtStep
<1>6. /\ \/ running'.cmd = "none"
         \/ running'.cmd = running.cmd /\ running'.by = running.by
      /\ Proceed => /\ running'.cmd = running.cmd /\ responses' = responses
                    /\ running'.step = running.step + 1
  <2>1. Proceed => /\ running'.cmd = running.cmd /\ running'.by = running.by
                   /\ responses' = responses
                   /\ running'.step = running.step + 1
    BY <1>1 DEF Proceed, MicInv, TypeInv, RunningOK
  <2>2. Return(TRUE) \/ Return(FALSE) => running'.cmd = "none"
    BY DEF Return, Idle
  <2>. QED
    BY <1>5, <2>1, <2>2
<1>7. ASSUME stream.id # 0, worker = "ended", running.cmd \in {"pause", "resume"}
      PROVE  stream.failed
  BY <1>7 DEF HistoryInv, EndedInv
<1>8. \A r \in InLine(responses') :
        \/ r \in InLine(responses)
        \/ /\ running'.cmd = "none" /\ r.cmd = running.cmd /\ r.by = running.by
           /\ r.ok \/ (running.cmd # "stop" /\ (stream'.id = running.by => stream'.failed))
  <2>1. CASE Proceed
    BY <1>6, <2>1
  <2>2. CASE Return(TRUE)
    BY <1>1, <1>2, <2>2, ReturnLine
  <2>3. CASE Return(FALSE) /\ worker = "ended" /\ running.cmd \in {"pause", "resume"}
    <3>1. /\ running'.cmd = "none"
          /\ \A r \in InLine(responses') :
               r \in InLine(responses) \/ (r.cmd = running.cmd /\ r.by = running.by)
      BY <1>1, <1>2, <2>3, ReturnLine
    <3>2. running.by # 0
      BY <1>1, <1>2 DEF MicInv, TypeInv, RunningOK, Starts
    <3>3. stream'.id = running.by => stream'.failed
      BY <1>4, <1>7, <2>3, <3>2
    <3>. QED
      BY <2>3, <3>1, <3>3
  <2>. QED
    BY <1>5, <2>1, <2>2, <2>3
<1>9. EndedInv'
  <2>1. CASE SignalStop
    <3>1. /\ running.cmd \in {"start", "stop"} /\ running.step = 1 /\ Proceed
          /\ stream'.stopped
      BY <1>3, <2>1 DEF SignalStop, StopActiveStream, AtStep, StreamRecord
    <3>. QED
      BY <1>6, <3>1 DEF EndedInv
  <2>2. CASE ~SignalStop
    <3>1. running.cmd \in {"pause", "resume"}
      BY <2>2 DEF PauseStream, PauseNewEpoch, PauseResets, ResumeStream, PauseAnnounces,
                  ResumeAnnounces, AtStep
    <3>. QED
      BY <1>2, <1>4, <2>2, <3>1 DEF HistoryInv, EndedInv
  <2>. QED
    BY <2>1, <2>2
<1>. QED
  BY <1>1, <1>2, <1>4, <1>6, <1>8, <1>9, NativeHistory

LEMMA RefusedHistory == ASSUME HistoryInv, AlreadyActive \/ NotActive PROVE HistoryInv'
<1>1. MicInv' /\ MicInv
  BY RefusedStep DEF HistoryInv
<1>2. /\ running.cmd # "none" /\ running.cmd # "stop" /\ Return(FALSE)
      /\ UNCHANGED <<web, commands, events, stream, callback, worker>>
  BY DEF AlreadyActive, NotActive, AtStep
<1>3. /\ running'.cmd = "none"
      /\ \A r \in InLine(responses') :
           r \in InLine(responses) \/ (r.cmd = running.cmd /\ r.by = running.by)
  BY <1>1, <1>2, ReturnLine
<1>4. stream.id = running.by => stream.failed
  <2>1. running.by # 0
    BY <1>1, <1>2 DEF MicInv, TypeInv, RunningOK, Starts
  <2>2. CASE AlreadyActive
    <3>1. stream.id # 0 /\ running.cmd = "start"
      BY <2>2 DEF AlreadyActive, AtStep
    <3>2. stream.id \notin Pending
      BY <3>1 DEF HistoryInv, SettledInv, Settled
    <3>. QED
      BY <3>1, <3>2 DEF Pending
  <2>3. CASE NotActive
    BY <2>1, <2>3 DEF NotActive
  <2>. QED
    BY <2>2, <2>3
<1>5. EndedInv'
  <2>1. ~(running.cmd \in {"start", "stop"} /\ running.step = 2)
    <3>1. AlreadyActive => running.step = 1
      BY DEF AlreadyActive, AtStep
    <3>2. NotActive => running.step = 1
      BY DEF NotActive
    <3>. QED
      BY <3>1, <3>2
  <2>. QED
    BY <1>2, <2>1 DEF HistoryInv, EndedInv
<1>. QED
  BY <1>1, <1>2, <1>3, <1>4, <1>5, NativeHistory

LEMMA NewStreamHistory == ASSUME HistoryInv, StartStream \/ StopStream PROVE HistoryInv'
<1>1. MicInv' /\ MicInv
  BY NewStreamStep DEF HistoryInv
<1>2. /\ UNCHANGED <<web, commands, events, callback>> /\ running.cmd \in {"start", "stop"}
      /\ \/ /\ running.cmd = "start" /\ stream' = NewStream(running.by) /\ worker' = "report"
            /\ Return(TRUE)
         \/ running.cmd = "start" /\ stream' = NoStream /\ Return(FALSE)
         \/ stream' = NoStream /\ Return(TRUE)
  BY DEF StartStream, StopStream, Joined, AtStep
<1>3. /\ NoStream.id = 0 /\ NewStream(running.by).id = running.by
      /\ ~NewStream(running.by).stopped
  BY DEF NoStream, NewStream
<1>4. running.by # 0
  BY <1>1, <1>2 DEF MicInv, TypeInv, RunningOK, Starts
<1>5. CASE /\ running.cmd = "start" /\ stream' = NewStream(running.by)
           /\ worker' = "report" /\ Return(TRUE)
  <2>1. /\ running'.cmd = "none"
        /\ \A r \in InLine(responses') :
             r \in InLine(responses) \/ (r.cmd = running.cmd /\ r.by = running.by /\ r.ok)
    BY <1>1, <1>5, ReturnLine
  <2>2. EndedInv'
    BY <1>3, <1>5 DEF EndedInv
  <2>. QED
    BY <1>1, <1>2, <1>3, <1>5, <2>1, <2>2, NativeHistory
<1>6. CASE running.cmd = "start" /\ stream' = NoStream /\ Return(FALSE)
  <2>1. /\ running'.cmd = "none"
        /\ \A r \in InLine(responses') :
             r \in InLine(responses) \/ (r.cmd = running.cmd /\ r.by = running.by)
    BY <1>1, <1>6, ReturnLine
  <2>2. EndedInv'
    BY <1>3, <1>6 DEF EndedInv
  <2>. QED
    BY <1>1, <1>2, <1>3, <1>4, <1>6, <2>1, <2>2, NativeHistory
<1>7. CASE stream' = NoStream /\ Return(TRUE)
  <2>1. /\ running'.cmd = "none"
        /\ \A r \in InLine(responses') :
             r \in InLine(responses) \/ (r.cmd = running.cmd /\ r.by = running.by /\ r.ok)
    BY <1>1, <1>2, <1>7, ReturnLine
  <2>2. EndedInv'
    BY <1>3, <1>7 DEF EndedInv
  <2>. QED
    BY <1>1, <1>2, <1>3, <1>7, <2>1, <2>2, NativeHistory
<1>. QED
  BY <1>2, <1>5, <1>6, <1>7

\* The device, its callback, and what the worker does with the queue.
LEMMA ThreadHistory ==
  ASSUME HistoryInv,
         \/ DeviceDelivers \/ DeviceFails \/ CallbackLooks \/ CallbackEnqueues
         \/ WorkerReports \/ WorkerEnds \/ WorkerReceives \/ WorkerProcesses
  PROVE  HistoryInv'
<1>1. MicInv' /\ MicInv
  BY DeviceStep, CallbackLooksStep, CallbackEnqueuesStep, WorkerReportsStep, WorkerEndsStep,
     WorkerReceivesStep, WorkerProcessesStep DEF HistoryInv
<1>2. UNCHANGED <<web, commands, responses, running>>
  BY DEF DeviceDelivers, DeviceFails, CallbackLooks, CallbackEnqueues, WorkerReports, WorkerEnds,
         WorkerReceives, WorkerProcesses
<1>3. stream \in StreamRecord /\ events \in Seq(EventRecord)
  BY <1>1 DEF MicInv, TypeInv, StreamOK, LinesOK
<1>4. /\ stream'.id = stream.id /\ (stream.failed => stream'.failed)
      /\ \/ stream'.stopped = stream.stopped
         \/ stream'.stopped = stream.failed /\ worker' = "receive"
      /\ worker' = "ended" => worker = "ended" \/ (stream.stopped /\ stream'.stopped)
  <2>1. CASE DeviceDelivers \/ DeviceFails
    BY <1>3, <2>1 DEF DeviceDelivers, DeviceFails, StreamRecord
  <2>2. CASE CallbackLooks \/ CallbackEnqueues
    <3>1. worker' = worker
      BY <2>2 DEF CallbackLooks, CallbackEnqueues
    <3>2. \/ stream' = stream
          \/ stream' = [stream EXCEPT !.captured = @ + 1]
          \/ stream' = [stream EXCEPT !.failed = TRUE]
          \/ stream' = [stream EXCEPT !.queue = Append(@, Message("samples", ReadEpoch))]
          \/ stream' = [stream EXCEPT !.dropped = @ + 1]
      BY <2>2 DEF CallbackLooks, CallbackEnqueues
    <3>. QED
      BY <1>3, <3>1, <3>2 DEF StreamRecord
  <2>3. CASE WorkerReports \/ WorkerEnds
    <3>1. CASE WorkerReports
      <4>1. /\ worker' = "receive"
            /\ stream' = [stream EXCEPT !.dropped = 0, !.lateInput = 0, !.resetOutput = 0,
                                        !.stopped = stream.failed]
        BY <3>1 DEF WorkerReports
      <4>. QED
        BY <1>3, <4>1 DEF StreamRecord
    <3>2. CASE WorkerEnds
      BY <3>2 DEF WorkerEnds
    <3>. QED
      BY <2>3, <3>1, <3>2
  <2>4. CASE WorkerReceives
    <3>1. stream' \in {stream, [stream EXCEPT !.queue = Tail(@)],
                       [[stream EXCEPT !.queue = Tail(@)] EXCEPT !.lateInput = @ + 1]}
          /\ worker' \in {"report", "process"}
      BY <2>4 DEF WorkerReceives
    <3>. QED
      BY <1>3, <3>1 DEF StreamRecord
  <2>5. CASE WorkerProcesses
    BY <1>3, <2>5 DEF WorkerProcesses, StreamRecord
  <2>. QED
    BY <2>1, <2>2, <2>3, <2>4, <2>5
<1>5. \A e \in InLine(events') :
        \/ e \in InLine(events)
        \/ e.type # "error"
        \/ e.by = stream.id /\ stream.id # 0 /\ stream.failed
  <2>1. CASE events' = events
    BY <2>1
  <2>2. CASE WorkerReports
    <3>1. stream.id # 0
      BY <1>1, <2>2 DEF WorkerReports, MicInv, TypeInv, WorkersOK
    <3>. DEFINE s1 == GapOf(Estimate(stream.dropped))
                s2 == GapOf(Estimate(stream.lateInput) + Estimate(stream.resetOutput))
                s3 == IF stream.failed THEN <<Event(stream.id, "error", 0)>> ELSE <<>>
    <3>2. events' = events \o s1 \o s2 \o s3
      BY <2>2 DEF WorkerReports
    <3>3. s1 \in Seq(EventRecord) /\ s2 \in Seq(EventRecord)
      <4>1. stream.dropped \in Nat /\ stream.lateInput \in Nat /\ stream.resetOutput \in Nat
        BY <1>3 DEF StreamRecord
      <4>2. /\ Estimate(stream.dropped) \in Nat /\ Estimate(stream.lateInput) \in Nat
            /\ Estimate(stream.resetOutput) \in Nat
        BY <4>1, EstimateNat
      <4>3. Estimate(stream.lateInput) + Estimate(stream.resetOutput) \in Nat
        BY <4>2
      <4>. QED
        BY <1>1, <3>1, <4>2, <4>3, GapTyped
    <3>4. s3 \in Seq(EventRecord)
      <4>1. stream.id \in Starts /\ 0 \in Nat
        BY <1>3, <3>1, MicrophoneAssumption DEF StreamRecord, Starts
      <4>2. Event(stream.id, "error", 0) \in EventRecord
        BY <4>1, EventTyped
      <4>. QED
        BY <4>2
    <3>5. \A n : \A e \in InLine(GapOf(n)) : e.type = "gap"
      BY DEF GapOf, InLine, Event
    <3>6. \A e \in InLine(s3) : stream.failed /\ e.by = stream.id
      BY DEF InLine, Event
    <3>7. /\ \A e \in InLine(s1) : e.type = "gap"
          /\ \A e \in InLine(s2) : e.type = "gap"
      BY <3>5
    <3>. HIDE DEF s1, s2, s3
    <3>8. InLine(events') = InLine(events) \cup InLine(s1) \cup InLine(s2) \cup InLine(s3)
      <4>. DEFINE u == events \o s1
                  w == u \o s2
      <4>1. InLine(u) = InLine(events) \cup InLine(s1) /\ u \in Seq(EventRecord)
        BY <1>3, <3>3, InLineJoined
      <4>. HIDE DEF u
      <4>2. InLine(w) = InLine(u) \cup InLine(s2) /\ w \in Seq(EventRecord)
        BY <3>3, <4>1, InLineJoined
      <4>. HIDE DEF w
      <4>3. InLine(w \o s3) = InLine(w) \cup InLine(s3)
        BY <3>4, <4>2, InLineJoined
      <4>4. events' = w \o s3
        BY <3>2 DEF w, u
      <4>. QED
        BY <4>1, <4>2, <4>3, <4>4
    <3>. QED
      BY <3>1, <3>6, <3>7, <3>8
  <2>3. ASSUME NEW type \in {"capturing", "paused", "chunk"}, NEW n \in Nat, stream.id # 0,
               type # "chunk" => n = 0,
               events' = Append(events, Event(stream.id, type, n))
        PROVE  \A e \in InLine(events') : e \in InLine(events) \/ e.type # "error"
    <3>. DEFINE e == Event(stream.id, type, n)
    <3>1. stream.id \in Starts
      BY <1>3, <2>3, MicrophoneAssumption DEF StreamRecord, Starts
    <3>2. e \in EventRecord /\ e.type # "error"
      <4>1. /\ type \in {"capturing", "paused", "chunk", "gap", "error"} /\ type # "error"
            /\ type \in {"capturing", "paused", "error"} => n = 0
        BY <2>3
      <4>. QED
        BY <3>1, <4>1, EventTyped
    <3>. HIDE DEF e
    <3>3. InLine(events') = InLine(events) \cup {e}
      BY <1>3, <2>3, <3>2, InLineAdded DEF e
    <3>. QED
      BY <3>2, <3>3
  <2>4. CASE WorkerReceives /\ events' # events
    <3>1. stream.queue # <<>> /\ stream.id # 0
      BY <1>1, <2>4 DEF WorkerReceives, MicInv, TypeInv, WorkersOK
    <3>. DEFINE m == Head(stream.queue)
    <3>2. m \in MessageRecord
      BY <1>3, <3>1 DEF StreamRecord
    <3>3. m.type # "samples" /\ events' = Append(events, Event(stream.id, m.type, 0))
      BY <2>4, <3>1 DEF WorkerReceives
    <3>. HIDE DEF m
    <3>4. m.type \in {"capturing", "paused", "chunk"} /\ 0 \in Nat
      BY <3>2, <3>3 DEF MessageRecord
    <3>. QED
      BY <2>3, <3>1, <3>3, <3>4
  <2>5. CASE WorkerProcesses /\ events' # events
    <3>1. stream.id # 0 /\ events' = Append(events, Event(stream.id, "chunk", 1)) /\ 1 \in Nat
      BY <1>1, <2>5 DEF WorkerProcesses, MicInv, TypeInv, WorkersOK
    <3>. QED
      BY <2>3, <3>1
  <2>. QED
    BY <2>1, <2>2, <2>4, <2>5
       DEF DeviceDelivers, DeviceFails, CallbackLooks, CallbackEnqueues, WorkerEnds
<1>6. EndedInv'
  <2>. SUFFICES ASSUME stream.id # 0
                PROVE  /\ worker' = "ended" => stream'.stopped
                       /\ stream'.stopped =>
                            \/ stream'.failed
                            \/ running'.cmd \in {"start", "stop"} /\ running'.step = 2
    BY <1>4 DEF EndedInv
  <2>1. /\ worker = "ended" => stream.stopped
        /\ stream.stopped =>
             \/ stream.failed
             \/ running.cmd \in {"start", "stop"} /\ running.step = 2
    BY DEF HistoryInv, EndedInv
  <2>. QED
    BY <1>2, <1>4, <2>1
<1>. QED
  BY <1>1, <1>2, <1>4, <1>5, <1>6, NativeHistory

\* Every step of the microphone preserves the history of the starts.
LEMMA HistoryStep == ASSUME HistoryInv, [MicNext]_micVars PROVE HistoryInv'
<1>1. CASE UNCHANGED micVars
  <2>1. /\ UNCHANGED <<web, commands, responses, events, running, stream, callback, worker>>
        /\ MicInv' /\ starts \in Nat
    BY <1>1, MicStep DEF micVars, native, HistoryInv, MicInv, TypeInv, WebOK
  <2>2. /\ UNCHANGED <<native, starts, controller, handle>> /\ starts <= starts'
        /\ Once(commands) /\ (\A g \in 1..starts' : g \in 1..starts)
    BY <1>1, <2>1 DEF micVars, web, HistoryInv, StartsInv
  <2>. QED
    BY <2>1, <2>2, WebHistory
<1>2. CASE Execute
  BY <1>2, NextCommandHistory, SameStreamHistory, RefusedHistory, NewStreamHistory DEF Execute
<1>3. CASE Callback \/ Work \/ DeviceDelivers \/ DeviceFails
  BY <1>3, ThreadHistory DEF Callback, Work
<1>. QED
  BY <1>1, <1>2, <1>3, UserHistory, RespondsHistory, EventArrivesHistory DEF MicNext

-----------------------------------------------------------------------------
(* The timeline *)

\* The timeline covers the audio until the stream fails or its controller is stopped.
TimeInv ==
  stream.id # 0 /\ ~stream.failed /\ controller[stream.id] # "stopped"
    => stream.captured <= streamTime[stream.id] + InFlight

\* What the proof of TimelineCovers carries along.
TimelineInv == HistoryInv /\ TimeInv

\* Audio that the events on their way stand for.
OnTheWay == Batches * Cardinality(ChunksIn(events, stream.id))

\* InFlight is the sum of natural numbers.
FlightOK ==
  /\ stream.output \in Nat /\ stream.dropped \in Nat /\ stream.lateInput \in Nat
  /\ stream.resetOutput \in Nat /\ stream.captured \in Nat
  /\ WaitingIn(stream.queue) \in Nat /\ OnTheWay \in Nat
  /\ InFlight \in Nat /\ Batches \in Nat \ {0}
  /\ InFlight = stream.output + stream.dropped + stream.lateInput + stream.resetOutput
                + WaitingIn(stream.queue) + (IF callback.next = "enqueue" THEN 1 ELSE 0)
                + (IF worker = "process" THEN 1 ELSE 0) + OnTheWay

LEMMA FlightTyped == TypeInv => FlightOK
<1>. SUFFICES ASSUME TypeInv PROVE FlightOK
  OBVIOUS
<1>1. Batches \in Nat \ {0} /\ events \in Seq(EventRecord) /\ stream.queue \in Seq(MessageRecord)
  BY MicrophoneAssumption DEF TypeInv, LinesOK, StreamOK, StreamRecord
<1>2. WaitingIn(stream.queue) \in Nat
  BY <1>1, SamplesFinite
<1>3. OnTheWay \in Nat
  <2>1. Cardinality(ChunksIn(events, stream.id)) \in Nat
    BY <1>1, ChunksFinite
  <2>. QED
    BY <1>1, <2>1 DEF OnTheWay
<1>4. /\ stream.output \in Nat /\ stream.dropped \in Nat /\ stream.lateInput \in Nat
      /\ stream.resetOutput \in Nat /\ stream.captured \in Nat
  BY <1>1 DEF TypeInv, StreamOK, StreamRecord
<1>5. InFlight = stream.output + stream.dropped + stream.lateInput + stream.resetOutput
                 + WaitingIn(stream.queue) + (IF callback.next = "enqueue" THEN 1 ELSE 0)
                 + (IF worker = "process" THEN 1 ELSE 0) + OnTheWay
  BY DEF InFlight, OnTheWay
<1>6. InFlight \in Nat
  BY <1>2, <1>3, <1>4, <1>5
<1>. QED
  BY <1>1, <1>2, <1>3, <1>4, <1>5, <1>6 DEF FlightOK

LEMMA FlightNext == TypeInv' => FlightOK'
BY FlightTyped, PTL

\* The same audio, whatever else changed.
LEMMA SameFlight ==
  ASSUME UNCHANGED <<events, stream.id, stream.output, stream.dropped, stream.lateInput,
                     stream.resetOutput, stream.queue, stream.captured>>,
         callback'.next = "enqueue" <=> callback.next = "enqueue",
         worker' = "process" <=> worker = "process"
  PROVE  InFlight' = InFlight
BY DEF InFlight

\* An event puts audio on its way to the controller of its stream,
LEMMA ChunksOnTheWay ==
  ASSUME NEW s \in Seq(EventRecord), NEW e \in EventRecord, NEW g
  PROVE  Batches * Cardinality(ChunksIn(Append(s, e), g))
           = Batches * Cardinality(ChunksIn(s, g)) + IF e.by = g THEN Batches * e.chunks ELSE 0
<1>1. Cardinality(ChunksIn(s, g)) \in Nat /\ e.chunks \in Nat /\ Batches \in Nat
  BY ChunksFinite, MicrophoneAssumption DEF EventRecord
<1>2. Cardinality(ChunksIn(Append(s, e), g))
        = Cardinality(ChunksIn(s, g)) + IF e.by = g THEN e.chunks ELSE 0
  BY ChunksAdded
<1>3. \A b, c, d \in Nat : b * (c + d) = b * c + b * d
  OBVIOUS
<1>. QED
  BY <1>1, <1>2, <1>3

\* and that audio is gone with it.
LEMMA ChunksArrived ==
  ASSUME NEW s \in Seq(EventRecord), s # <<>>, NEW g
  PROVE  Batches * Cardinality(ChunksIn(s, g))
           = Batches * Cardinality(ChunksIn(Tail(s), g))
             + IF s[1].by = g THEN Batches * s[1].chunks ELSE 0
<1>1. Tail(s) \in Seq(EventRecord) /\ s[1] \in EventRecord
  OBVIOUS
<1>2. Cardinality(ChunksIn(Tail(s), g)) \in Nat /\ s[1].chunks \in Nat /\ Batches \in Nat
  BY <1>1, ChunksFinite, MicrophoneAssumption DEF EventRecord
<1>3. Cardinality(ChunksIn(s, g))
        = Cardinality(ChunksIn(Tail(s), g)) + IF s[1].by = g THEN s[1].chunks ELSE 0
  BY ChunksTaken
<1>4. \A b, c, d \in Nat : b * (c + d) = b * c + b * d
  OBVIOUS
<1>. QED
  BY <1>2, <1>3, <1>4

\* A gap covers at least what was dropped.
LEMMA EstimateCovers == ASSUME NEW n \in Nat PROVE Estimate(n) \in Nat /\ n <= Batches * Estimate(n)
<1>1. Batches \in Nat \ {0}
  BY MicrophoneAssumption
<1>2. \A b \in Nat \ {0} : \A k \in Nat : k <= b * ((k + b - 1) \div b)
  OBVIOUS
<1>. QED
  BY <1>1, <1>2, EstimateNat DEF Estimate

\* The time of one controller passes, and none goes back.
LEMMA TimePassed ==
  ASSUME TypeInv, NEW g \in Starts, NEW n \in Nat
  PROVE  /\ After(g, n)[g] = streamTime[g] + n * Batches
         /\ \A h \in Starts : h # g => After(g, n)[h] = streamTime[h]
         /\ \A h \in Starts : streamTime[h] \in Nat /\ streamTime[h] <= After(g, n)[h]
<1>1. streamTime \in [Starts -> Nat] /\ n * Batches \in Nat
  BY MicrophoneAssumption DEF TypeInv, WebOK
<1>2. \A t, d \in Nat : t <= t + d
  OBVIOUS
<1>. QED
  BY <1>1, <1>2 DEF After

-----------------------------------------------------------------------------
(* The timeline, and the main thread and the callback *)

\* What a step of a thread keeps that moves audio on, or loses it for a gap.
LEMMA AudioMoves ==
  ASSUME TimelineInv, TypeInv', UNCHANGED web, stream'.id = stream.id,
         stream.failed => stream'.failed,
         stream'.captured + InFlight <= stream.captured + InFlight'
  PROVE  TimeInv'
<1>1. /\ controller' = controller /\ streamTime' = streamTime
  BY DEF web
<1>2. /\ stream.captured \in Nat /\ InFlight \in Nat
      /\ stream'.captured \in Nat /\ InFlight' \in Nat
  BY FlightTyped, FlightNext DEF TimelineInv, HistoryInv, MicInv, FlightOK
<1>3. CASE stream.id = 0
  BY <1>3 DEF TimeInv
<1>4. CASE stream.id # 0
  <2>1. streamTime[stream.id] \in Nat
    <3>1. stream.id \in Starts
      <4>1. stream.id \in 0..MaxStarts /\ MaxStarts \in Nat
        BY MicrophoneAssumption DEF TimelineInv, HistoryInv, MicInv, TypeInv, StreamOK, StreamRecord
      <4>. QED
        BY <1>4, <4>1 DEF Starts
    <3>. QED
      BY <3>1 DEF TimelineInv, HistoryInv, MicInv, TypeInv, WebOK
  <2>2. \A t, c, d, f, h \in Nat : c <= t + f /\ d + f <= c + h => d <= t + h
    OBVIOUS
  <2>3. stream.captured <= streamTime[stream.id] + InFlight
          => stream'.captured <= streamTime[stream.id] + InFlight'
    BY <1>2, <2>1, <2>2
  <2>. QED
    BY <1>1, <2>3 DEF TimelineInv, TimeInv
<1>. QED
  BY <1>3, <1>4

\* Most steps of the native side move no audio.
LEMMA SilentTime ==
  ASSUME TimelineInv, TypeInv',
         \/ NextCommand \/ SignalStop \/ AlreadyActive \/ NotActive \/ PauseStream
         \/ PauseNewEpoch \/ ResumeStream \/ DeviceDelivers \/ DeviceFails \/ WorkerEnds
  PROVE  TimeInv'
<1>1. UNCHANGED <<web, events>>
  BY DEF NextCommand, SignalStop, AlreadyActive, NotActive, PauseStream, PauseNewEpoch,
         ResumeStream, DeviceDelivers, DeviceFails, WorkerEnds
<1>2. stream \in StreamRecord
  BY DEF TimelineInv, HistoryInv, MicInv, TypeInv, StreamOK
<1>3. \/ stream' = stream
      \/ stream' = [stream EXCEPT !.stopped = TRUE]
      \/ stream' = [stream EXCEPT !.paused = TRUE]
      \/ stream' = [stream EXCEPT !.epoch = @ + 1]
      \/ stream' = [stream EXCEPT !.paused = FALSE]
      \/ stream' = [stream EXCEPT !.failed = TRUE]
  BY DEF NextCommand, SignalStop, AlreadyActive, NotActive, PauseStream, PauseNewEpoch,
         ResumeStream, DeviceDelivers, DeviceFails, WorkerEnds
<1>4. /\ UNCHANGED <<stream.id, stream.output, stream.dropped, stream.lateInput,
                     stream.resetOutput, stream.queue, stream.captured>>
      /\ stream.failed => stream'.failed
  BY <1>2, <1>3 DEF StreamRecord
<1>5. /\ callback'.next = "enqueue" <=> callback.next = "enqueue"
      /\ worker' = "process" <=> worker = "process"
  <2>1. CASE DeviceDelivers
    BY <2>1 DEF DeviceDelivers
  <2>2. CASE WorkerEnds
    BY <2>2 DEF WorkerEnds
  <2>3. CASE UNCHANGED <<callback, worker>>
    BY <2>3
  <2>. QED
    BY <2>1, <2>2, <2>3 DEF NextCommand, SignalStop, AlreadyActive, NotActive, PauseStream,
         PauseNewEpoch, ResumeStream, DeviceFails
<1>6. InFlight' = InFlight
  BY <1>1, <1>4, <1>5, SameFlight
<1>7. InFlight \in Nat /\ stream.captured \in Nat
  BY FlightTyped DEF TimelineInv, HistoryInv, MicInv, FlightOK
<1>8. stream'.captured + InFlight <= stream.captured + InFlight'
  BY <1>4, <1>6, <1>7
<1>. QED
  BY <1>1, <1>4, <1>8, AudioMoves

\* An announcement is no audio, and a reset only moves it.
LEMMA AnnouncedTime ==
  ASSUME TimelineInv, TypeInv', PauseAnnounces \/ ResumeAnnounces \/ PauseResets
  PROVE  TimeInv'
<1>1. UNCHANGED <<web, events, callback, worker>>
  BY DEF PauseAnnounces, ResumeAnnounces, PauseResets
<1>2. stream \in StreamRecord /\ stream.queue \in Seq(MessageRecord) /\ stream.output \in Nat
      /\ stream.resetOutput \in Nat
  BY FlightTyped DEF TimelineInv, HistoryInv, MicInv, TypeInv, StreamOK, StreamRecord, FlightOK
<1>3. InFlight' \in Nat /\ InFlight \in Nat /\ stream.captured \in Nat
  BY FlightTyped, FlightNext DEF TimelineInv, HistoryInv, MicInv, FlightOK
<1>4. CASE \E m \in MessageRecord :
             m.type # "samples" /\ stream' = [stream EXCEPT !.queue = Append(@, m)]
  <2>1. PICK m \in MessageRecord :
          m.type # "samples" /\ stream' = [stream EXCEPT !.queue = Append(@, m)]
    BY <1>4
  <2>2. WaitingIn(Append(stream.queue, m)) = WaitingIn(stream.queue) + 0
    BY <1>2, <2>1, SamplesAdded
  <2>3. /\ UNCHANGED <<stream.id, stream.failed, stream.output, stream.dropped, stream.lateInput,
                       stream.resetOutput, stream.captured>>
        /\ stream'.queue = Append(stream.queue, m)
    BY <1>2, <2>1 DEF StreamRecord
  <2>4. WaitingIn(stream'.queue) = WaitingIn(stream.queue)
    BY <1>2, <2>2, <2>3, SamplesFinite
  <2>5. InFlight' = InFlight
    BY <1>1, <2>3, <2>4 DEF InFlight
  <2>6. stream'.captured + InFlight <= stream.captured + InFlight'
    BY <1>3, <2>3, <2>5
  <2>. QED
    BY <1>1, <2>3, <2>6, AudioMoves
<1>5. CASE stream' = stream
  <2>1. InFlight' = InFlight
    BY <1>1, <1>5 DEF InFlight
  <2>2. stream'.captured + InFlight <= stream.captured + InFlight'
    BY <1>3, <1>5, <2>1
  <2>. QED
    BY <1>1, <1>5, <2>2, AudioMoves
<1>6. CASE stream' = [stream EXCEPT !.output = 0, !.resetOutput = @ + stream.output]
  <2>1. /\ UNCHANGED <<stream.id, stream.failed, stream.dropped, stream.lateInput,
                       stream.queue, stream.captured>>
        /\ stream'.output = 0 /\ stream'.resetOutput = stream.resetOutput + stream.output
    BY <1>2, <1>6 DEF StreamRecord
  <2>2. OnTheWay' = OnTheWay
    BY <1>1, <2>1 DEF OnTheWay
  <2>3. InFlight' = InFlight
    <3>1. FlightOK /\ FlightOK'
      BY FlightTyped, FlightNext DEF TimelineInv, HistoryInv, MicInv
    <3>. QED
      BY <1>1, <2>1, <2>2, <3>1 DEF FlightOK
  <2>4. stream'.captured + InFlight <= stream.captured + InFlight'
    BY <1>3, <2>1, <2>3
  <2>. QED
    BY <1>1, <2>1, <2>4, AudioMoves
<1>7. \/ \E m \in MessageRecord :
           m.type # "samples" /\ stream' = [stream EXCEPT !.queue = Append(@, m)]
      \/ stream' = stream
      \/ stream' = [stream EXCEPT !.output = 0, !.resetOutput = @ + stream.output]
  <2>1. /\ Message("paused", 0) \in MessageRecord /\ Message("capturing", 0) \in MessageRecord
        /\ Message("paused", 0).type # "samples" /\ Message("capturing", 0).type # "samples"
    BY DEF Message, MessageRecord
  <2>2. CASE PauseAnnounces
    BY <2>1, <2>2 DEF PauseAnnounces, SendState
  <2>3. CASE ResumeAnnounces
    BY <2>1, <2>3 DEF ResumeAnnounces, SendState
  <2>4. CASE PauseResets
    BY <2>4 DEF PauseResets, Reset
  <2>. QED
    BY <2>2, <2>3, <2>4
<1>. QED
  BY <1>4, <1>5, <1>6, <1>7

\* A new stream has captured nothing.
LEMMA NewStreamTime == ASSUME TimelineInv, TypeInv', StartStream \/ StopStream PROVE TimeInv'
<1>1. stream' = NewStream(running.by) \/ stream' = NoStream
  BY DEF StartStream, StopStream
<1>2. stream'.captured = 0 /\ (stream'.id # 0 => stream'.id \in Starts)
  <2>1. NewStream(running.by).captured = 0 /\ NoStream.captured = 0
    BY DEF NewStream, NoStream
  <2>2. stream' \in StreamRecord
    BY DEF TypeInv, StreamOK
  <2>. QED
    BY <1>1, <2>1, <2>2, MicrophoneAssumption DEF StreamRecord, Starts
<1>3. InFlight' \in Nat /\ streamTime' \in [Starts -> Nat]
  BY FlightNext DEF TypeInv, WebOK, FlightOK
<1>4. \A t, f \in Nat : 0 <= t + f
  OBVIOUS
<1>5. stream'.id # 0 => 0 <= streamTime'[stream'.id] + InFlight'
  BY <1>2, <1>3, <1>4
<1>. QED
  BY <1>2, <1>5 DEF TimeInv

\* The callback takes a batch, and then queues it or counts it as dropped.
LEMMA CallbackTime == ASSUME TimelineInv, TypeInv', CallbackLooks \/ CallbackEnqueues PROVE TimeInv'
<1>1. UNCHANGED <<web, events, worker>> /\ TypeInv
  BY DEF CallbackLooks, CallbackEnqueues, TimelineInv, HistoryInv, MicInv
<1>2. stream \in StreamRecord /\ stream.queue \in Seq(MessageRecord)
      /\ callback \in [next : {"idle", "look", "enqueue"}, epoch : Nat]
  BY <1>1 DEF TypeInv, StreamOK, StreamRecord, WorkersOK
<1>3. FlightOK /\ FlightOK'
  BY <1>1, FlightTyped, FlightNext
<1>4. CASE CallbackLooks
  <2>1. \/ stream' = stream /\ callback'.next = "idle"
        \/ stream' = [stream EXCEPT !.captured = @ + 1] /\ callback'.next = "enqueue"
    BY <1>2, <1>4 DEF CallbackLooks
  <2>2. /\ UNCHANGED <<stream.id, stream.failed, stream.output, stream.dropped, stream.lateInput,
                       stream.resetOutput, stream.queue>>
        /\ callback.next = "look"
        /\ \/ stream'.captured = stream.captured /\ callback'.next = "idle"
           \/ stream'.captured = stream.captured + 1 /\ callback'.next = "enqueue"
    BY <1>2, <1>4, <2>1 DEF CallbackLooks, StreamRecord
  <2>3. OnTheWay' = OnTheWay
    BY <1>1, <2>2 DEF OnTheWay
  <2>4. stream'.captured + InFlight <= stream.captured + InFlight'
    BY <1>1, <1>3, <2>2, <2>3 DEF FlightOK
  <2>. QED
    BY <1>1, <2>2, <2>4, AudioMoves
<1>5. CASE CallbackEnqueues
  <2>. DEFINE m == Message("samples", ReadEpoch)
  <2>1. /\ callback.next = "enqueue" /\ callback'.next = "idle"
        /\ \/ stream' = [stream EXCEPT !.failed = TRUE]
           \/ stream' = [stream EXCEPT !.queue = Append(@, m)]
           \/ stream' = [stream EXCEPT !.dropped = @ + 1]
    BY <1>2, <1>5 DEF CallbackEnqueues
  <2>2. m \in MessageRecord /\ m.type = "samples"
    BY <1>2 DEF Message, MessageRecord, ReadEpoch
  <2>. HIDE DEF m
  <2>3. /\ UNCHANGED <<stream.id, stream.output, stream.lateInput, stream.resetOutput,
                       stream.captured>>
        /\ \/ stream'.failed
           \/ /\ stream'.queue = Append(stream.queue, m) /\ stream'.dropped = stream.dropped
              /\ stream'.failed = stream.failed
           \/ /\ stream'.queue = stream.queue /\ stream'.dropped = stream.dropped + 1
              /\ stream'.failed = stream.failed
    BY <1>2, <2>1 DEF StreamRecord
  <2>4. WaitingIn(Append(stream.queue, m)) = WaitingIn(stream.queue) + 1
    BY <1>2, <2>2, SamplesAdded
  <2>5. OnTheWay' = OnTheWay
    BY <1>1, <2>3 DEF OnTheWay
  <2>6. CASE stream'.failed
    BY <2>6 DEF TimeInv
  <2>7. CASE ~stream'.failed
    <3>1. \/ /\ WaitingIn(stream'.queue) = WaitingIn(stream.queue) + 1
             /\ stream'.dropped = stream.dropped
          \/ /\ WaitingIn(stream'.queue) = WaitingIn(stream.queue)
             /\ stream'.dropped = stream.dropped + 1
      <4>1. CASE stream'.queue = Append(stream.queue, m) /\ stream'.dropped = stream.dropped
        BY <2>4, <4>1
      <4>2. CASE stream'.queue = stream.queue /\ stream'.dropped = stream.dropped + 1
        BY <4>2
      <4>. QED
        BY <2>3, <2>7, <4>1, <4>2
    <3>. DEFINE k == IF worker = "process" THEN 1 ELSE 0
    <3>2. /\ InFlight = stream.output + stream.dropped + stream.lateInput + stream.resetOutput
                        + WaitingIn(stream.queue) + 1 + k + OnTheWay
          /\ InFlight' = stream.output + stream'.dropped + stream.lateInput + stream.resetOutput
                         + WaitingIn(stream'.queue) + 0 + k + OnTheWay
      BY <1>1, <1>3, <2>1, <2>3, <2>5 DEF FlightOK
    <3>3. k \in Nat
      OBVIOUS
    <3>. HIDE DEF k
    <3>4. InFlight' = InFlight
      <4>. DEFINE o == stream.output
                  l == stream.lateInput
                  r == stream.resetOutput
                  c == OnTheWay
                  d == stream.dropped
                  w == WaitingIn(stream.queue)
                  newD == stream'.dropped
                  newW == WaitingIn(stream'.queue)
      <4>1. o \in Nat /\ l \in Nat /\ r \in Nat /\ c \in Nat /\ d \in Nat /\ w \in Nat
        BY <1>3 DEF FlightOK
      <4>2. (newW = w + 1 /\ newD = d) \/ (newW = w /\ newD = d + 1)
        BY <3>1
      <4>3. /\ InFlight = o + d + l + r + w + 1 + k + c
            /\ InFlight' = o + newD + l + r + newW + 0 + k + c
        BY <3>2
      <4>. HIDE DEF o, l, r, c, d, w, newD, newW
      <4>4. CASE newW = w + 1 /\ newD = d
        <5>1. o + d + l + r + (w + 1) + 0 + k + c = o + d + l + r + w + 1 + k + c
          BY <3>3, <4>1
        <5>. QED
          BY <4>3, <4>4, <5>1
      <4>5. CASE newW = w /\ newD = d + 1
        <5>1. o + (d + 1) + l + r + w + 0 + k + c = o + d + l + r + w + 1 + k + c
          BY <3>3, <4>1
        <5>. QED
          BY <4>3, <4>5, <5>1
      <4>. QED
        BY <4>2, <4>4, <4>5
    <3>5. stream'.captured + InFlight <= stream.captured + InFlight'
      <4>1. InFlight \in Nat /\ stream.captured \in Nat
        BY <1>3 DEF FlightOK
      <4>. QED
        BY <2>3, <3>4, <4>1
    <3>. QED
      BY <1>1, <2>3, <2>7, <3>5, AudioMoves
  <2>. QED
    BY <2>6, <2>7
<1>. QED
  BY <1>4, <1>5

-----------------------------------------------------------------------------
(* The timeline, and the worker *)

\* A gap puts its chunks on their way.
LEMMA GapAdded ==
  ASSUME NEW s \in Seq(EventRecord), stream.id \in Starts, NEW n \in Nat
  PROVE  /\ s \o GapOf(n) \in Seq(EventRecord)
         /\ Batches * Cardinality(ChunksIn(s \o GapOf(n), stream.id))
              = Batches * Cardinality(ChunksIn(s, stream.id)) + Batches * n
<1>. DEFINE e == Event(stream.id, "gap", n)
<1>1. e \in EventRecord /\ e.by = stream.id /\ e.chunks = n
  BY EventTyped
<1>2. Batches \in Nat /\ Cardinality(ChunksIn(s, stream.id)) \in Nat
  BY ChunksFinite, MicrophoneAssumption
<1>3. \A b, c \in Nat : b * c \in Nat /\ b * 0 = 0 /\ b * c + 0 = b * c
  OBVIOUS
<1>. HIDE DEF e
<1>4. s \o <<e>> = Append(s, e) /\ s \o <<>> = s /\ Append(s, e) \in Seq(EventRecord)
  BY <1>1
<1>5. CASE n = 0
  BY <1>2, <1>3, <1>4, <1>5 DEF GapOf
<1>6. CASE n # 0
  <2>1. s \o GapOf(n) = Append(s, e)
    BY <1>4, <1>6 DEF GapOf, e
  <2>. QED
    BY <1>1, <1>4, <2>1, ChunksOnTheWay
<1>. QED
  BY <1>5, <1>6

LEMMA WorkerHasStream ==
  ASSUME TypeInv, worker # "ended"
  PROVE  /\ stream.id \in Starts /\ events \in Seq(EventRecord) /\ stream \in StreamRecord
         /\ stream.queue \in Seq(MessageRecord)
         /\ stream.dropped \in Nat /\ stream.lateInput \in Nat /\ stream.resetOutput \in Nat
<1>1. /\ events \in Seq(EventRecord) /\ stream \in StreamRecord /\ stream.id # 0
  BY DEF TypeInv, LinesOK, StreamOK, WorkersOK
<1>2. stream.id \in 0..MaxStarts
  BY <1>1 DEF StreamRecord
<1>3. stream.id \in Starts
  BY <1>1, <1>2, MicrophoneAssumption DEF Starts
<1>. QED
  BY <1>1, <1>3 DEF StreamRecord

\* The gaps of the worker cover all that was dropped, late or reset.
LEMMA WorkerReportsTime == ASSUME TimelineInv, TypeInv', WorkerReports PROVE TimeInv'
<1>1. TypeInv /\ FlightOK /\ FlightOK'
  BY FlightTyped, FlightNext DEF TimelineInv, HistoryInv, MicInv
<1>2. /\ worker = "report" /\ worker' = "receive"
      /\ UNCHANGED <<web, callback>>
      /\ stream' = [stream EXCEPT !.dropped = 0, !.lateInput = 0, !.resetOutput = 0,
                                  !.stopped = stream.failed]
  BY DEF WorkerReports
<1>3. /\ stream.id \in Starts /\ events \in Seq(EventRecord) /\ stream \in StreamRecord
      /\ stream.dropped \in Nat /\ stream.lateInput \in Nat /\ stream.resetOutput \in Nat
  BY <1>1, <1>2, WorkerHasStream
<1>4. /\ UNCHANGED <<stream.id, stream.failed, stream.output, stream.queue, stream.captured>>
      /\ stream'.dropped = 0 /\ stream'.lateInput = 0 /\ stream'.resetOutput = 0
  BY <1>2, <1>3 DEF StreamRecord
<1>. DEFINE n1 == Estimate(stream.dropped)
            n2 == Estimate(stream.lateInput) + Estimate(stream.resetOutput)
            e == Event(stream.id, "error", 0)
            s1 == events \o GapOf(n1)
            s2 == s1 \o GapOf(n2)
            ChunkTime(s) == Batches * Cardinality(ChunksIn(s, stream.id))
<1>5. events' = s2 \o (IF stream.failed THEN <<e>> ELSE <<>>)
  BY DEF WorkerReports
<1>6. /\ Estimate(stream.dropped) \in Nat /\ Estimate(stream.lateInput) \in Nat
      /\ Estimate(stream.resetOutput) \in Nat
      /\ stream.dropped <= Batches * Estimate(stream.dropped)
      /\ stream.lateInput <= Batches * Estimate(stream.lateInput)
      /\ stream.resetOutput <= Batches * Estimate(stream.resetOutput)
  BY <1>3, EstimateCovers
<1>7. n1 \in Nat /\ n2 \in Nat
  BY <1>6
<1>8. e \in EventRecord /\ e.by = stream.id /\ e.chunks = 0
  BY <1>3, EventTyped
<1>. HIDE DEF n1, n2, e
<1>9. s1 \in Seq(EventRecord) /\ ChunkTime(s1) = ChunkTime(events) + Batches * n1
  BY <1>3, <1>7, GapAdded
<1>. HIDE DEF s1
<1>10. s2 \in Seq(EventRecord) /\ ChunkTime(s2) = ChunkTime(s1) + Batches * n2
  BY <1>3, <1>7, <1>9, GapAdded
<1>. HIDE DEF s2
<1>11. ChunkTime(events') = ChunkTime(s2)
  <2>1. s2 \o <<e>> = Append(s2, e) /\ s2 \o <<>> = s2
    BY <1>8, <1>10
  <2>2. ChunkTime(Append(s2, e)) = ChunkTime(s2) + Batches * 0
    BY <1>8, <1>10, ChunksOnTheWay
  <2>3. ChunkTime(s2) \in Nat /\ Batches \in Nat
    BY <1>10, ChunksFinite, MicrophoneAssumption
  <2>4. \A b, c \in Nat : c + b * 0 = c
    OBVIOUS
  <2>. HIDE DEF ChunkTime
  <2>. QED
    BY <1>5, <2>1, <2>2, <2>3, <2>4
<1>12. OnTheWay = ChunkTime(events) /\ OnTheWay' = ChunkTime(events')
  BY <1>4 DEF OnTheWay
<1>. HIDE DEF ChunkTime
<1>13. OnTheWay' = OnTheWay + Batches * n1 + Batches * n2
  BY <1>9, <1>10, <1>11, <1>12
<1>. DEFINE d1 == Batches * Estimate(stream.dropped)
            d2 == Batches * Estimate(stream.lateInput)
            d3 == Batches * Estimate(stream.resetOutput)
            k == IF callback.next = "enqueue" THEN 1 ELSE 0
<1>14. d1 \in Nat /\ d2 \in Nat /\ d3 \in Nat /\ Batches * n1 = d1 /\ Batches * n2 = d2 + d3
  <2>1. \A b, x, y \in Nat : b * x \in Nat /\ b * (x + y) = b * x + b * y
    OBVIOUS
  <2>2. Batches \in Nat
    BY MicrophoneAssumption
  <2>. QED
    BY <1>6, <2>1, <2>2 DEF n1, n2
<1>15. stream.dropped <= d1 /\ stream.lateInput <= d2 /\ stream.resetOutput <= d3
  BY <1>6
<1>. HIDE DEF d1, d2, d3
<1>16. OnTheWay' = OnTheWay + d1 + (d2 + d3)
  BY <1>13, <1>14
<1>17. stream'.captured + InFlight <= stream.captured + InFlight'
  <2>1. /\ InFlight = stream.output + stream.dropped + stream.lateInput + stream.resetOutput
                      + WaitingIn(stream.queue) + k + 0 + OnTheWay
        /\ InFlight' = stream.output + 0 + 0 + 0 + WaitingIn(stream.queue) + k + 0 + OnTheWay'
    BY <1>1, <1>2, <1>4 DEF FlightOK
  <2>2. /\ k \in Nat /\ stream.output \in Nat /\ WaitingIn(stream.queue) \in Nat
        /\ OnTheWay \in Nat /\ stream.captured \in Nat
    BY <1>1 DEF FlightOK
  <2>. HIDE DEF k
  <2>3. \A o, w, l, t \in Nat : \A a, b, c, x, y, z \in Nat :
          a <= x /\ b <= y /\ c <= z
            => o + a + b + c + w + l + 0 + t <= o + 0 + 0 + 0 + w + l + 0 + (t + x + (y + z))
    OBVIOUS
  <2>4. InFlight <= InFlight'
    <3>. DEFINE a == stream.dropped
                b == stream.lateInput
                c == stream.resetOutput
                o == stream.output
                w == WaitingIn(stream.queue)
    <3>1. a \in Nat /\ b \in Nat /\ c \in Nat /\ o \in Nat /\ w \in Nat
      BY <1>3, <2>2
    <3>2. a <= d1 /\ b <= d2 /\ c <= d3
      BY <1>15
    <3>3. InFlight = o + a + b + c + w + k + 0 + OnTheWay
      BY <2>1
    <3>4. InFlight' = o + 0 + 0 + 0 + w + k + 0 + (OnTheWay + d1 + (d2 + d3))
      BY <1>16, <2>1
    <3>. HIDE DEF a, b, c, o, w
    <3>5. o + a + b + c + w + k + 0 + OnTheWay
            <= o + 0 + 0 + 0 + w + k + 0 + (OnTheWay + d1 + (d2 + d3))
      BY <1>14, <2>2, <2>3, <3>1, <3>2
    <3>. QED
      BY <3>3, <3>4, <3>5
  <2>5. InFlight \in Nat /\ InFlight' \in Nat
    BY <1>1 DEF FlightOK
  <2>. QED
    BY <1>4, <2>2, <2>4, <2>5
<1>. QED
  BY <1>2, <1>4, <1>17, AudioMoves

\* A batch that is received is processed, or counted as late.
LEMMA WorkerReceivesTime == ASSUME TimelineInv, TypeInv', WorkerReceives PROVE TimeInv'
<1>1. TypeInv /\ FlightOK /\ FlightOK'
  BY FlightTyped, FlightNext DEF TimelineInv, HistoryInv, MicInv
<1>. DEFINE m == Head(stream.queue)
            e == Event(stream.id, m.type, 0)
<1>2. /\ worker = "receive" /\ UNCHANGED <<web, callback>>
      /\ stream.id \in Starts /\ events \in Seq(EventRecord) /\ stream \in StreamRecord
      /\ stream.queue \in Seq(MessageRecord)
  BY <1>1, WorkerHasStream DEF WorkerReceives
<1>3. CASE stream.queue = <<>>
  <2>1. worker' = "report" /\ UNCHANGED <<stream, events>>
    BY <1>3 DEF WorkerReceives
  <2>2. InFlight' = InFlight
    BY <1>2, <2>1 DEF InFlight
  <2>3. stream'.captured + InFlight <= stream.captured + InFlight'
    BY <1>1, <2>1, <2>2 DEF FlightOK
  <2>. QED
    BY <1>2, <2>1, <2>3, AudioMoves
<1>4. CASE stream.queue # <<>>
  <2>1. m \in MessageRecord /\ m = stream.queue[1]
    BY <1>2, <1>4
  <2>2. WaitingIn(stream.queue)
          = WaitingIn(Tail(stream.queue)) + IF m.type = "samples" THEN 1 ELSE 0
    BY <1>2, <1>4, <2>1, SamplesTaken
  <2>3. WaitingIn(Tail(stream.queue)) \in Nat
    <3>1. Tail(stream.queue) \in Seq(MessageRecord)
      BY <1>2, <1>4
    <3>. QED
      BY <3>1, SamplesFinite
  <2>. DEFINE rest == [stream EXCEPT !.queue = Tail(@)]
  <2>4. \/ /\ m.type # "samples" /\ worker' = "report"
           /\ events' = Append(events, e) /\ stream' = rest
        \/ /\ m.type = "samples" /\ worker' = "process"
           /\ stream' = rest /\ UNCHANGED events
        \/ /\ m.type = "samples" /\ worker' = "report"
           /\ stream' = [rest EXCEPT !.lateInput = @ + 1] /\ UNCHANGED events
    BY <1>4 DEF WorkerReceives
  <2>. HIDE DEF m
  <2>5. /\ UNCHANGED <<stream.id, stream.failed, stream.output, stream.dropped,
                       stream.resetOutput, stream.captured>>
        /\ stream'.queue = Tail(stream.queue)
        /\ \/ /\ m.type # "samples" /\ worker' = "report"
              /\ events' = Append(events, e) /\ stream'.lateInput = stream.lateInput
           \/ /\ m.type = "samples" /\ worker' = "process"
              /\ UNCHANGED events /\ stream'.lateInput = stream.lateInput
           \/ /\ m.type = "samples" /\ worker' = "report"
              /\ UNCHANGED events /\ stream'.lateInput = stream.lateInput + 1
    <3>1. /\ rest \in StreamRecord /\ rest.queue = Tail(stream.queue)
          /\ rest.id = stream.id /\ rest.failed = stream.failed /\ rest.output = stream.output
          /\ rest.dropped = stream.dropped /\ rest.lateInput = stream.lateInput
          /\ rest.resetOutput = stream.resetOutput /\ rest.captured = stream.captured
      <4>1. Tail(stream.queue) \in Seq(MessageRecord)
        BY <1>2, <1>4
      <4>. QED
        BY <1>2, <4>1 DEF StreamRecord
    <3>. HIDE DEF rest
    <3>2. CASE stream' = rest
      <4>1. /\ UNCHANGED <<stream.id, stream.failed, stream.output, stream.dropped,
                           stream.resetOutput, stream.captured, stream.lateInput>>
            /\ stream'.queue = Tail(stream.queue)
        BY <3>1, <3>2
      <4>2. ~(stream' = [rest EXCEPT !.lateInput = @ + 1])
        <5>1. /\ rest.lateInput \in Nat
              /\ [rest EXCEPT !.lateInput = @ + 1].lateInput = rest.lateInput + 1
          BY <3>1 DEF StreamRecord
        <5>2. rest.lateInput # rest.lateInput + 1
          BY <5>1
        <5>. QED
          BY <3>2, <5>1, <5>2
      <4>. QED
        BY <2>4, <4>1, <4>2, Zenon
    <3>3. CASE /\ stream' = [rest EXCEPT !.lateInput = @ + 1]
               /\ m.type = "samples" /\ worker' = "report" /\ UNCHANGED events
      <4>1. /\ stream'.queue = rest.queue
            /\ stream'.id = rest.id /\ stream'.failed = rest.failed /\ stream'.output = rest.output
            /\ stream'.dropped = rest.dropped /\ stream'.lateInput = rest.lateInput + 1
            /\ stream'.resetOutput = rest.resetOutput /\ stream'.captured = rest.captured
        BY <3>1, <3>3 DEF StreamRecord
      <4>2. /\ UNCHANGED <<stream.id, stream.failed, stream.output, stream.dropped,
                           stream.resetOutput, stream.captured>>
            /\ stream'.queue = Tail(stream.queue) /\ stream'.lateInput = stream.lateInput + 1
        BY <3>1, <4>1
      <4>. QED
        BY <3>3, <4>2, Zenon
    <3>. QED
      BY <2>4, <3>2, <3>3, Zenon
  <2>6. OnTheWay' = OnTheWay
    <3>1. CASE m.type # "samples"
      <4>1. m.type \in {"capturing", "paused"}
        BY <2>1, <3>1 DEF MessageRecord
      <4>2. e \in EventRecord /\ e.by = stream.id /\ e.chunks = 0
        BY <1>2, <4>1, EventTyped
      <4>3. events' = Append(events, e)
        BY <2>5, <3>1
      <4>. HIDE DEF e
      <4>4. Batches * Cardinality(ChunksIn(events', stream.id))
              = Batches * Cardinality(ChunksIn(events, stream.id)) + Batches * 0
        BY <1>2, <4>2, <4>3, ChunksOnTheWay
      <4>5. OnTheWay' = OnTheWay + Batches * 0
        BY <2>5, <4>4 DEF OnTheWay
      <4>6. \A b, c \in Nat : c + b * 0 = c
        OBVIOUS
      <4>. QED
        BY <1>1, <4>5, <4>6, MicrophoneAssumption DEF FlightOK
    <3>2. CASE m.type = "samples"
      BY <2>5, <3>2 DEF OnTheWay
    <3>. QED
      BY <3>1, <3>2
  <2>. DEFINE k == IF callback.next = "enqueue" THEN 1 ELSE 0
              p == IF worker' = "process" THEN 1 ELSE 0
  <2>7. /\ InFlight = stream.output + stream.dropped + stream.lateInput + stream.resetOutput
                      + WaitingIn(stream.queue) + k + 0 + OnTheWay
        /\ InFlight' = stream.output + stream.dropped + stream'.lateInput + stream.resetOutput
                       + WaitingIn(Tail(stream.queue)) + k + p + OnTheWay
    BY <1>1, <1>2, <2>5, <2>6 DEF FlightOK
  <2>8. \/ /\ WaitingIn(stream.queue) = WaitingIn(Tail(stream.queue)) /\ p = 0
           /\ stream'.lateInput = stream.lateInput
        \/ /\ WaitingIn(stream.queue) = WaitingIn(Tail(stream.queue)) + 1 /\ p = 1
           /\ stream'.lateInput = stream.lateInput
        \/ /\ WaitingIn(stream.queue) = WaitingIn(Tail(stream.queue)) + 1 /\ p = 0
           /\ stream'.lateInput = stream.lateInput + 1
    <3>1. m.type # "samples" => WaitingIn(stream.queue) = WaitingIn(Tail(stream.queue))
      BY <2>2, <2>3
    <3>2. m.type = "samples" => WaitingIn(stream.queue) = WaitingIn(Tail(stream.queue)) + 1
      BY <2>2, <2>3
    <3>. QED
      BY <2>5, <3>1, <3>2
  <2>9. /\ k \in Nat /\ p \in Nat /\ stream.output \in Nat /\ stream.dropped \in Nat
        /\ stream.resetOutput \in Nat /\ stream.lateInput \in Nat /\ OnTheWay \in Nat
    BY <1>1 DEF FlightOK
  <2>. HIDE DEF k, p
  <2>10. \A o, d, l, r, w, c, t \in Nat :
           /\ o + d + l + r + w + c + 0 + t = o + d + l + r + w + c + 0 + t
           /\ o + d + l + r + (w + 1) + c + 0 + t = o + d + l + r + w + c + 1 + t
           /\ o + d + l + r + (w + 1) + c + 0 + t = o + d + (l + 1) + r + w + c + 0 + t
    OBVIOUS
  <2>11. InFlight' = InFlight
    BY <2>3, <2>7, <2>8, <2>9, <2>10
  <2>12. stream'.captured + InFlight <= stream.captured + InFlight'
    <3>1. InFlight \in Nat /\ stream.captured \in Nat
      BY <1>1 DEF FlightOK
    <3>. QED
      BY <2>5, <2>11, <3>1
  <2>. QED
    BY <1>2, <2>5, <2>12, AudioMoves
<1>. QED
  BY <1>3, <1>4

\* A batch that is processed is kept, or completes the chunk that is emitted.
LEMMA WorkerProcessesTime == ASSUME TimelineInv, TypeInv', WorkerProcesses PROVE TimeInv'
<1>1. TypeInv /\ FlightOK /\ FlightOK'
  BY FlightTyped, FlightNext DEF TimelineInv, HistoryInv, MicInv
<1>. DEFINE e == Event(stream.id, "chunk", 1)
            k == IF callback.next = "enqueue" THEN 1 ELSE 0
<1>2. /\ worker = "process" /\ worker' = "report" /\ UNCHANGED <<web, callback>>
      /\ stream.id \in Starts /\ events \in Seq(EventRecord) /\ stream \in StreamRecord
  BY <1>1, WorkerHasStream DEF WorkerProcesses
<1>3. /\ UNCHANGED <<stream.id, stream.failed, stream.dropped, stream.lateInput,
                     stream.resetOutput, stream.queue, stream.captured>>
      /\ \/ /\ stream.output + 1 = Batches /\ stream'.output = 0
            /\ events' = Append(events, e)
         \/ stream'.output = stream.output + 1 /\ UNCHANGED events
  <2>1. CASE stream.output + 1 = Batches
    <3>1. stream' = [stream EXCEPT !.output = 0] /\ events' = Append(events, e)
      BY <2>1 DEF WorkerProcesses
    <3>. QED
      BY <1>2, <2>1, <3>1 DEF StreamRecord
  <2>2. CASE stream.output + 1 # Batches
    <3>1. stream' = [stream EXCEPT !.output = @ + 1] /\ UNCHANGED events
      BY <2>2 DEF WorkerProcesses
    <3>2. stream' = [stream EXCEPT !.output = stream.output + 1]
      BY <3>1
    <3>. QED
      BY <1>2, <3>1, <3>2 DEF StreamRecord
  <2>. QED
    BY <2>1, <2>2
<1>4. stream'.output + OnTheWay' = stream.output + 1 + OnTheWay
  <2>1. stream.output \in Nat /\ OnTheWay \in Nat /\ Batches \in Nat
    BY <1>1 DEF FlightOK
  <2>2. CASE /\ stream.output + 1 = Batches /\ stream'.output = 0
             /\ events' = Append(events, e)
    <3>1. e \in EventRecord /\ e.by = stream.id /\ e.chunks = 1
      BY <1>2, EventTyped
    <3>. HIDE DEF e
    <3>2. Batches * Cardinality(ChunksIn(events', stream.id))
            = Batches * Cardinality(ChunksIn(events, stream.id)) + Batches * 1
      BY <1>2, <2>2, <3>1, ChunksOnTheWay
    <3>3. OnTheWay' = OnTheWay + Batches * 1
      BY <1>3, <3>2 DEF OnTheWay
    <3>. QED
      BY <2>1, <2>2, <3>3
  <2>3. CASE stream'.output = stream.output + 1 /\ UNCHANGED events
    <3>1. OnTheWay' = OnTheWay
      BY <1>3, <2>3 DEF OnTheWay
    <3>. QED
      BY <2>1, <2>3, <3>1
  <2>. QED
    BY <1>3, <2>2, <2>3
<1>5. /\ InFlight = stream.output + stream.dropped + stream.lateInput + stream.resetOutput
                    + WaitingIn(stream.queue) + k + 1 + OnTheWay
      /\ InFlight' = stream'.output + stream.dropped + stream.lateInput + stream.resetOutput
                     + WaitingIn(stream.queue) + k + 0 + OnTheWay'
  BY <1>1, <1>2, <1>3 DEF FlightOK
<1>6. /\ stream.output \in Nat /\ stream'.output \in Nat /\ stream.dropped \in Nat
      /\ stream.lateInput \in Nat /\ stream.resetOutput \in Nat /\ WaitingIn(stream.queue) \in Nat
      /\ k \in Nat /\ OnTheWay \in Nat /\ OnTheWay' \in Nat /\ stream.captured \in Nat
  BY <1>1 DEF FlightOK
<1>. HIDE DEF k
<1>7. \A o, p, d, l, r, w, c, t, u \in Nat :
        p + u = o + 1 + t => p + d + l + r + w + c + 0 + u = o + d + l + r + w + c + 1 + t
  OBVIOUS
<1>8. InFlight' = InFlight
  BY <1>4, <1>5, <1>6, <1>7
<1>9. stream'.captured + InFlight <= stream.captured + InFlight'
  <2>1. InFlight \in Nat
    BY <1>1 DEF FlightOK
  <2>. QED
    BY <1>3, <1>6, <1>8, <2>1
<1>. QED
  BY <1>2, <1>3, <1>9, AudioMoves

-----------------------------------------------------------------------------
(* The timeline, in the web view *)

\* The time of a controller may pass by itself, as long as none comes back from its stop.
LEMMA TimeGrows ==
  ASSUME TimelineInv, TypeInv', UNCHANGED <<native, events>>,
         \A g \in Starts : streamTime[g] <= streamTime'[g],
         stream.id # 0 => (controller[stream.id] = "stopped" => controller'[stream.id] = "stopped")
  PROVE  TimeInv'
<1>1. UNCHANGED <<stream, callback, worker, events>>
  BY DEF native
<1>2. InFlight' = InFlight
  BY <1>1 DEF InFlight
<1>. SUFFICES ASSUME stream.id # 0, ~stream.failed, controller'[stream.id] # "stopped"
              PROVE  stream.captured <= streamTime'[stream.id] + InFlight
  BY <1>1, <1>2 DEF TimeInv
<1>3. TypeInv /\ FlightOK
  BY FlightTyped DEF TimelineInv, HistoryInv, MicInv
<1>4. stream.id \in Starts
  <2>1. stream.id \in 0..MaxStarts
    BY <1>3 DEF TypeInv, StreamOK, StreamRecord
  <2>. QED
    BY <2>1, MicrophoneAssumption DEF Starts
<1>5. streamTime[stream.id] \in Nat /\ streamTime'[stream.id] \in Nat
      /\ streamTime[stream.id] <= streamTime'[stream.id]
  BY <1>3, <1>4 DEF TypeInv, WebOK
<1>6. stream.captured <= streamTime[stream.id] + InFlight
  BY DEF TimelineInv, TimeInv
<1>7. stream.captured \in Nat /\ InFlight \in Nat
  BY <1>3 DEF FlightOK
<1>. QED
  BY <1>5, <1>6, <1>7

\* A failure lets it pass.
LEMMA FailTime ==
  ASSUME TypeInv, NEW g \in Starts, Fail(g)
  PROVE  \A h \in Starts : /\ streamTime[h] <= streamTime'[h]
                           /\ controller[h] = "stopped" => controller'[h] = "stopped"
<1>1. streamTime \in [Starts -> Nat] /\ controller \in [Starts -> ControllerStates]
  BY DEF TypeInv, WebOK
<1>2. CASE controller[g] \in {"failed", "stopped"}
  BY <1>1, <1>2 DEF Fail
<1>3. CASE controller[g] \notin {"failed", "stopped"}
  <2>1. controller' = [controller EXCEPT ![g] = "failed"] /\ streamTime' = After(g, 1)
    BY <1>3 DEF Fail
  <2>2. \A h \in Starts : streamTime[h] <= After(g, 1)[h]
    BY TimePassed
  <2>. QED
    BY <1>1, <1>3, <2>1, <2>2
<1>. QED
  BY <1>2, <1>3

LEMMA UserTime ==
  ASSUME TimelineInv, TypeInv',
         StartMicrophoneSession \/ StopSession \/ PauseCapture \/ ResumeCapture
  PROVE  TimeInv'
<1>1. UNCHANGED <<native, events, streamTime>>
  BY DEF StartMicrophoneSession, StopSession, PauseCapture, ResumeCapture
<1>2. /\ starts \in Nat /\ controller \in [Starts -> ControllerStates]
      /\ streamTime \in [Starts -> Nat]
  BY DEF TimelineInv, HistoryInv, MicInv, TypeInv, WebOK
<1>3. stream.id # 0 => stream.id \in 1..starts
  BY DEF TimelineInv, HistoryInv, SettledInv, Settled
<1>4. stream.id # 0 => (controller[stream.id] = "stopped" => controller'[stream.id] = "stopped")
  <2>. SUFFICES ASSUME stream.id # 0, controller[stream.id] = "stopped"
                PROVE  controller'[stream.id] = "stopped"
    OBVIOUS
  <2>1. stream.id # starts + 1 /\ stream.id \in Starts
    <3>1. stream.id \in 1..starts /\ starts <= MaxStarts /\ MaxStarts \in Nat
      BY <1>3, MicrophoneAssumption DEF TimelineInv, HistoryInv, MicInv, TypeInv, WebOK
    <3>. QED
      BY <1>2, <3>1 DEF Starts
  <2>2. CASE StartMicrophoneSession
    <3>. DEFINE c == IF starts = 0 THEN controller ELSE Stopped(starts)
    <3>1. c \in [Starts -> ControllerStates] /\ c[stream.id] = "stopped"
      BY <1>2, <2>1 DEF Stopped, ControllerStates
    <3>2. controller' = [c EXCEPT ![starts + 1] = "starting"]
      BY <2>2 DEF StartMicrophoneSession
    <3>. HIDE DEF c
    <3>. QED
      BY <2>1, <3>1, <3>2
  <2>3. CASE StopSession
    BY <1>2, <2>1, <2>3 DEF StopSession, Stopped
  <2>4. CASE PauseCapture \/ ResumeCapture
    BY <2>4 DEF PauseCapture, ResumeCapture
  <2>. QED
    BY <2>2, <2>3, <2>4
<1>5. \A g \in Starts : streamTime[g] <= streamTime'[g]
  BY <1>1, <1>2
<1>. QED
  BY <1>1, <1>4, <1>5, TimeGrows

LEMMA RespondsTime == ASSUME TimelineInv, TypeInv', Responds PROVE TimeInv'
<1>. DEFINE r == Head(responses)
<1>1. UNCHANGED <<native, events>>
  BY DEF Responds
<1>2. /\ TypeInv /\ controller \in [Starts -> ControllerStates]
      /\ streamTime \in [Starts -> Nat]
  BY DEF TimelineInv, HistoryInv, MicInv, TypeInv, WebOK
<1>3. r.by \in Starts
  <2>1. responses \in Seq(ResponseRecord) /\ responses # <<>>
    BY <1>2 DEF TypeInv, LinesOK, Responds
  <2>2. r \in ResponseRecord
    BY <2>1
  <2>. QED
    BY <2>2 DEF ResponseRecord
<1>4. \/ /\ controller[r.by] # "stopped" /\ controller' = [controller EXCEPT ![r.by] = "capturing"]
         /\ UNCHANGED streamTime
      \/ Fail(r.by)
      \/ UNCHANGED <<controller, streamTime>>
  BY DEF Responds, TooLate
<1>. HIDE DEF r
<1>5. \A h \in Starts : /\ streamTime[h] <= streamTime'[h]
                        /\ controller[h] = "stopped" => controller'[h] = "stopped"
  <2>1. CASE Fail(r.by)
    BY <1>2, <1>3, <2>1, FailTime
  <2>2. CASE UNCHANGED <<controller, streamTime>>
    BY <1>2, <2>2
  <2>3. CASE /\ controller[r.by] # "stopped"
             /\ controller' = [controller EXCEPT ![r.by] = "capturing"]
             /\ UNCHANGED streamTime
    BY <1>2, <1>3, <2>3
  <2>. QED
    BY <1>4, <2>1, <2>2, <2>3
<1>6. stream.id # 0 => stream.id \in Starts
  <2>1. stream.id \in 0..MaxStarts
    BY <1>2 DEF TypeInv, StreamOK, StreamRecord
  <2>. QED
    BY <2>1, MicrophoneAssumption DEF Starts
<1>. QED
  BY <1>1, <1>5, <1>6, TimeGrows

\* emitGap and emitChunk let the time pass by what they stand for, and never by nothing.
LEMMA MaxCovers == ASSUME NEW n \in Nat PROVE n <= Max({1, n})
<1>1. \E x \in {1, n} : \A y \in {1, n} : x >= y
  OBVIOUS
<1>2. Max({1, n}) \in {1, n} /\ \A y \in {1, n} : Max({1, n}) >= y
  BY <1>1 DEF Max
<1>. QED
  BY <1>2

\* The controller of a stream that works hears every chunk and every gap.
LEMMA EventArrivesTime == ASSUME TimelineInv, TypeInv', EventArrives PROVE TimeInv'
<1>. DEFINE e == Head(events)
            g == stream.id
<1>1. TypeInv /\ FlightOK /\ FlightOK'
  BY FlightTyped, FlightNext DEF TimelineInv, HistoryInv, MicInv
<1>2. /\ events \in Seq(EventRecord) /\ events # <<>> /\ events' = Tail(events)
      /\ UNCHANGED <<starts, presses, responses, native>>
      /\ controller \in [Starts -> ControllerStates] /\ streamTime \in [Starts -> Nat]
      /\ streamTime' \in [Starts -> Nat]
  BY <1>1 DEF TypeInv, LinesOK, WebOK, EventArrives
<1>3. UNCHANGED <<stream, callback, worker>>
  BY <1>2 DEF native
<1>4. e = events[1] /\ e \in EventRecord
  BY <1>2
<1>5. \/ Ignores(e) /\ UNCHANGED <<controller, streamTime>>
      \/ /\ ~Ignores(e) /\ e.type \in {"chunk", "gap"}
         /\ streamTime' = After(e.by, Max({1, e.chunks})) /\ UNCHANGED controller
      \/ ~Ignores(e) /\ e.type = "error" /\ Fail(e.by)
      \/ /\ ~Ignores(e) /\ e.type \in {"paused", "capturing"}
         /\ controller' = [controller EXCEPT ![e.by] = e.type] /\ UNCHANGED streamTime
  BY DEF EventArrives
<1>6. e.type = "chunk" => controller[e.by] # "paused"
  BY <1>2, MicImplies DEF TimelineInv, HistoryInv, PauseIsSilent
<1>. HIDE DEF e
<1>7. e.by \in Starts /\ e.chunks \in Nat /\ (e.chunks # 0 => e.type \in {"chunk", "gap"})
  BY <1>4 DEF EventRecord
<1>8. Max({1, e.chunks}) \in Nat /\ e.chunks <= Max({1, e.chunks})
  BY <1>7, MaxTyped, MaxCovers
<1>9. \A h \in Starts : /\ streamTime[h] <= streamTime'[h]
                        /\ controller[h] = "stopped" => controller'[h] = "stopped"
  <2>1. CASE UNCHANGED <<controller, streamTime>>
    BY <1>2, <2>1
  <2>2. CASE streamTime' = After(e.by, Max({1, e.chunks})) /\ UNCHANGED controller
    BY <1>1, <1>7, <1>8, <2>2, TimePassed
  <2>3. CASE Fail(e.by)
    BY <1>1, <1>7, <2>3, FailTime
  <2>4. CASE /\ ~Ignores(e) /\ controller' = [controller EXCEPT ![e.by] = e.type]
             /\ UNCHANGED streamTime
    BY <1>2, <1>7, <2>4 DEF Ignores
  <2>. QED
    BY <1>5, <2>1, <2>2, <2>3, <2>4
<1>. SUFFICES ASSUME g # 0, ~stream.failed, controller'[g] # "stopped"
              PROVE  stream.captured <= streamTime'[g] + InFlight'
  BY <1>3 DEF TimeInv
<1>10. g \in Starts
  <2>1. g \in 0..MaxStarts
    BY <1>1 DEF TypeInv, StreamOK, StreamRecord
  <2>. QED
    BY <2>1, MicrophoneAssumption DEF Starts
<1>11. controller[g] # "stopped" /\ stream.captured <= streamTime[g] + InFlight
  <2>1. controller[g] # "stopped"
    BY <1>9, <1>10
  <2>. QED
    BY <2>1 DEF TimelineInv, TimeInv
<1>. DEFINE a == IF e.by = g THEN Batches * e.chunks ELSE 0
<1>12. a \in Nat /\ OnTheWay = OnTheWay' + a
  <2>1. OnTheWay = Batches * Cardinality(ChunksIn(events, g))
        /\ OnTheWay' = Batches * Cardinality(ChunksIn(Tail(events), g))
    BY <1>2, <1>3 DEF OnTheWay
  <2>2. Batches \in Nat
    BY MicrophoneAssumption
  <2>. HIDE DEF g
  <2>3. \A b, c \in Nat : b * c \in Nat
    OBVIOUS
  <2>. QED
    BY <1>2, <1>4, <1>7, <2>1, <2>2, <2>3, ChunksArrived
<1>13. InFlight = InFlight' + a
  <2>. DEFINE k == IF callback.next = "enqueue" THEN 1 ELSE 0
              p == IF worker = "process" THEN 1 ELSE 0
              rest == stream.output + stream.dropped + stream.lateInput + stream.resetOutput
                      + WaitingIn(stream.queue) + k + p
  <2>1. InFlight = rest + OnTheWay /\ InFlight' = rest + OnTheWay'
    BY <1>1, <1>3 DEF FlightOK
  <2>2. rest \in Nat /\ OnTheWay' \in Nat
    BY <1>1 DEF FlightOK
  <2>. HIDE DEF rest, a
  <2>. QED
    BY <1>12, <2>1, <2>2
<1>14. streamTime[g] + a <= streamTime'[g]
  <2>0. streamTime[g] \in Nat
    BY <1>2, <1>10
  <2>1. CASE e.by # g \/ e.chunks = 0
    <3>1. a = 0
      <4>1. Batches * 0 = 0
        BY MicrophoneAssumption
      <4>. QED
        BY <2>1, <4>1
    <3>. HIDE DEF a
    <3>. QED
      BY <1>9, <1>10, <2>0, <3>1
  <2>2. CASE e.by = g /\ e.chunks # 0
    <3>1. ~Ignores(e)
      <4>1. controller[g] # "idle"
        BY DEF TimelineInv, HistoryInv, SettledInv, Settled, StartsInv
      <4>2. controller[g] # "failed"
        BY <1>10 DEF TimelineInv, HistoryInv, DoomedInv, Doomed
      <4>3. controller[g] \in ControllerStates
        BY <1>2, <1>10
      <4>. HIDE DEF g
      <4>. QED
        BY <1>6, <1>7, <1>11, <2>2, <4>1, <4>2, <4>3 DEF Ignores, ControllerStates
    <3>2. streamTime' = After(g, Max({1, e.chunks}))
      BY <1>5, <1>7, <2>2, <3>1
    <3>3. streamTime'[g] = streamTime[g] + Max({1, e.chunks}) * Batches
      BY <1>1, <1>8, <1>10, <3>2, TimePassed
    <3>4. \A b, c, d \in Nat : c <= d => b * c <= d * b
      <4>1. \A b, c, x \in Nat : b * c <= (c + x) * b
        <5>1. \A b, c, x \in Nat : b * x \in Nat /\ b * c \in Nat /\ (c + x) * b = b * c + b * x
          OBVIOUS
        <5>. QED
          BY <5>1
      <4>2. \A c, d \in Nat : c <= d => d - c \in Nat /\ c + (d - c) = d
        OBVIOUS
      <4>. QED
        BY <4>1, <4>2
    <3>5. Batches * e.chunks <= Max({1, e.chunks}) * Batches
      BY <1>7, <1>8, <3>4, MicrophoneAssumption
    <3>6. Max({1, e.chunks}) * Batches \in Nat
      <4>1. \A b, c \in Nat : b * c \in Nat
        OBVIOUS
      <4>. QED
        BY <1>8, <4>1, MicrophoneAssumption
    <3>7. a = Batches * e.chunks
      BY <2>2
    <3>. HIDE DEF a
    <3>. DEFINE m == Max({1, e.chunks}) * Batches
    <3>8. a <= m /\ m \in Nat /\ streamTime'[g] = streamTime[g] + m
      BY <3>3, <3>5, <3>6, <3>7
    <3>. HIDE DEF m
    <3>. QED
      BY <1>12, <2>0, <3>8
  <2>. QED
    BY <2>1, <2>2
<1>15. /\ stream.captured \in Nat /\ InFlight' \in Nat /\ streamTime[g] \in Nat
       /\ streamTime'[g] \in Nat
  BY <1>1, <1>2, <1>10 DEF FlightOK
<1>. HIDE DEF a, g
<1>16. \A c, t, t2, f, x \in Nat : c <= t + (f + x) /\ t + x <= t2 => c <= t2 + f
  OBVIOUS
<1>. QED
  BY <1>11, <1>12, <1>13, <1>14, <1>15, <1>16

-----------------------------------------------------------------------------
(* The timeline holds *)

LEMMA TimelineStart == ASSUME MicInit PROVE TimelineInv
<1>1. HistoryInv
  BY HistoryStart
<1>2. TimeInv
  BY DEF MicInit, NoStream, NewStream, TimeInv
<1>. QED
  BY <1>1, <1>2 DEF TimelineInv

\* Every step of the microphone preserves the timeline.
LEMMA TimelineStep == ASSUME TimelineInv, [MicNext]_micVars PROVE TimelineInv'
<1>1. HistoryInv' /\ TypeInv'
  BY HistoryStep DEF TimelineInv, HistoryInv, MicInv
<1>2. TimeInv'
  <2>1. CASE UNCHANGED micVars
    <3>1. UNCHANGED <<native, events, streamTime, controller>>
      BY <2>1 DEF micVars, web
    <3>2. \A g \in Starts : streamTime[g] <= streamTime'[g]
      BY <3>1 DEF TimelineInv, HistoryInv, MicInv, TypeInv, WebOK
    <3>. QED
      BY <1>1, <3>1, <3>2, TimeGrows
  <2>2. CASE Execute
    BY <1>1, <2>2, SilentTime, AnnouncedTime, NewStreamTime DEF Execute
  <2>3. CASE Callback
    BY <1>1, <2>3, CallbackTime DEF Callback
  <2>4. CASE Work
    BY <1>1, <2>4, WorkerReportsTime, WorkerReceivesTime, WorkerProcessesTime, SilentTime DEF Work
  <2>. QED
    BY <1>1, <2>1, <2>2, <2>3, <2>4, UserTime, RespondsTime, EventArrivesTime, SilentTime
       DEF MicNext
<1>. QED
  BY <1>1, <1>2 DEF TimelineInv

LEMMA TimelineInvariant == MicSpec => []TimelineInv
BY TimelineStart, TimelineStep, PTL DEF MicSpec

LEMMA TimelineImplies == ASSUME TimelineInv PROVE TimelineCovers
BY DEF TimelineInv, TimeInv, TimelineCovers, Listening

\* The time of streamTimeMs does not fall behind the audio that the callback took, whichever
\* of the callback, the worker, a pause, a full queue or a new epoch took it away: what is
\* not on its way is in a chunk or a gap that the controller counted.
THEOREM TimelineCoversHolds == MicSpec => []TimelineCovers
BY TimelineInvariant, TimelineImplies, PTL

-----------------------------------------------------------------------------
(* The hosted sign-in: its invariant *)

AnyToken == Nat \X Nat

AnySession == [id : Nat, refresh : AnyToken]

AnyCompletion ==
  [by : 0..MaxAttempts, url : (0..MaxAttempts) \X {"none", "code", "denied"},
   step : {"check", "save", "realtime", "over"}, session : AnySession]

AnyRenewal ==
  [step : {"idle", "load", "refresh", "exchange", "save", "use"},
   loaded : AnySession, renewed : AnySession]

\* Tokens and sessions whose numbers were given out.
Minted == {t \in AnyToken : t[1] <= sessions /\ t[2] <= sessions}

Issued == {s \in AnySession : s.id <= sessions /\ s.refresh \in Minted}

AttemptsOK ==
  /\ begun \in 0..MaxAttempts /\ listener \in 0..begun /\ pendingAuth \in 0..begun
  /\ waits \in [Attempts -> {"nothing", "opening", "refused", "callback", "error"}]
  /\ browser \in [Attempts -> {"closed", "open", "code", "denied"}]
  /\ silent \in BOOLEAN /\ (silent => listener # 0)

CompletionsOK ==
  /\ completions \in Seq(AnyCompletion) /\ Len(completions) <= MaxCompletions
  /\ \A k \in 1..Len(completions) : completions[k].session \in Issued

StoreOK ==
  /\ renewals \in [Panels -> AnyRenewal]
  /\ \A p \in Panels : renewals[p].loaded \in Issued /\ renewals[p].renewed \in Issued
  /\ sessions \in Nat /\ stored \in Issued /\ accepted \subseteq Minted
  /\ apiToken \in BOOLEAN /\ rotates \in BOOLEAN

\* Completions that are about to store a refresh token.
Waiting ==
  {k \in 1..Len(completions) :
     completions[k].step = "save" /\ completions[k].session.refresh # NoToken}

\* Panels that have used a token and have not stored what they got for it.
Renewing == {p \in Panels : renewals[p].step \in {"exchange", "save"}}

\* Families that are excused.
Dead == lost \cup raced

\* Nobody else has a token of the family of a completion.
SignedAlone ==
  \A k \in Waiting :
    LET t == completions[k].session.refresh IN
    /\ t \in accepted /\ Family(t) \notin {0, Family(stored.refresh)}
    /\ \A p \in Panels : Family(t) # Family(renewals[p].loaded.refresh)
    /\ \A j \in Waiting : j # k => Family(t) # Family(completions[j].session.refresh)

\* What a panel got is of the family of what it used, and if it is another token, nobody
\* else has it.
RenewedAlone ==
  \A p \in Renewing :
    LET t == renewals[p].renewed.refresh IN
    /\ Family(t) = Family(renewals[p].loaded.refresh)
    /\ Family(t) \notin Dead => t \in accepted
    /\ ~rotates => t = renewals[p].loaded.refresh
    /\ rotates =>
         /\ t \notin {NoToken, stored.refresh}
         /\ \A q \in Panels : t # renewals[q].loaded.refresh
         /\ \A q \in Renewing : q # p => t # renewals[q].renewed.refresh

\* A token that a panel is about to use is accepted, or the other panel has used it.
LoadedUsable ==
  \A p \in Panels :
    LET t == renewals[p].loaded.refresh IN
    renewals[p].step = "refresh" /\ Family(t) \notin Dead =>
      \/ t \in accepted
      \/ \E q \in Panels \ {p} : renewals[q].step # "load" /\ renewals[q].loaded.refresh = t

\* The stored token is accepted, or a renewal is about to replace it.
StoredUsable ==
  stored.refresh # NoToken /\ Family(stored.refresh) \notin Dead =>
    \/ stored.refresh \in accepted
    \/ \E p \in Renewing : renewals[p].loaded.refresh = stored.refresh

TokensInv == SignedAlone /\ RenewedAlone /\ LoadedUsable /\ StoredUsable

SignInInv ==
  AttemptsOK /\ CompletionsOK /\ StoreOK /\ BoundToAttempt /\ TokensInv

-----------------------------------------------------------------------------
LEMMA TokenIs ==
  /\ NoToken \in AnyToken /\ NoToken[1] = 0 /\ NoToken[2] = 0 /\ Family(NoToken) = 0
  /\ \A m, n \in Nat : <<m, n>> \in AnyToken /\ Family(<<m, n>>) = m
                       /\ <<m, n>>[1] = m /\ <<m, n>>[2] = n
BY DEF NoToken, AnyToken, Family

LEMMA SessionIs ==
  /\ NoSession \in AnySession /\ NoSession.id = 0 /\ NoSession.refresh = NoToken
  /\ \A i \in Nat, r \in AnyToken : Session(i, r) \in AnySession /\ Session(i, r).id = i
                                     /\ Session(i, r).refresh = r
BY TokenIs DEF NoSession, Session, AnySession

\* A token that was given out does not have the number of one that is given out later.
LEMMA MintedOld ==
  ASSUME sessions \in Nat, NEW t \in Minted
  PROVE  /\ t \in AnyToken /\ Family(t) \in Nat /\ Family(t) # sessions + 1
         /\ \A m \in Nat : t # <<m, sessions + 1>>
<1>1. t \in AnyToken /\ t[1] <= sessions /\ t[2] <= sessions
  BY DEF Minted
<1>2. Family(t) \in Nat /\ Family(t) # sessions + 1
  BY <1>1 DEF Family, AnyToken
<1>3. ASSUME NEW m \in Nat, t = <<m, sessions + 1>> PROVE FALSE
  BY <1>1, <1>3, TokenIs
<1>. QED
  BY <1>1, <1>2, <1>3

LEMMA IssuedGrows ==
  ASSUME sessions \in Nat, sessions' \in Nat, sessions' >= sessions
  PROVE  Issued \subseteq Issued' /\ Minted \subseteq Minted'
<1>1. Minted \subseteq Minted'
  <2>1. \A t \in AnyToken : t[1] \in Nat /\ t[2] \in Nat
    BY DEF AnyToken
  <2>. QED
    BY <2>1 DEF Minted
<1>2. \A x \in AnySession : x.id \in Nat
  BY DEF AnySession
<1>. QED
  BY <1>1, <1>2 DEF Issued

LEMMA NoSessionIssued == ASSUME sessions \in Nat PROVE NoSession \in Issued
BY SessionIs, TokenIs DEF Issued, Minted

\* Sessions that were given out have tokens that were.
LEMMA IssuedMinted ==
  /\ \A x \in Issued : x.refresh \in Minted
  /\ StoreOK => /\ stored.refresh \in Minted
                /\ \A p \in Panels : /\ renewals[p].loaded.refresh \in Minted
                                    /\ renewals[p].renewed.refresh \in Minted
  /\ CompletionsOK => \A k \in Waiting : completions[k].session.refresh \in Minted
BY DEF Issued, StoreOK, CompletionsOK, Waiting

\* One completion goes on.
LEMMA BecomesEffect ==
  ASSUME CompletionsOK, NEW k, k \in 1..Len(completions),
         NEW c \in AnyCompletion, Becomes(k, c)
  PROVE  /\ completions' \in Seq(AnyCompletion) /\ Len(completions') = Len(completions)
         /\ completions'[k] = c
         /\ \A j \in 1..Len(completions) : j # k => completions'[j] = completions[j]
BY DEF CompletionsOK, Becomes

\* A step that changes no token: fewer completions wait, with the tokens they had.
LEMMA TokensStay ==
  ASSUME SignInInv, UNCHANGED <<renewals, stored, rotates, accepted, history>>,
         \A k \in Waiting' : k \in Waiting /\ completions'[k].session = completions[k].session
  PROVE  TokensInv'
<1>1. Renewing' = Renewing /\ Dead' = Dead
  BY DEF Renewing, Dead, history
<1>2. SignedAlone'
  BY <1>1 DEF SignInInv, TokensInv, SignedAlone
<1>3. RenewedAlone' /\ LoadedUsable' /\ StoredUsable'
  BY <1>1 DEF SignInInv, TokensInv, RenewedAlone, LoadedUsable, StoredUsable
<1>. QED
  BY <1>2, <1>3 DEF TokensInv

\* The callback that begins a completion.
LEMMA CallbackStep ==
  ASSUME SignInInv, NEW a \in 0..MaxAttempts,
         NEW url \in (0..MaxAttempts) \X {"none", "code", "denied"},
         completions' = Append(completions, Completion(a, url)),
         Len(completions) < MaxCompletions,
         UNCHANGED <<stored, panels, counters, provider>>
  PROVE  CompletionsOK' /\ StoreOK' /\ BoundToAttempt' /\ TokensInv'
<1>. DEFINE n == Len(completions)
            c == Completion(a, url)
<1>1. c \in AnyCompletion /\ c.step = "check" /\ c.session = NoSession
  BY SessionIs DEF AnyCompletion, Completion
<1>. HIDE DEF c
<1>2. /\ completions' \in Seq(AnyCompletion) /\ n \in Nat /\ Len(completions') = n + 1
      /\ completions'[n + 1] = c
      /\ \A k \in 1..n : completions'[k] = completions[k]
  BY <1>1 DEF SignInInv, CompletionsOK, c
<1>3. \A k \in 1..(n + 1) : k \in 1..n \/ k = n + 1
  BY <1>2
<1>4. UNCHANGED <<renewals, stored, rotates, accepted, history, sessions, redeemed, apiToken>>
  BY DEF panels, counters, provider
<1>5. Issued' = Issued /\ Minted' = Minted
  BY <1>4 DEF Issued, Minted
<1>6. CompletionsOK'
  <2>1. n + 1 <= MaxCompletions
    BY <1>2, SignInAssumption
  <2>2. NoSession \in Issued
    BY NoSessionIssued DEF SignInInv, StoreOK
  <2>. QED
    BY <1>1, <1>2, <1>3, <1>5, <2>1, <2>2 DEF SignInInv, CompletionsOK
<1>7. StoreOK' /\ BoundToAttempt'
  BY <1>4, <1>5 DEF SignInInv, StoreOK, BoundToAttempt
<1>8. TokensInv'
  <2>1. \A k \in Waiting' : k \in Waiting /\ completions'[k].session = completions[k].session
    BY <1>1, <1>2, <1>3 DEF Waiting
  <2>. QED
    BY <1>4, <2>1, TokensStay
<1>. QED
  BY <1>6, <1>7, <1>8

\* What is not about sessions.
LEMMA AttemptStep ==
  ASSUME SignInInv,
         \/ StartHostedSignIn \/ Expire \/ OtherConnection
         \/ \E a \in Attempts :
              OpenHostedAuthBrowser(a) \/ SignInFails(a) \/ Redirect(a) \/ CompleteHostedSignIn(a)
  PROVE  SignInInv'
<1>. USE DEF SignInInv
<1>0. MaxAttempts \in Nat /\ Attempts = 1..MaxAttempts
  BY SignInAssumption DEF Attempts
<1>1. AttemptsOK'
  <2>1. CASE StartHostedSignIn
    <3>1. begun + 1 \in Attempts /\ begun + 1 \in 0..MaxAttempts /\ begun + 1 # 0
      BY <1>0, <2>1 DEF StartHostedSignIn, AttemptsOK
    <3>2. /\ begun' = begun + 1 /\ pendingAuth' = begun + 1 /\ UNCHANGED <<browser, silent>>
          /\ \/ /\ listener = 0 /\ listener' = begun + 1
                /\ waits' = [waits EXCEPT ![begun + 1] = "opening"]
             \/ /\ listener # 0 /\ listener' = listener
                /\ waits' = [waits EXCEPT ![begun + 1] = "refused"]
      BY <2>1 DEF StartHostedSignIn
    <3>. QED
      BY <1>0, <3>1, <3>2 DEF AttemptsOK
  <2>2. ASSUME NEW a \in Attempts, OpenHostedAuthBrowser(a)
        PROVE  AttemptsOK'
    BY <1>0, <2>2 DEF OpenHostedAuthBrowser, AttemptsOK, port
  <2>3. ASSUME NEW a \in Attempts, SignInFails(a)
        PROVE  AttemptsOK'
    BY <1>0, <2>3 DEF SignInFails, AttemptsOK, port
  <2>4. ASSUME ListenerFails, listener # 0, UNCHANGED <<begun, pendingAuth>>,
               browser' \in [Attempts -> {"closed", "open", "code", "denied"}]
        PROVE  AttemptsOK'
    <3>1. listener \in Attempts /\ waits[listener] \in {"nothing", "opening", "refused", "callback", "error"}
      BY <1>0, <2>4 DEF AttemptsOK
    <3>2. Failed(waits[listener]) \in {"nothing", "opening", "refused", "callback", "error"}
      BY <3>1 DEF Failed
    <3>3. 0 \in 0..begun
      BY <1>0 DEF AttemptsOK
    <3>4. waits' \in [Attempts -> {"nothing", "opening", "refused", "callback", "error"}]
      BY <2>4, <3>1, <3>2 DEF AttemptsOK, ListenerFails
    <3>. QED
      BY <2>4, <3>3, <3>4 DEF AttemptsOK, ListenerFails
  <2>5. CASE Expire
    BY <2>4, <2>5 DEF Expire, AttemptsOK
  <2>6. CASE OtherConnection
    <3>1. CASE ListenerFails
      BY <2>4, <2>6, <3>1 DEF OtherConnection, AttemptsOK
    <3>2. CASE silent' = TRUE /\ UNCHANGED <<waits, listener>>
      BY <2>6, <3>2 DEF OtherConnection, AttemptsOK
    <3>. QED
      BY <2>6, <3>1, <3>2 DEF OtherConnection
  <2>7. ASSUME NEW a \in Attempts, Redirect(a)
        PROVE  AttemptsOK'
    <3>1. /\ browser' \in [Attempts -> {"closed", "open", "code", "denied"}]
          /\ UNCHANGED <<begun, pendingAuth>>
      BY <2>7 DEF Redirect, AttemptsOK
    <3>2. \/ waits' = [waits EXCEPT ![a] = "nothing"] /\ listener' = 0 /\ silent' = FALSE
          \/ listener # 0 /\ ListenerFails
          \/ UNCHANGED <<waits, port>>
      BY <2>7 DEF Redirect
    <3>3. CASE waits' = [waits EXCEPT ![a] = "nothing"] /\ listener' = 0 /\ silent' = FALSE
      <4>1. 0 \in 0..begun
        BY <1>0 DEF AttemptsOK
      <4>. QED
        BY <3>1, <3>3, <4>1 DEF AttemptsOK
    <3>4. CASE listener # 0 /\ ListenerFails
      BY <2>4, <3>1, <3>4
    <3>5. CASE UNCHANGED <<waits, port>>
      BY <3>1, <3>5 DEF AttemptsOK, port
    <3>. QED
      BY <3>2, <3>3, <3>4, <3>5
  <2>8. ASSUME NEW a \in Attempts, CompleteHostedSignIn(a)
        PROVE  AttemptsOK'
    BY <2>8 DEF CompleteHostedSignIn, AttemptsOK, port
  <2>. QED
    BY <2>1, <2>2, <2>3, <2>5, <2>6, <2>7, <2>8
<1>2. UNCHANGED <<stored, panels, counters, provider>>
  BY DEF StartHostedSignIn, Expire, OtherConnection, OpenHostedAuthBrowser, SignInFails, Redirect,
         CompleteHostedSignIn
<1>3. CASE completions' = completions
  <2>1. UNCHANGED <<renewals, stored, rotates, accepted, history, sessions, redeemed, apiToken>>
    BY <1>2 DEF panels, counters, provider
  <2>2. Issued' = Issued /\ Minted' = Minted /\ Waiting' = Waiting
    BY <1>3, <2>1 DEF Issued, Minted, Waiting
  <2>3. CompletionsOK' /\ StoreOK' /\ BoundToAttempt'
    BY <1>3, <2>1, <2>2 DEF CompletionsOK, StoreOK, BoundToAttempt
  <2>4. TokensInv'
    BY <1>3, <2>1, <2>2, TokensStay
  <2>. QED
    BY <1>1, <2>3, <2>4
<1>4. CASE completions' # completions
  <2>1. PICK a \in 0..MaxAttempts, url \in (0..MaxAttempts) \X {"none", "code", "denied"} :
          /\ completions' = Append(completions, Completion(a, url))
          /\ Len(completions) < MaxCompletions
    <3>1. ASSUME NEW a \in Attempts, Redirect(a)
          PROVE  \E answer \in {"code", "denied"} :
                   /\ completions' = Append(completions, Completion(a, <<a, answer>>))
                   /\ Len(completions) < MaxCompletions
      BY <1>4, <3>1 DEF Redirect
    <3>2. ASSUME NEW a \in Attempts, CompleteHostedSignIn(a)
          PROVE  /\ browser[a] \in {"code", "denied"} /\ pendingAuth \in 0..MaxAttempts
                 /\ completions' = Append(completions, Completion(pendingAuth, <<a, browser[a]>>))
                 /\ Len(completions) < MaxCompletions
      BY <1>0, <3>2 DEF CompleteHostedSignIn, AttemptsOK
    <3>3. \E a \in Attempts : Redirect(a) \/ CompleteHostedSignIn(a)
      BY <1>4 DEF StartHostedSignIn, Expire, OtherConnection, OpenHostedAuthBrowser, SignInFails
    <3>4. \A a \in Attempts : a \in 0..MaxAttempts
      BY <1>0
    <3>. QED
      BY <3>1, <3>2, <3>3, <3>4
  <2>2. CompletionsOK' /\ StoreOK' /\ BoundToAttempt' /\ TokensInv'
    BY <1>2, <2>1, CallbackStep
  <2>. QED
    BY <1>1, <2>2
<1>. QED
  BY <1>3, <1>4

\* A completion goes on without a session that is stored.
LEMMA CompletionEffect ==
  ASSUME SignInInv, NEW k, k \in 1..Len(completions), NEW c \in AnyCompletion, Becomes(k, c),
         sessions' \in Nat, sessions' >= sessions, c.session \in Issued'
  PROVE  CompletionsOK'
<1>1. /\ completions' \in Seq(AnyCompletion) /\ Len(completions') = Len(completions)
      /\ completions'[k] = c
      /\ \A j \in 1..Len(completions) : j # k => completions'[j] = completions[j]
  BY BecomesEffect DEF SignInInv
<1>2. Issued \subseteq Issued'
  BY IssuedGrows DEF SignInInv, StoreOK
<1>. QED
  BY <1>1, <1>2 DEF SignInInv, CompletionsOK

LEMMA ExchangeStep ==
  ASSUME SignInInv, NEW k \in 1..MaxCompletions, ExchangeCode(k)
  PROVE  SignInInv'
<1>. USE DEF SignInInv
<1>. DEFINE c == completions[k]
            new == sessions + 1
            fresh == <<new, new>>
            none == [c EXCEPT !.step = "save", !.session = Session(new, NoToken)]
            some == [c EXCEPT !.step = "save", !.session = Session(new, fresh)]
<1>1. /\ k \in 1..Len(completions) /\ c.step = "check" /\ c \in AnyCompletion
      /\ c.by \in 0..MaxAttempts
      /\ UNCHANGED <<begun, waits, listener, silent, pendingAuth, browser, stored, history>>
      /\ UNCHANGED <<renewals, apiToken, rotates>>
  <2>1. k \in 1..Len(completions) /\ c.step = "check"
    BY DEF ExchangeCode, At
  <2>2. c \in AnyCompletion
    BY <2>1 DEF CompletionsOK
  <2>3. c.by \in 0..MaxAttempts
    BY <2>2 DEF AnyCompletion
  <2>4. UNCHANGED <<begun, waits, listener, silent, pendingAuth, browser, stored, history>>
    BY DEF ExchangeCode, port
  <2>5. UNCHANGED <<renewals, apiToken, rotates>>
    BY DEF ExchangeCode, panels, counters
  <2>. QED
    BY <2>1, <2>2, <2>3, <2>4, <2>5
<1>2. sessions \in Nat /\ new \in Nat /\ new > sessions /\ new # 0
  BY DEF StoreOK
<1>3. fresh \in AnyToken /\ Family(fresh) = new /\ fresh # NoToken
  BY <1>2, TokenIs
<1>4. \/ /\ sessions' = new
         /\ \/ Becomes(k, none) /\ accepted' = accepted
            \/ Becomes(k, some) /\ accepted' = accepted \cup {fresh}
            \/ Becomes(k, Over) /\ accepted' \in {accepted, accepted \cup {fresh}}
      \/ UNCHANGED <<sessions, accepted>> /\ Becomes(k, Over)
  <2>1. ASSUME NEW refresh \in {NoToken, fresh},
               accepted' = accepted \cup ({refresh} \ {NoToken})
        PROVE  \/ refresh = NoToken /\ accepted' = accepted
               \/ refresh = fresh /\ accepted' = accepted \cup {fresh}
    BY <1>3, <2>1
  <2>2. CASE /\ sessions' = new
             /\ \E refresh \in {NoToken, fresh} :
                  /\ accepted' = accepted \cup ({refresh} \ {NoToken})
                  /\ \/ Becomes(k, [c EXCEPT !.step = "save", !.session = Session(new, refresh)])
                     \/ Becomes(k, Over)
    BY <2>1, <2>2
  <2>3. CASE UNCHANGED <<sessions, accepted>> /\ Becomes(k, Over)
    BY <2>3
  <2>. QED
    BY <2>2, <2>3 DEF ExchangeCode
<1>5. BoundToAttempt'
  BY DEF ExchangeCode, OwnCallback, BoundToAttempt
<1>6. sessions' \in Nat /\ sessions' >= sessions
  BY <1>2, <1>4
<1>7. /\ none \in AnyCompletion /\ none.step = "save" /\ none.session = Session(new, NoToken)
      /\ some \in AnyCompletion /\ some.step = "save" /\ some.session = Session(new, fresh)
      /\ Over \in AnyCompletion /\ Over.step = "over" /\ Over.session = NoSession
  <2>1. Session(new, NoToken) \in AnySession /\ Session(new, fresh) \in AnySession
    BY <1>2, <1>3, SessionIs, TokenIs
  <2>2. none \in AnyCompletion /\ some \in AnyCompletion
    BY <1>1, <2>1 DEF AnyCompletion
  <2>3. Over \in AnyCompletion
    BY SessionIs, SignInAssumption DEF AnyCompletion, Over
  <2>. QED
    BY <1>1, <2>2, <2>3 DEF Over, AnyCompletion
<1>8. /\ Session(new, NoToken).refresh = NoToken /\ Session(new, fresh).refresh = fresh
      /\ sessions' = new => /\ Session(new, NoToken) \in Issued' /\ Session(new, fresh) \in Issued'
                            /\ fresh \in Minted'
      /\ NoSession \in Issued'
  <2>1. /\ Session(new, NoToken) \in AnySession /\ Session(new, fresh) \in AnySession
        /\ Session(new, NoToken).id = new /\ Session(new, fresh).id = new
        /\ Session(new, NoToken).refresh = NoToken /\ Session(new, fresh).refresh = fresh
    BY <1>2, <1>3, SessionIs, TokenIs
  <2>2. sessions' = new => fresh \in Minted' /\ NoToken \in Minted'
    BY <1>2, <1>3, TokenIs DEF Minted
  <2>3. sessions' = new => Session(new, NoToken) \in Issued' /\ Session(new, fresh) \in Issued'
    BY <1>2, <2>1, <2>2 DEF Issued
  <2>4. NoSession \in Issued'
    BY <1>6, SessionIs, TokenIs DEF Issued, Minted
  <2>. QED
    BY <2>1, <2>2, <2>3, <2>4
<1>9. /\ \A t \in Minted : t # fresh /\ Family(t) # new
      /\ Issued \subseteq Issued' /\ Minted \subseteq Minted'
  BY <1>2, <1>3, <1>6, MintedOld, IssuedGrows
<1>. HIDE DEF new, fresh, none, some
<1>10. PICK d \in AnyCompletion :
        /\ Becomes(k, d) /\ d.session \in Issued'
        /\ d.step \in {"save", "over"}
        /\ d.step = "save" /\ d.session.refresh # NoToken =>
             /\ d.session.refresh = fresh
             /\ accepted' = accepted \cup {fresh} /\ sessions' = new
  BY <1>4, <1>7, <1>8
<1>11. accepted \subseteq accepted' /\ accepted' \subseteq Minted'
  <2>1. accepted \subseteq Minted'
    BY <1>9 DEF StoreOK
  <2>. QED
    BY <1>4, <1>8, <2>1
<1>12. CompletionsOK'
  BY <1>1, <1>6, <1>10, CompletionEffect
<1>13. AttemptsOK'
  BY <1>1 DEF AttemptsOK
<1>14. StoreOK'
  BY <1>1, <1>6, <1>9, <1>11 DEF StoreOK
<1>15. /\ Len(completions') = Len(completions) /\ completions'[k] = d
       /\ \A j \in 1..Len(completions) : j # k => completions'[j] = completions[j]
  BY <1>1, <1>10, BecomesEffect
<1>16. Renewing' = Renewing /\ Dead' = Dead
  BY <1>1 DEF Renewing, Dead, history
<1>17. /\ \A j \in Waiting' : j # k => j \in Waiting /\ completions'[j] = completions[j]
       /\ k \in Waiting' => /\ completions'[k].session.refresh = fresh
                            /\ fresh \in accepted'
  BY <1>1, <1>10, <1>15 DEF Waiting
<1>18. /\ new # Family(stored.refresh)
       /\ \A p \in Panels : new # Family(renewals[p].loaded.refresh)
       /\ \A j \in Waiting : new # Family(completions[j].session.refresh)
  BY <1>9, IssuedMinted
<1>19. SignedAlone'
  <2>. SUFFICES ASSUME NEW i \in Waiting'
                PROVE  /\ completions'[i].session.refresh \in accepted'
                       /\ Family(completions'[i].session.refresh) \notin {0, Family(stored.refresh)}
                       /\ \A p \in Panels : Family(completions'[i].session.refresh)
                                             # Family(renewals[p].loaded.refresh)
                       /\ \A j \in Waiting' : j # i =>
                            Family(completions'[i].session.refresh)
                              # Family(completions'[j].session.refresh)
    BY <1>1 DEF SignedAlone
  <2>1. CASE i = k
    <3>1. /\ completions'[i].session.refresh = fresh /\ fresh \in accepted'
          /\ Family(completions'[i].session.refresh) = new
      BY <1>3, <1>17, <2>1
    <3>2. \A j \in Waiting' : j # k => new # Family(completions'[j].session.refresh)
      BY <1>17, <1>18
    <3>. QED
      BY <1>2, <1>18, <2>1, <3>1, <3>2
  <2>2. CASE i # k
    <3>1. i \in Waiting /\ completions'[i] = completions[i]
      BY <1>17, <2>2
    <3>2. /\ completions[i].session.refresh \in accepted'
          /\ Family(completions[i].session.refresh) \notin {0, Family(stored.refresh)}
          /\ \A p \in Panels : Family(completions[i].session.refresh)
                                # Family(renewals[p].loaded.refresh)
      BY <1>11, <3>1 DEF TokensInv, SignedAlone
    <3>3. ASSUME NEW j \in Waiting', j # i
          PROVE  Family(completions[i].session.refresh) # Family(completions'[j].session.refresh)
      <4>1. CASE j = k
        BY <1>3, <1>17, <1>18, <3>1, <3>3, <4>1
      <4>2. CASE j # k
        BY <1>17, <3>1, <3>3, <4>2 DEF TokensInv, SignedAlone
      <4>. QED
        BY <4>1, <4>2
    <3>. QED
      BY <3>1, <3>2, <3>3
  <2>. QED
    BY <2>1, <2>2
<1>20. RenewedAlone'
  BY <1>1, <1>11, <1>16 DEF TokensInv, RenewedAlone
<1>21. LoadedUsable' /\ StoredUsable'
  BY <1>1, <1>11, <1>16 DEF TokensInv, LoadedUsable, StoredUsable
<1>. QED
  BY <1>5, <1>12, <1>13, <1>14, <1>19, <1>20, <1>21 DEF TokensInv

LEMMA SaveSignInStep ==
  ASSUME SignInInv, NEW k \in 1..MaxCompletions, SaveSignIn(k)
  PROVE  SignInInv'
<1>. USE DEF SignInInv
<1>. DEFINE c == completions[k]
            d == [c EXCEPT !.step = "realtime", !.session = NoSession]
<1>1. /\ k \in 1..Len(completions) /\ c.step = "save" /\ c \in AnyCompletion
      /\ c.session \in Issued
      /\ Becomes(k, d) /\ stored' \in {stored, c.session}
      /\ UNCHANGED <<begun, waits, listener, silent, pendingAuth, browser>>
      /\ UNCHANGED <<renewals, apiToken, rotates, sessions, redeemed, accepted, history>>
  BY DEF SaveSignIn, At, CompletionsOK, panels, counters, provider, port
<1>2. d \in AnyCompletion /\ d.step = "realtime" /\ d.session = NoSession
  BY <1>1, SessionIs DEF AnyCompletion
<1>. HIDE DEF d
<1>3. sessions' \in Nat /\ sessions' >= sessions /\ Issued' = Issued /\ NoSession \in Issued
      /\ Minted' = Minted
  BY <1>1, NoSessionIssued DEF StoreOK, Issued, Minted
<1>4. CompletionsOK'
  BY <1>1, <1>2, <1>3, CompletionEffect
<1>5. AttemptsOK' /\ BoundToAttempt'
  BY <1>1 DEF AttemptsOK, BoundToAttempt
<1>6. StoreOK'
  BY <1>1, <1>3 DEF StoreOK
<1>7. /\ Len(completions') = Len(completions) /\ completions'[k] = d
      /\ \A j \in 1..Len(completions) : j # k => completions'[j] = completions[j]
  BY <1>1, <1>2, BecomesEffect
<1>8. Renewing' = Renewing /\ Dead' = Dead
  BY <1>1 DEF Renewing, Dead, history
<1>9. \A j \in Waiting' : j # k /\ j \in Waiting /\ completions'[j] = completions[j]
  BY <1>2, <1>7 DEF Waiting
<1>10. c.session.refresh # NoToken => k \in Waiting
  BY <1>1 DEF Waiting
<1>11. /\ stored'.refresh \in {stored.refresh, NoToken, c.session.refresh}
       /\ stored'.refresh \notin {stored.refresh, NoToken} => k \in Waiting
  BY <1>1, <1>10
<1>12. SignedAlone'
  <2>1. \A j \in Waiting' : Family(completions'[j].session.refresh) # Family(stored'.refresh)
    BY <1>9, <1>11, TokenIs DEF TokensInv, SignedAlone
  <2>. QED
    BY <1>1, <1>9, <2>1 DEF TokensInv, SignedAlone
<1>13. RenewedAlone'
  <2>1. ASSUME NEW p \in Renewing, rotates
        PROVE  renewals[p].renewed.refresh # stored'.refresh
    <3>1. p \in Panels /\ Family(renewals[p].renewed.refresh) = Family(renewals[p].loaded.refresh)
      BY <2>1 DEF TokensInv, RenewedAlone, Renewing
    <3>2. CASE stored' = stored
      BY <2>1, <3>2 DEF TokensInv, RenewedAlone
    <3>3. CASE stored' = c.session /\ k \in Waiting
      BY <3>1, <3>3 DEF TokensInv, SignedAlone
    <3>4. CASE stored' = c.session /\ k \notin Waiting
      BY <1>10, <2>1, <3>4 DEF TokensInv, RenewedAlone
    <3>. QED
      BY <1>1, <3>2, <3>3, <3>4
  <2>. QED
    BY <1>1, <1>8, <2>1 DEF TokensInv, RenewedAlone
<1>14. StoredUsable'
  <2>1. CASE stored' = stored
    BY <1>1, <1>8, <2>1 DEF TokensInv, StoredUsable
  <2>2. CASE stored' = c.session /\ k \in Waiting
    BY <1>1, <2>2 DEF TokensInv, SignedAlone, StoredUsable
  <2>3. CASE stored' = c.session /\ k \notin Waiting
    BY <1>10, <2>3 DEF StoredUsable
  <2>. QED
    BY <1>1, <2>1, <2>2, <2>3
<1>15. LoadedUsable'
  BY <1>1, <1>8 DEF TokensInv, LoadedUsable
<1>. QED
  BY <1>4, <1>5, <1>6, <1>12, <1>13, <1>14, <1>15 DEF TokensInv

LEMMA FinishStep ==
  ASSUME SignInInv, NEW k \in 1..MaxCompletions, FinishSignIn(k)
  PROVE  SignInInv'
<1>. USE DEF SignInInv
<1>1. /\ k \in 1..Len(completions) /\ Becomes(k, Over) /\ pendingAuth' \in {pendingAuth, 0}
      /\ UNCHANGED <<begun, waits, listener, silent, browser, stored>>
      /\ UNCHANGED <<renewals, apiToken, rotates, sessions, redeemed, accepted, history>>
  BY DEF FinishSignIn, At, CompletionsOK, panels, counters, provider, port
<1>2. Over \in AnyCompletion /\ Over.step = "over" /\ Over.session = NoSession
  BY SessionIs, SignInAssumption DEF AnyCompletion, Over
<1>3. sessions' \in Nat /\ sessions' >= sessions /\ Issued' = Issued /\ NoSession \in Issued
      /\ Minted' = Minted
  BY <1>1, NoSessionIssued DEF StoreOK, Issued, Minted
<1>4. CompletionsOK'
  BY <1>1, <1>2, <1>3, CompletionEffect
<1>5. AttemptsOK' /\ BoundToAttempt'
  BY <1>1, SignInAssumption DEF AttemptsOK, BoundToAttempt
<1>6. StoreOK'
  BY <1>1, <1>3 DEF StoreOK
<1>7. /\ Len(completions') = Len(completions) /\ completions'[k] = Over
      /\ \A j \in 1..Len(completions) : j # k => completions'[j] = completions[j]
  BY <1>1, <1>2, BecomesEffect
<1>8. \A j \in Waiting' : j \in Waiting /\ completions'[j].session = completions[j].session
  BY <1>2, <1>7 DEF Waiting
<1>9. TokensInv'
  BY <1>1, <1>8, TokensStay
<1>. QED
  BY <1>4, <1>5, <1>6, <1>9

-----------------------------------------------------------------------------
(* The panels of the sign-in *)

\* The attempts and the completions are left alone.
LEMMA SigningStays ==
  ASSUME SignInInv, UNCHANGED signing, sessions' \in Nat, sessions' >= sessions,
         redeemed' = redeemed
  PROVE  AttemptsOK' /\ CompletionsOK' /\ BoundToAttempt' /\ Waiting' = Waiting
<1>1. UNCHANGED <<begun, waits, listener, silent, pendingAuth, browser, completions>>
  BY DEF signing, port
<1>2. Issued \subseteq Issued'
  BY IssuedGrows DEF SignInInv, StoreOK
<1>. QED
  BY <1>1, <1>2 DEF SignInInv, AttemptsOK, CompletionsOK, BoundToAttempt, Waiting

LEMMA LoadStep ==
  ASSUME SignInInv, NEW p \in Panels, Load(p)
  PROVE  SignInInv'
<1>. USE DEF SignInInv
<1>1. PICK r \in AnyRenewal :
        /\ renewals' = [renewals EXCEPT ![p] = r] /\ r.step \in {"refresh", "use", "idle"}
        /\ r.loaded \in {stored, NoSession} /\ r.renewed = NoSession
        /\ r.step = "refresh" => r.loaded = stored /\ stored.refresh # NoToken
  <2>1. \A step \in {"refresh", "use"} :
          /\ Renewal(step, stored, NoSession) \in AnyRenewal
          /\ Renewal(step, stored, NoSession).step = step
          /\ Renewal(step, stored, NoSession).loaded = stored
          /\ Renewal(step, stored, NoSession).renewed = NoSession
    BY SessionIs DEF StoreOK, Issued, Renewal, AnyRenewal
  <2>2. /\ AtRest \in AnyRenewal /\ AtRest.step = "idle"
        /\ AtRest.loaded = NoSession /\ AtRest.renewed = NoSession
    BY SessionIs DEF AtRest, Renewal, AnyRenewal
  <2>. QED
    BY <2>1, <2>2 DEF Load, Loadable
<1>2. /\ renewals[p].step = "load" /\ UNCHANGED signing
      /\ UNCHANGED <<stored, rotates, sessions, redeemed, accepted, history, apiToken>>
  BY DEF Load, counters, provider
<1>3. sessions' \in Nat /\ sessions' >= sessions /\ Issued' = Issued /\ NoSession \in Issued
      /\ Minted' = Minted
  BY <1>2, NoSessionIssued DEF StoreOK, Issued, Minted
<1>4. AttemptsOK' /\ CompletionsOK' /\ BoundToAttempt' /\ Waiting' = Waiting
  BY <1>2, <1>3, SigningStays
<1>5. /\ renewals' \in [Panels -> AnyRenewal] /\ renewals'[p] = r
      /\ \A q \in Panels : q # p => renewals'[q] = renewals[q]
  BY <1>1 DEF StoreOK
<1>6. StoreOK'
  BY <1>1, <1>2, <1>3, <1>5 DEF StoreOK
<1>7. Renewing' = Renewing /\ p \notin Renewing /\ Dead' = Dead
  BY <1>1, <1>2, <1>5 DEF Renewing, Dead, history
<1>8. completions' = completions
  BY <1>2 DEF signing
<1>9. SignedAlone'
  <2>1. ASSUME NEW k \in Waiting, NEW q \in Panels
        PROVE  Family(completions[k].session.refresh) # Family(renewals'[q].loaded.refresh)
    BY <1>1, <1>5, SessionIs, TokenIs DEF TokensInv, SignedAlone
  <2>. QED
    BY <1>2, <1>4, <1>8, <2>1 DEF TokensInv, SignedAlone
<1>10. RenewedAlone'
  <2>1. \A q \in Renewing : renewals'[q] = renewals[q] /\ q \in Panels
    BY <1>5, <1>7 DEF Renewing
  <2>2. ASSUME rotates, NEW q \in Renewing, NEW o \in Panels
        PROVE  renewals[q].renewed.refresh # renewals'[o].loaded.refresh
    BY <1>1, <1>5, <2>2, SessionIs DEF TokensInv, RenewedAlone
  <2>. QED
    BY <1>2, <1>7, <2>1, <2>2 DEF TokensInv, RenewedAlone
<1>11. StoredUsable'
  <2>1. \A q \in Renewing : renewals'[q] = renewals[q]
    BY <1>5, <1>7 DEF Renewing
  <2>. QED
    BY <1>2, <1>7, <2>1 DEF TokensInv, StoredUsable
<1>12. LoadedUsable'
  <2>1. ASSUME NEW q \in Panels, q # p, renewals[q].step = "refresh",
               Family(renewals[q].loaded.refresh) \notin Dead
        PROVE  \/ renewals[q].loaded.refresh \in accepted
               \/ \E o \in Panels \ {q} : /\ renewals'[o].step # "load"
                                         /\ renewals'[o].loaded.refresh = renewals[q].loaded.refresh
    BY <1>2, <1>5, <2>1 DEF TokensInv, LoadedUsable
  <2>2. ASSUME r.step = "refresh", Family(r.loaded.refresh) \notin Dead
        PROVE  \/ r.loaded.refresh \in accepted
               \/ \E o \in Panels \ {p} : /\ renewals'[o].step # "load"
                                         /\ renewals'[o].loaded.refresh = r.loaded.refresh
    <3>1. r.loaded = stored /\ stored.refresh # NoToken
      BY <1>1, <2>2
    <3>2. \A o \in Renewing : o \in Panels \ {p} /\ renewals'[o] = renewals[o]
                              /\ renewals[o].step # "load"
      BY <1>5, <1>7 DEF Renewing
    <3>. QED
      BY <2>2, <3>1, <3>2 DEF TokensInv, StoredUsable
  <2>. QED
    BY <1>2, <1>5, <1>7, <2>1, <2>2 DEF LoadedUsable
<1>. QED
  BY <1>4, <1>6, <1>9, <1>10, <1>11, <1>12 DEF TokensInv

LEMMA UseStep ==
  ASSUME SignInInv, NEW p \in Panels, UseRestored(p)
  PROVE  SignInInv'
<1>. USE DEF SignInInv
<1>. DEFINE u == [[renewals[p] EXCEPT !.step = "idle"] EXCEPT !.renewed = NoSession]
<1>1. /\ renewals[p].step = "use"
      /\ renewals' = [renewals EXCEPT ![p].step = "idle", ![p].renewed = NoSession]
      /\ apiToken' \in BOOLEAN /\ UNCHANGED signing
      /\ UNCHANGED <<stored, rotates, sessions, redeemed, accepted, history>>
  BY DEF UseRestored, counters, provider, StoreOK
<1>2. renewals[p] \in AnyRenewal
  BY DEF StoreOK
<1>3. u \in AnyRenewal /\ u.step = "idle" /\ u.loaded = renewals[p].loaded /\ u.renewed = NoSession
  BY <1>2, SessionIs DEF AnyRenewal
<1>4. /\ renewals' \in [Panels -> AnyRenewal] /\ renewals'[p] = u
      /\ \A q \in Panels : q # p => renewals'[q] = renewals[q]
  BY <1>1, <1>3 DEF StoreOK
<1>. HIDE DEF u
<1>5. sessions' \in Nat /\ sessions' >= sessions /\ Issued' = Issued /\ NoSession \in Issued
      /\ Minted' = Minted
  BY <1>1, NoSessionIssued DEF StoreOK, Issued, Minted
<1>6. AttemptsOK' /\ CompletionsOK' /\ BoundToAttempt' /\ Waiting' = Waiting
  BY <1>1, <1>5, SigningStays
<1>7. \A q \in Panels : renewals'[q].loaded \in Issued' /\ renewals'[q].renewed \in Issued'
  BY <1>3, <1>4, <1>5 DEF StoreOK
<1>8. StoreOK'
  BY <1>1, <1>4, <1>5, <1>7 DEF StoreOK
<1>9. /\ Renewing' = Renewing /\ Dead' = Dead /\ completions' = completions
      /\ \A q \in Renewing : renewals'[q] = renewals[q]
      /\ \A q \in Panels : /\ renewals'[q].loaded = renewals[q].loaded
                           /\ renewals'[q].step = "refresh" <=> renewals[q].step = "refresh"
                           /\ renewals'[q].step = "load" <=> renewals[q].step = "load"
  BY <1>1, <1>3, <1>4 DEF Renewing, Dead, signing, history
<1>10. UNCHANGED <<stored, accepted, rotates>> /\ \A q \in Renewing : q \in Panels
  BY <1>1 DEF Renewing
<1>11. SignedAlone'
  BY <1>6, <1>9, <1>10 DEF TokensInv, SignedAlone
<1>12. RenewedAlone'
  BY <1>9, <1>10 DEF TokensInv, RenewedAlone
<1>13. LoadedUsable'
  BY <1>9, <1>10 DEF TokensInv, LoadedUsable
<1>14. StoredUsable'
  BY <1>9, <1>10 DEF TokensInv, StoredUsable
<1>. QED
  BY <1>6, <1>8, <1>11, <1>12, <1>13, <1>14 DEF TokensInv

\* What Refresh does to the provider: a token is accepted no longer only if it is the one
\* that was used, or its family is excused.
LEMMA ProviderStep ==
  ASSUME SignInInv, NEW p \in Panels, renewals[p].step = "refresh",
         NEW old, old = renewals[p].loaded.refresh,
         NEW next, next = IF rotates THEN <<Family(old), sessions + 1>> ELSE old,
         \/ Redeem(old, next) /\ (UNCHANGED history \/ (Lost(p) /\ UNCHANGED raced))
         \/ Revoke(p, old)
         \/ UNCHANGED <<sessions, accepted, history>>
  PROVE  /\ sessions' \in Nat /\ sessions' >= sessions /\ Issued \subseteq Issued'
         /\ accepted' \subseteq Minted' /\ Dead \subseteq Dead'
         /\ Family(next) = Family(old)
         /\ \A t \in accepted : Family(t) # Family(old) => t \in accepted'
         /\ \A t \in accepted : t \in accepted' \/ t = old \/ Family(t) \in Dead'
         /\ \A t \in accepted : ~rotates => t \in accepted'
<1>. USE DEF SignInInv
<1>1. /\ sessions \in Nat /\ old \in Minted /\ old \in AnyToken /\ Family(old) \in Nat
      /\ rotates \in BOOLEAN /\ accepted \subseteq Minted
  <2>1. sessions \in Nat /\ rotates \in BOOLEAN /\ accepted \subseteq Minted
    BY DEF StoreOK
  <2>2. old \in Minted
    BY IssuedMinted
  <2>. QED
    BY <2>1, <2>2, MintedOld
<1>2. next \in AnyToken /\ Family(next) = Family(old)
      /\ next[1] <= sessions + 1 /\ next[2] <= sessions + 1
  <2>1. CASE rotates
    <3>1. Family(old) <= sessions
      BY <1>1 DEF Minted, Family
    <3>. QED
      BY <1>1, <2>1, <3>1, TokenIs
  <2>2. CASE ~rotates
    <3>1. old[1] \in Nat /\ old[2] \in Nat /\ old[1] <= sessions /\ old[2] <= sessions
      BY <1>1 DEF Minted, AnyToken
    <3>. QED
      BY <1>1, <2>2, <3>1
  <2>. QED
    BY <1>1, <2>1, <2>2
<1>3. CASE Redeem(old, next) /\ (UNCHANGED history \/ (Lost(p) /\ UNCHANGED raced))
  <2>1. old \in accepted /\ sessions' = sessions + 1 /\ accepted' = (accepted \ {old}) \cup {next}
    BY <1>3 DEF Redeem
  <2>2. sessions' \in Nat /\ sessions' >= sessions
    BY <1>1, <2>1
  <2>3. Issued \subseteq Issued' /\ Minted \subseteq Minted'
    BY <1>1, <2>2, IssuedGrows
  <2>4. next \in Minted'
    BY <1>2, <2>1 DEF Minted
  <2>5. accepted' \subseteq Minted'
    BY <1>1, <2>1, <2>3, <2>4
  <2>6. Dead \subseteq Dead'
    BY <1>3 DEF Lost, Dead, history
  <2>7. ~rotates => next = old
    OBVIOUS
  <2>. QED
    BY <1>2, <2>1, <2>2, <2>3, <2>5, <2>6, <2>7
<1>4. CASE Revoke(p, old)
  <2>1. /\ rotates /\ old \notin accepted /\ UNCHANGED <<sessions, lost>>
        /\ accepted' = {t \in accepted : Family(t) # Family(old)}
        /\ raced' = IF \E q \in Panels \ {p} : renewals[q].loaded.refresh = old
                    THEN raced \cup {Family(old)} ELSE raced
    BY <1>4 DEF Revoke
  <2>2. Minted' = Minted /\ Issued' = Issued
    BY <2>1 DEF Minted, Issued
  <2>3. Dead \subseteq Dead'
    BY <2>1 DEF Dead
  <2>4. Family(old) \in Dead'
    <3>1. CASE Family(old) \in Dead
      BY <2>3, <3>1
    <3>2. CASE Family(old) \notin Dead
      <4>1. \E q \in Panels \ {p} : renewals[q].loaded.refresh = old
        BY <2>1, <3>2 DEF TokensInv, LoadedUsable
      <4>. QED
        BY <2>1, <4>1 DEF Dead
    <3>. QED
      BY <3>1, <3>2
  <2>5. \A t \in accepted : t \in accepted' \/ Family(t) = Family(old)
    BY <2>1
  <2>. QED
    BY <1>1, <1>2, <2>1, <2>2, <2>3, <2>4, <2>5
<1>5. CASE UNCHANGED <<sessions, accepted, history>>
  <2>1. Minted' = Minted /\ Issued' = Issued /\ Dead' = Dead
    BY <1>5 DEF Minted, Issued, Dead, history
  <2>. QED
    BY <1>1, <1>2, <1>5, <2>1
<1>. QED
  BY <1>3, <1>4, <1>5

LEMMA RefreshStep ==
  ASSUME SignInInv, NEW p \in Panels, Refresh(p)
  PROVE  SignInInv'
<1>. USE DEF SignInInv
<1>. DEFINE old == renewals[p].loaded.refresh
            next == IF rotates THEN <<Family(old), sessions + 1>> ELSE old
            r == [[renewals[p] EXCEPT !.step = "exchange"]
                    EXCEPT !.renewed = Session(sessions + 1, next)]
            u == [renewals[p] EXCEPT !.step = "use"]
<1>1. /\ renewals[p].step = "refresh"
      /\ \/ /\ Redeem(old, next) /\ UNCHANGED history
            /\ renewals' = [renewals EXCEPT ![p].step = "exchange",
                                            ![p].renewed = Session(sessions + 1, next)]
         \/ /\ renewals' = [renewals EXCEPT ![p].step = "use"]
            /\ \/ Redeem(old, next) /\ Lost(p) /\ UNCHANGED raced
               \/ Revoke(p, old)
               \/ UNCHANGED <<sessions, accepted, history>>
      /\ UNCHANGED <<signing, stored, apiToken, redeemed, rotates>>
  BY DEF Refresh, counters
<1>2. /\ sessions' \in Nat /\ sessions' >= sessions /\ Issued \subseteq Issued'
      /\ accepted' \subseteq Minted' /\ Dead \subseteq Dead' /\ Family(next) = Family(old)
      /\ \A t \in accepted : Family(t) # Family(old) => t \in accepted'
      /\ \A t \in accepted : t \in accepted' \/ t = old \/ Family(t) \in Dead'
      /\ \A t \in accepted : ~rotates => t \in accepted'
  <2>1. next = IF rotates THEN <<Family(old), sessions + 1>> ELSE old
    OBVIOUS
  <2>. HIDE DEF next, r, u
  <2>2. \/ Redeem(old, next) /\ (UNCHANGED history \/ (Lost(p) /\ UNCHANGED raced))
        \/ Revoke(p, old)
        \/ UNCHANGED <<sessions, accepted, history>>
    BY <1>1, ZenonT(30)
  <2>3. renewals[p].step = "refresh"
    BY <1>1
  <2>. QED
    BY <2>1, <2>2, <2>3, ProviderStep
<1>3. /\ sessions \in Nat /\ renewals[p] \in AnyRenewal /\ old \in Minted /\ old \in AnyToken
      /\ Family(old) \in Nat /\ rotates \in BOOLEAN
  <2>1. sessions \in Nat /\ renewals[p] \in AnyRenewal /\ rotates \in BOOLEAN
    BY DEF StoreOK
  <2>2. old \in Minted
    BY IssuedMinted
  <2>. QED
    BY <2>1, <2>2, MintedOld
<1>4. /\ rotates => next = <<Family(old), sessions + 1>>
      /\ ~rotates => next = old
      /\ next \in AnyToken
  BY <1>3, TokenIs
<1>5. /\ Session(sessions + 1, next) \in AnySession
      /\ Session(sessions + 1, next).id = sessions + 1
      /\ Session(sessions + 1, next).refresh = next
  BY <1>3, <1>4, SessionIs
<1>6. /\ r \in AnyRenewal /\ r.step = "exchange" /\ r.loaded = renewals[p].loaded
      /\ r.renewed = Session(sessions + 1, next)
      /\ u \in AnyRenewal /\ u.step = "use" /\ u.loaded = renewals[p].loaded
      /\ u.renewed = renewals[p].renewed
  BY <1>3, <1>5 DEF AnyRenewal
<1>7. /\ renewals' \in [Panels -> AnyRenewal]
      /\ \/ renewals'[p] = r /\ Redeem(old, next)
         \/ renewals'[p] = u /\ ((Redeem(old, next) /\ Lost(p)) \/ Revoke(p, old)
                                  \/ accepted' = accepted)
      /\ \A q \in Panels : q # p => renewals'[q] = renewals[q]
  BY <1>1, <1>6 DEF StoreOK
<1>. HIDE DEF r, u, next
<1>8. AttemptsOK' /\ CompletionsOK' /\ BoundToAttempt' /\ Waiting' = Waiting
  BY <1>1, <1>2, SigningStays
<1>9. p \notin Renewing /\ completions' = completions
  BY <1>1 DEF Renewing, signing
<1>10. /\ \A q \in Panels : renewals'[q].loaded = renewals[q].loaded
       /\ \A q \in Renewing : q \in Renewing' /\ q # p /\ renewals'[q] = renewals[q]
       /\ \A q \in Renewing' : (q = p /\ renewals'[p] = r) \/ q \in Renewing
       /\ renewals'[p] = r => p \in Renewing'
       /\ renewals'[p].step \notin {"refresh", "load"}
  BY <1>6, <1>7, <1>9 DEF Renewing
<1>11. StoreOK'
  <2>1. renewals'[p] = r => Session(sessions + 1, next) \in Issued'
    <3>1. ASSUME Redeem(old, next) PROVE sessions' = sessions + 1 /\ next \in accepted'
      BY <3>1 DEF Redeem
    <3>2. ASSUME Redeem(old, next) PROVE Session(sessions + 1, next) \in Issued'
      BY <1>2, <1>3, <1>5, <3>1, <3>2 DEF Issued
    <3>. QED
      BY <1>6, <1>7, <3>2
  <2>2. \A q \in Panels : renewals'[q].loaded \in Issued' /\ renewals'[q].renewed \in Issued'
    BY <1>2, <1>6, <1>7, <2>1 DEF StoreOK
  <2>3. stored' \in Issued'
    BY <1>1, <1>2 DEF StoreOK
  <2>. QED
    BY <1>1, <1>2, <1>7, <2>2, <2>3 DEF StoreOK
<1>12. SignedAlone'
  <2>1. \A k \in Waiting : completions[k].session.refresh \in accepted'
    BY <1>2 DEF TokensInv, SignedAlone
  <2>. QED
    BY <1>1, <1>8, <1>9, <1>10, <2>1 DEF TokensInv, SignedAlone
<1>13. RenewedAlone'
  <2>1. ASSUME renewals'[p] = r
        PROVE  /\ renewals'[p].renewed.refresh = next /\ next \in accepted'
               /\ rotates =>
                    /\ next \notin {NoToken, stored.refresh}
                    /\ \A q \in Panels : /\ next # renewals[q].loaded.refresh
                                         /\ next # renewals[q].renewed.refresh
    <3>1. Redeem(old, next)
      <4>1. r # u
        BY <1>6
      <4>. QED
        BY <1>7, <2>1, <4>1
    <3>2. next \in accepted' /\ renewals'[p].renewed.refresh = next
      BY <1>5, <1>6, <2>1, <3>1 DEF Redeem
    <3>3. rotates => \A t \in Minted : next # t
      BY <1>3, <1>4, MintedOld
    <3>4. NoToken \in Minted
      BY <1>3, NoSessionIssued, IssuedMinted, SessionIs
    <3>. QED
      BY <3>2, <3>3, <3>4, IssuedMinted
  <2>2. ASSUME NEW q \in Renewing
        PROVE  /\ renewals[q].renewed.refresh \notin {old, next} \/ ~rotates \/ renewals'[p] # r
               /\ Family(renewals[q].renewed.refresh) \notin Dead'
                    => renewals[q].renewed.refresh \in accepted'
    <3>1. q \in Panels
      BY <2>2 DEF Renewing
    <3>2. rotates => renewals[q].renewed.refresh # old
      BY <2>2 DEF TokensInv, RenewedAlone
    <3>3. Family(renewals[q].renewed.refresh) \notin Dead' => renewals[q].renewed.refresh \in accepted
      BY <1>2, <2>2 DEF TokensInv, RenewedAlone
    <3>4. Family(renewals[q].renewed.refresh) \notin Dead' => renewals[q].renewed.refresh \in accepted'
      BY <1>2, <1>3, <3>2, <3>3
    <3>. QED
      BY <2>1, <3>1, <3>2, <3>4
  <2>. SUFFICES ASSUME NEW q \in Renewing'
                PROVE  /\ Family(renewals'[q].renewed.refresh) = Family(renewals'[q].loaded.refresh)
                       /\ Family(renewals'[q].renewed.refresh) \notin Dead'
                            => renewals'[q].renewed.refresh \in accepted'
                       /\ ~rotates => renewals'[q].renewed.refresh = renewals'[q].loaded.refresh
                       /\ rotates =>
                            /\ renewals'[q].renewed.refresh \notin {NoToken, stored.refresh}
                            /\ \A o \in Panels :
                                 renewals'[q].renewed.refresh # renewals'[o].loaded.refresh
                            /\ \A o \in Renewing' : o # q =>
                                 renewals'[q].renewed.refresh # renewals'[o].renewed.refresh
    BY <1>1 DEF RenewedAlone
  <2>3. CASE q = p /\ renewals'[p] = r
    <3>1. \A o \in Renewing' : o # p => o \in Panels /\ renewals'[o] = renewals[o]
      BY <1>10 DEF Renewing
    <3>2. Family(next) = Family(renewals'[p].loaded.refresh)
          /\ (~rotates => next = renewals'[p].loaded.refresh)
      BY <1>2, <1>4, <1>10
    <3>. QED
      BY <1>10, <2>1, <2>3, <3>1, <3>2
  <2>4. CASE q \in Renewing
    <3>1. renewals'[q] = renewals[q] /\ q \in Panels /\ q # p
      BY <1>10, <2>4 DEF Renewing
    <3>2. /\ Family(renewals[q].renewed.refresh) = Family(renewals[q].loaded.refresh)
          /\ ~rotates => renewals[q].renewed.refresh = renewals[q].loaded.refresh
          /\ rotates => /\ renewals[q].renewed.refresh \notin {NoToken, stored.refresh}
                        /\ \A o \in Panels : renewals[q].renewed.refresh # renewals[o].loaded.refresh
                        /\ \A o \in Renewing : o # q =>
                             renewals[q].renewed.refresh # renewals[o].renewed.refresh
      BY <2>4 DEF TokensInv, RenewedAlone
    <3>3. ASSUME rotates, NEW o \in Renewing', o # q
          PROVE  renewals[q].renewed.refresh # renewals'[o].renewed.refresh
      <4>1. CASE o = p /\ renewals'[p] = r
        BY <2>1, <3>1, <3>3, <4>1
      <4>2. CASE o \in Renewing
        BY <1>10, <3>2, <3>3, <4>2
      <4>. QED
        BY <1>10, <3>3, <4>1, <4>2
    <3>. QED
      BY <1>10, <2>2, <2>4, <3>1, <3>2, <3>3
  <2>. QED
    BY <1>10, <2>3, <2>4
<1>14. LoadedUsable'
  <2>. SUFFICES ASSUME NEW q \in Panels, renewals'[q].step = "refresh",
                       Family(renewals'[q].loaded.refresh) \notin Dead'
                PROVE  \/ renewals'[q].loaded.refresh \in accepted'
                       \/ \E o \in Panels \ {q} :
                            /\ renewals'[o].step # "load"
                            /\ renewals'[o].loaded.refresh = renewals'[q].loaded.refresh
    BY DEF LoadedUsable
  <2>1. q # p /\ renewals'[q] = renewals[q] /\ Family(renewals[q].loaded.refresh) \notin Dead
    BY <1>2, <1>7, <1>10
  <2>2. CASE renewals[q].loaded.refresh \in accepted
    <3>1. renewals[q].loaded.refresh \in accepted' \/ renewals[q].loaded.refresh = old
      BY <1>2, <2>1, <2>2
    <3>. QED
      BY <1>10, <2>1, <3>1
  <2>3. ASSUME NEW o \in Panels \ {q}, renewals[o].step # "load",
               renewals[o].loaded.refresh = renewals[q].loaded.refresh
        PROVE  /\ renewals'[o].step # "load"
               /\ renewals'[o].loaded.refresh = renewals'[q].loaded.refresh
    BY <1>7, <1>10, <2>3
  <2>. QED
    BY <2>1, <2>2, <2>3 DEF TokensInv, LoadedUsable
<1>15. StoredUsable'
  <2>. SUFFICES ASSUME stored.refresh # NoToken, Family(stored.refresh) \notin Dead'
                PROVE  \/ stored.refresh \in accepted'
                       \/ \E q \in Renewing' : renewals'[q].loaded.refresh = stored.refresh
    BY <1>1 DEF StoredUsable
  <2>1. ASSUME stored.refresh \in accepted, stored.refresh \notin accepted'
        PROVE  p \in Renewing' /\ renewals'[p].loaded.refresh = stored.refresh
    <3>1. stored.refresh = old /\ rotates
      BY <1>2, <1>3, <2>1
    <3>2. ~(accepted' = accepted) /\ ~Revoke(p, old)
      BY <2>1, <3>1 DEF Revoke
    <3>3. ~Lost(p)
      BY <3>1 DEF Lost, Dead
    <3>. QED
      BY <1>7, <1>10, <3>1, <3>2, <3>3
  <2>2. ASSUME NEW q \in Renewing, renewals[q].loaded.refresh = stored.refresh
        PROVE  q \in Renewing' /\ renewals'[q].loaded.refresh = stored.refresh
    BY <1>10, <2>2
  <2>. QED
    BY <1>2, <2>1, <2>2 DEF TokensInv, StoredUsable
<1>. QED
  BY <1>8, <1>11, <1>12, <1>13, <1>14, <1>15 DEF TokensInv

\* The stored token is usable when renewals that are given up are excused.
LEMMA StoredAfter ==
  ASSUME SignInInv, UNCHANGED <<stored, accepted, rotates>>, Dead \subseteq Dead',
         \A q \in Renewing :
           \/ q \in Renewing' /\ renewals'[q].loaded = renewals[q].loaded
           \/ rotates => Family(renewals[q].loaded.refresh) \in Dead'
  PROVE  StoredUsable'
<1>. USE DEF SignInInv
<1>. SUFFICES ASSUME stored.refresh # NoToken, Family(stored.refresh) \notin Dead',
                     stored.refresh \notin accepted
              PROVE  \E q \in Renewing' : renewals'[q].loaded.refresh = stored.refresh
  BY DEF StoredUsable
<1>1. PICK q \in Renewing : renewals[q].loaded.refresh = stored.refresh
  BY DEF TokensInv, StoredUsable
<1>2. CASE q \in Renewing' /\ renewals'[q].loaded = renewals[q].loaded
  BY <1>1, <1>2
<1>3. CASE rotates => Family(renewals[q].loaded.refresh) \in Dead'
  <2>1. rotates \in BOOLEAN /\ ~rotates
    BY <1>1, <1>3 DEF StoreOK
  <2>2. renewals[q].renewed.refresh = stored.refresh /\ Family(stored.refresh) \notin Dead
    BY <1>1, <2>1 DEF TokensInv, RenewedAlone
  <2>. QED
    BY <1>1, <2>2 DEF TokensInv, RenewedAlone
<1>. QED
  BY <1>1, <1>2, <1>3

LEMMA ExchangeRenewedStep ==
  ASSUME SignInInv, NEW p \in Panels, ExchangeRenewed(p)
  PROVE  SignInInv'
<1>. USE DEF SignInInv
<1>. DEFINE s == [renewals[p] EXCEPT !.step = "save"]
            u == [[renewals[p] EXCEPT !.step = "use"] EXCEPT !.renewed = NoSession]
<1>1. /\ renewals[p].step = "exchange"
      /\ \/ renewals' = [renewals EXCEPT ![p].step = "save"] /\ lost' = lost
         \/ /\ renewals' = [renewals EXCEPT ![p].step = "use", ![p].renewed = NoSession]
            /\ Lost(p)
      /\ UNCHANGED <<signing, stored, apiToken, sessions, redeemed, accepted, raced, rotates>>
  BY DEF ExchangeRenewed, counters
<1>2. renewals[p] \in AnyRenewal
  BY DEF StoreOK
<1>3. /\ s \in AnyRenewal /\ s.step = "save" /\ s.loaded = renewals[p].loaded
      /\ s.renewed = renewals[p].renewed
      /\ u \in AnyRenewal /\ u.step = "use" /\ u.loaded = renewals[p].loaded
      /\ u.renewed = NoSession
  BY <1>2, SessionIs DEF AnyRenewal
<1>4. /\ renewals' \in [Panels -> AnyRenewal]
      /\ \/ renewals'[p] = s /\ lost' = lost
         \/ renewals'[p] = u /\ Lost(p)
      /\ \A q \in Panels : q # p => renewals'[q] = renewals[q]
  BY <1>1, <1>3 DEF StoreOK
<1>. HIDE DEF s, u
<1>5. sessions' \in Nat /\ sessions' >= sessions /\ Issued' = Issued /\ NoSession \in Issued
      /\ Minted' = Minted
  BY <1>1, NoSessionIssued DEF StoreOK, Issued, Minted
<1>6. AttemptsOK' /\ CompletionsOK' /\ BoundToAttempt' /\ Waiting' = Waiting
  BY <1>1, <1>5, SigningStays
<1>7. \A q \in Panels : renewals'[q].loaded \in Issued' /\ renewals'[q].renewed \in Issued'
  BY <1>3, <1>4, <1>5 DEF StoreOK
<1>8. StoreOK'
  BY <1>1, <1>4, <1>5, <1>7 DEF StoreOK
<1>9. /\ \A q \in Panels : /\ renewals'[q].loaded = renewals[q].loaded
                           /\ renewals'[q].step = "refresh" <=> renewals[q].step = "refresh"
                           /\ renewals'[q].step = "load" <=> renewals[q].step = "load"
      /\ \A q \in Renewing' : q \in Renewing /\ renewals'[q].renewed = renewals[q].renewed
      /\ \A q \in Renewing : q \in Renewing' \/ (q = p /\ Lost(p))
      /\ p \in Renewing
  <2>1. p \in Renewing /\ renewals[p].step = "exchange"
    BY <1>1 DEF Renewing
  <2>2. CASE renewals'[p] = s
    <3>1. /\ renewals'[p].loaded = renewals[p].loaded
          /\ renewals'[p].renewed = renewals[p].renewed
          /\ renewals'[p].step = "save" /\ renewals[p].step = "exchange"
      BY <1>3, <2>1, <2>2
    <3>2. \A q \in Panels \ {p} : renewals'[q] = renewals[q]
      BY <1>4
    <3>3. \A q \in Panels : /\ renewals'[q].loaded = renewals[q].loaded
                            /\ renewals'[q].renewed = renewals[q].renewed
      BY <3>1, <3>2
    <3>4. \A q \in Panels : /\ renewals'[q].step = "refresh" <=> renewals[q].step = "refresh"
                            /\ renewals'[q].step = "load" <=> renewals[q].step = "load"
      BY <3>1, <3>2
    <3>5. Renewing' = Renewing
      <4>1. p \in Renewing /\ p \in Renewing'
        BY <3>1 DEF Renewing
      <4>2. \A q \in Panels \ {p} : q \in Renewing' <=> q \in Renewing
        BY <3>2 DEF Renewing
      <4>3. Renewing \subseteq Panels /\ Renewing' \subseteq Panels
        BY DEF Renewing
      <4>. QED
        BY <4>1, <4>2, <4>3
    <3>6. \A q \in Renewing' : q \in Renewing /\ renewals'[q].renewed = renewals[q].renewed
      BY <3>3, <3>5 DEF Renewing
    <3>7. \A q \in Renewing : q \in Renewing'
      BY <3>5
    <3>8. p \in Renewing
      BY <2>1
    <3>9. \A q \in Panels : /\ renewals'[q].loaded = renewals[q].loaded
                            /\ renewals'[q].step = "refresh" <=> renewals[q].step = "refresh"
                            /\ renewals'[q].step = "load" <=> renewals[q].step = "load"
      BY <3>3, <3>4
    <3>. QED
      BY <3>6, <3>7, <3>8, <3>9
  <2>3. CASE renewals'[p] = u /\ Lost(p)
    BY <1>3, <1>4, <2>1, <2>3 DEF Renewing
  <2>. QED
    BY <1>4, <2>2, <2>3
<1>10. completions' = completions /\ Dead \subseteq Dead'
  BY <1>1 DEF signing, Dead, Lost
<1>11. SignedAlone'
  BY <1>1, <1>6, <1>9, <1>10 DEF TokensInv, SignedAlone
<1>12. RenewedAlone'
  BY <1>1, <1>9, <1>10 DEF TokensInv, RenewedAlone, Renewing
<1>13. LoadedUsable'
  BY <1>1, <1>9, <1>10 DEF TokensInv, LoadedUsable
<1>14. StoredUsable'
  <2>1. Lost(p) /\ rotates => Family(renewals[p].loaded.refresh) \in Dead'
    BY DEF Lost, Dead
  <2>. QED
    BY <1>1, <1>9, <1>10, <2>1, StoredAfter DEF Renewing
<1>. QED
  BY <1>6, <1>8, <1>11, <1>12, <1>13, <1>14 DEF TokensInv

LEMMA SaveRenewedStep ==
  ASSUME SignInInv, NEW p \in Panels, SaveRenewed(p)
  PROVE  SignInInv'
<1>. USE DEF SignInInv
<1>. DEFINE u == [renewals[p] EXCEPT !.step = "use"]
<1>1. /\ renewals[p].step = "save"
      /\ renewals' = [renewals EXCEPT ![p].step = "use"]
      /\ \/ stored' = renewals[p].renewed /\ lost' = lost
         \/ Lost(p) /\ stored' = stored
      /\ UNCHANGED <<signing, apiToken, sessions, redeemed, accepted, raced, rotates>>
  BY DEF SaveRenewed, Renewed, counters
<1>2. renewals[p] \in AnyRenewal
  BY DEF StoreOK
<1>3. /\ u \in AnyRenewal /\ u.step = "use" /\ u.loaded = renewals[p].loaded
      /\ u.renewed = renewals[p].renewed
  BY <1>2 DEF AnyRenewal
<1>4. /\ renewals' \in [Panels -> AnyRenewal] /\ renewals'[p] = u
      /\ \A q \in Panels : q # p => renewals'[q] = renewals[q]
  BY <1>1, <1>3 DEF StoreOK
<1>. HIDE DEF u
<1>5. sessions' \in Nat /\ sessions' >= sessions /\ Issued' = Issued /\ Minted' = Minted
  BY <1>1 DEF StoreOK, Issued, Minted
<1>6. AttemptsOK' /\ CompletionsOK' /\ BoundToAttempt' /\ Waiting' = Waiting
  BY <1>1, <1>5, SigningStays
<1>7. StoreOK'
  <2>1. stored' \in Issued
    BY <1>1 DEF StoreOK
  <2>2. \A q \in Panels : renewals'[q].loaded \in Issued /\ renewals'[q].renewed \in Issued
    BY <1>3, <1>4 DEF StoreOK
  <2>. QED
    BY <1>1, <1>4, <1>5, <2>1, <2>2 DEF StoreOK
<1>8. completions' = completions /\ Dead \subseteq Dead'
  BY <1>1 DEF signing, Dead, Lost
<1>9. /\ \A q \in Panels : /\ renewals'[q].loaded = renewals[q].loaded
                           /\ renewals'[q].step = "refresh" <=> renewals[q].step = "refresh"
                           /\ renewals'[q].step = "load" <=> renewals[q].step = "load"
      /\ \A q \in Renewing' : q \in Renewing /\ q # p /\ renewals'[q] = renewals[q]
      /\ \A q \in Renewing : q \in Renewing' \/ q = p
      /\ p \in Renewing
  BY <1>1, <1>3, <1>4 DEF Renewing
<1>10. SignedAlone'
  <2>1. \A k \in Waiting :
          Family(completions[k].session.refresh) # Family(renewals[p].renewed.refresh)
    BY <1>9 DEF TokensInv, SignedAlone, RenewedAlone
  <2>. QED
    BY <1>1, <1>6, <1>8, <1>9, <2>1 DEF TokensInv, SignedAlone
<1>11. RenewedAlone'
  <2>1. ASSUME rotates, NEW q \in Renewing'
        PROVE  renewals[q].renewed.refresh # stored'.refresh
    BY <1>1, <1>9, <2>1 DEF TokensInv, RenewedAlone
  <2>. QED
    BY <1>1, <1>8, <1>9, <2>1 DEF TokensInv, RenewedAlone
<1>12. LoadedUsable'
  BY <1>1, <1>8, <1>9 DEF TokensInv, LoadedUsable
<1>13. StoredUsable'
  <2>1. CASE stored' = renewals[p].renewed
    BY <1>1, <1>8, <1>9, <2>1 DEF TokensInv, RenewedAlone, StoredUsable
  <2>2. CASE Lost(p) /\ stored' = stored
    <3>1. rotates => Family(renewals[p].loaded.refresh) \in Dead'
      BY <2>2 DEF Lost, Dead
    <3>. QED
      BY <1>1, <1>8, <1>9, <2>2, <3>1, StoredAfter DEF Renewing
  <2>. QED
    BY <1>1, <2>1, <2>2
<1>. QED
  BY <1>6, <1>7, <1>10, <1>11, <1>12, <1>13 DEF TokensInv

-----------------------------------------------------------------------------
(* Development tokens, signing out, and a restart *)

LEMMA TokenStep ==
  ASSUME SignInInv, ClearReviewToken \/ \E p \in Panels : RequestDevToken(p)
  PROVE  SignInInv'
<1>. USE DEF SignInInv
<1>1. /\ stored' \in {stored, NoSession, Session(sessions + 1, NoToken)}
      /\ \/ sessions' = sessions /\ stored' \in {stored, NoSession}
         \/ sessions' = sessions + 1
      /\ apiToken' \in BOOLEAN
      /\ UNCHANGED <<signing, renewals, rotates, redeemed, accepted, history>>
  BY DEF ClearReviewToken, RequestDevToken, counters, provider, StoreOK
<1>2. sessions \in Nat /\ sessions' \in Nat /\ sessions' >= sessions /\ sessions + 1 \in Nat
  BY <1>1 DEF StoreOK
<1>3. AttemptsOK' /\ CompletionsOK' /\ BoundToAttempt' /\ Waiting' = Waiting
  BY <1>1, <1>2, SigningStays
<1>4. Issued \subseteq Issued' /\ Minted \subseteq Minted'
  BY <1>2, IssuedGrows
<1>5. stored' \in Issued' /\ stored'.refresh \in {NoToken, stored.refresh}
  <2>1. /\ Session(sessions + 1, NoToken) \in AnySession
        /\ Session(sessions + 1, NoToken).id = sessions + 1
        /\ Session(sessions + 1, NoToken).refresh = NoToken /\ NoSession.refresh = NoToken
    BY <1>2, SessionIs, TokenIs
  <2>2. NoSession \in Issued' /\ NoToken \in Minted'
    BY <1>2, <1>4, NoSessionIssued, SessionIs DEF Issued
  <2>3. sessions' = sessions + 1 => Session(sessions + 1, NoToken) \in Issued'
    BY <1>2, <2>1, <2>2 DEF Issued
  <2>4. stored \in Issued'
    BY <1>4 DEF StoreOK
  <2>. QED
    BY <1>1, <1>2, <2>1, <2>2, <2>3, <2>4
<1>6. StoreOK'
  BY <1>1, <1>2, <1>4, <1>5 DEF StoreOK
<1>7. completions' = completions /\ Renewing' = Renewing /\ Dead' = Dead
  BY <1>1 DEF signing, Renewing, Dead, history
<1>8. SignedAlone'
  BY <1>1, <1>3, <1>5, <1>7, TokenIs DEF TokensInv, SignedAlone
<1>9. RenewedAlone'
  BY <1>1, <1>5, <1>7 DEF TokensInv, RenewedAlone
<1>10. LoadedUsable' /\ StoredUsable'
  BY <1>1, <1>5, <1>7 DEF TokensInv, LoadedUsable, StoredUsable
<1>. QED
  BY <1>3, <1>6, <1>8, <1>9, <1>10 DEF TokensInv

LEMMA RestartStep ==
  ASSUME SignInInv, Restart
  PROVE  SignInInv'
<1>. USE DEF SignInInv
<1>1. /\ waits' = [a \in Attempts |-> "nothing"] /\ listener' = 0 /\ silent' = FALSE
      /\ pendingAuth' = 0
      /\ completions' = [k \in 1..Len(completions) |-> Over]
      /\ renewals' = [p \in Panels |-> Renewal("load", NoSession, NoSession)]
      /\ apiToken' = FALSE
      /\ lost' = lost \cup {Family(renewals[p].loaded.refresh) :
                            p \in {q \in Panels : rotates /\ renewals[q].step \in {"exchange", "save"}}}
      /\ UNCHANGED <<begun, browser, stored, rotates, sessions, redeemed, accepted, raced>>
  BY DEF Restart
<1>2. Over \in AnyCompletion /\ Over.step = "over" /\ Over.session = NoSession
  BY SessionIs, SignInAssumption DEF AnyCompletion, Over
<1>3. Issued' = Issued /\ Minted' = Minted /\ NoSession \in Issued
  BY <1>1, NoSessionIssued DEF StoreOK, Issued, Minted
<1>4. AttemptsOK' /\ BoundToAttempt'
  <2>1. 0 \in 0..begun
    BY SignInAssumption DEF AttemptsOK
  <2>. QED
    BY <1>1, <2>1 DEF AttemptsOK, BoundToAttempt
<1>5. /\ completions' \in Seq(AnyCompletion) /\ Len(completions') = Len(completions)
      /\ \A k \in 1..Len(completions') : completions'[k] = Over
  <2>1. Len(completions) \in Nat
    BY DEF CompletionsOK
  <2>. HIDE DEF SignInInv
  <2>. QED
    BY <1>1, <1>2, <2>1
<1>6. CompletionsOK' /\ Waiting' = {}
  BY <1>2, <1>3, <1>5 DEF CompletionsOK, Waiting
<1>7. /\ Renewal("load", NoSession, NoSession) \in AnyRenewal
      /\ Renewal("load", NoSession, NoSession).step = "load"
      /\ Renewal("load", NoSession, NoSession).loaded = NoSession
      /\ Renewal("load", NoSession, NoSession).renewed = NoSession
  BY SessionIs DEF Renewal, AnyRenewal
<1>8. /\ renewals' \in [Panels -> AnyRenewal]
      /\ \A p \in Panels : /\ renewals'[p].loaded = NoSession /\ renewals'[p].renewed = NoSession
                           /\ renewals'[p].step = "load"
  BY <1>1, <1>7
<1>9. StoreOK'
  BY <1>1, <1>3, <1>8 DEF StoreOK
<1>10. Renewing' = {}
  BY <1>8 DEF Renewing
<1>11. Dead \subseteq Dead'
       /\ \A q \in Renewing : rotates => Family(renewals[q].loaded.refresh) \in Dead'
  BY <1>1 DEF Dead, Renewing
<1>12. StoredUsable'
  BY <1>1, <1>11, StoredAfter
<1>13. SignedAlone' /\ RenewedAlone' /\ LoadedUsable'
  BY <1>6, <1>8, <1>10 DEF SignedAlone, RenewedAlone, LoadedUsable
<1>. QED
  BY <1>4, <1>6, <1>9, <1>12, <1>13 DEF TokensInv

-----------------------------------------------------------------------------
(* The sign-in holds *)

LEMMA SignInStart == ASSUME SignInInit PROVE SignInInv
<1>1. AttemptsOK
  <2>1. begun = 0 /\ 0 \in 0..begun /\ 0 \in 0..MaxAttempts
    BY SignInAssumption DEF SignInInit
  <2>. QED
    BY <2>1 DEF SignInInit, AttemptsOK
<1>2. NoSession \in Issued /\ NoSession \in AnySession /\ NoSession.refresh = NoToken
  <2>1. sessions \in Nat
    BY DEF SignInInit
  <2>. QED
    BY <2>1, NoSessionIssued, SessionIs
<1>3. CompletionsOK
  BY SignInAssumption DEF SignInInit, CompletionsOK
<1>4. AtRest \in AnyRenewal /\ AtRest.loaded = NoSession /\ AtRest.renewed = NoSession
      /\ AtRest.step = "idle"
  BY <1>2 DEF AtRest, Renewal, AnyRenewal
<1>5. StoreOK
  BY <1>2, <1>4 DEF SignInInit, StoreOK
<1>6. Waiting = {} /\ Renewing = {}
  BY <1>4 DEF SignInInit, Waiting, Renewing
<1>7. SignedAlone /\ RenewedAlone /\ BoundToAttempt
  BY <1>6 DEF SignInInit, SignedAlone, RenewedAlone, BoundToAttempt
<1>8. LoadedUsable /\ StoredUsable
  BY <1>2, <1>4 DEF SignInInit, LoadedUsable, StoredUsable
<1>. QED
  BY <1>1, <1>3, <1>5, <1>7, <1>8 DEF SignInInv, TokensInv

LEMMA SignInStep == ASSUME SignInInv, [SignInNext]_signInVars PROVE SignInInv'
<1>1. CASE \/ StartHostedSignIn \/ Expire \/ OtherConnection
           \/ \E a \in Attempts :
                OpenHostedAuthBrowser(a) \/ SignInFails(a) \/ Redirect(a) \/ CompleteHostedSignIn(a)
  BY <1>1, AttemptStep
<1>2. ASSUME NEW k \in 1..MaxCompletions, Complete(k)
      PROVE  SignInInv'
  BY <1>2, ExchangeStep, SaveSignInStep, FinishStep DEF Complete
<1>3. ASSUME NEW p \in Panels, Restore(p)
      PROVE  SignInInv'
  BY <1>3, LoadStep, UseStep, RefreshStep, ExchangeRenewedStep, SaveRenewedStep DEF Restore
<1>4. CASE ClearReviewToken \/ \E p \in Panels : RequestDevToken(p)
  BY <1>4, TokenStep
<1>5. CASE Restart
  BY <1>5, RestartStep
<1>6. CASE UNCHANGED signInVars
  <2>1. /\ UNCHANGED <<begun, waits, listener, silent, pendingAuth, browser, completions>>
        /\ UNCHANGED <<renewals, stored, apiToken, rotates, sessions, redeemed, accepted, history>>
    BY <1>6 DEF signInVars, port
  <2>2. /\ Issued' = Issued /\ Minted' = Minted /\ Waiting' = Waiting
    BY <2>1 DEF Issued, Minted, Waiting
  <2>3. TokensInv'
    BY <2>1, <2>2, TokensStay
  <2>. QED
    BY <2>1, <2>2, <2>3 DEF SignInInv, AttemptsOK, CompletionsOK, StoreOK, BoundToAttempt
<1>. QED
  BY <1>1, <1>2, <1>3, <1>4, <1>5, <1>6 DEF SignInNext

LEMMA SignInInvariant == SignInSpec => []SignInInv
BY SignInStart, SignInStep, PTL DEF SignInSpec

LEMMA SignInTyped == ASSUME SignInInv PROVE SignInTypeOK
<1>1. \A p \in Panels :
        renewals[p].step \in {"idle", "load", "refresh", "exchange", "save", "use"}
  BY DEF SignInInv, StoreOK, AnyRenewal
<1>2. stored.id \in 0..sessions
  BY DEF SignInInv, StoreOK, Issued, AnySession
<1>. QED
  BY <1>1, <1>2 DEF SignInInv, AttemptsOK, CompletionsOK, StoreOK, SignInTypeOK

\* Every variable of the sign-in stays in its range, and only a listener that has the port
\* is kept by a connection that sends nothing.
THEOREM SignInTypeCorrect == SignInSpec => []SignInTypeOK
BY SignInInvariant, SignInTyped, PTL

\* completeHostedSignInWithCallback: a code is only sent to the provider with the verifier
\* of its own attempt, whichever URL the user pastes and however late the browser answers.
THEOREM BoundToAttemptHolds == SignInSpec => []BoundToAttempt
<1>1. SignInInv => BoundToAttempt
  BY DEF SignInInv
<1>. QED
  BY <1>1, SignInInvariant, PTL

\* restoreApiSessionForRealtime and restoreReviewApiSession, side by side: when no renewal
\* is on its way, the provider accepts the stored refresh token, with or without rotation,
\* whatever signs in, signs out or restarts between their awaits; unless a new token of its
\* family was lost, or both panels used one token of a provider that rotates, which
\* revokes the family for it.
THEOREM RefreshUsableHolds == SignInSpec => []RefreshUsable
<1>1. ASSUME SignInInv PROVE RefreshUsable
  <2>1. (\A p \in Panels : renewals[p].step \notin {"exchange", "save"}) => Renewing = {}
    BY DEF Renewing
  <2>. QED
    BY <1>1, <2>1 DEF SignInInv, TokensInv, StoredUsable, RefreshUsable, Dead
<1>. QED
  BY <1>1, SignInInvariant, PTL

-----------------------------------------------------------------------------
(* The parts side by side *)

\* A step moves one of the parts, and is a step of that part.
LEMMA PartsStep ==
  ASSUME DesktopInv, MicInv, SignInInv, [DesktopNext]_desktopVars
  PROVE  DesktopInv' /\ MicInv' /\ SignInInv'
<1>1. [Next]_vars
  BY DEF DesktopNext, desktopVars, Next
<1>2. [MicNext]_micVars
  BY DEF DesktopNext, desktopVars
<1>3. [SignInNext]_signInVars
  BY DEF DesktopNext, desktopVars
<1>. QED
  BY <1>1, <1>2, <1>3, DesktopStep, MicStep, SignInStep

\* Every variable of the desktop stays in its range, whichever of the realtime session, the
\* microphone and the sign-in moves.
THEOREM PartsTypeCorrect == DesktopSpec => []PartsTypeOK
<1>1. DesktopInit => DesktopInv /\ MicInv /\ SignInInv
  BY DesktopStart, MicStart, SignInStart DEF DesktopInit
<1>2. DesktopInv /\ MicInv /\ SignInInv /\ [DesktopNext]_desktopVars
        => (DesktopInv /\ MicInv /\ SignInInv)'
  BY PartsStep
<1>3. DesktopInv /\ MicInv /\ SignInInv => PartsTypeOK
  BY DesktopTyped, MicImplies, SignInTyped DEF PartsTypeOK
<1>. QED
  BY <1>1, <1>2, <1>3, PTL DEF DesktopSpec
=============================================================================
