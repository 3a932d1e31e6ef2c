------------------------ MODULE DesktopSessionProofs ------------------------
(***************************************************************************)
(* Proofs about DesktopSession, for every number of connections, of chunks *)
(* and of messages, and for every limit of the buffer.                     *)
(*                                                                         *)
(* The order in which the provider hears the audio follows from three      *)
(* facts.  Bytes follow their announcement on a connection, so that what   *)
(* an announcement makes the server wait for comes next (UpInv, Expected). *)
(* What is on its way is in the order of capture, within a connection and  *)
(* from each connection to the next, since what is sent was captured after *)
(* everything sent before (AudioInv).  And the session only moves to later *)
(* connections, and only its owner is heard, so that whatever was heard    *)
(* comes before whatever an owner still has on its way (HeardBefore).      *)
(*                                                                         *)
(* The counters agree since every number on its way, those of a            *)
(* resume.request among them, is one that the client has counted           *)
(* (Counted), and the server records no other.                             *)
(***************************************************************************)
EXTENDS DesktopSession, TLAPS

UpTypes == {"auth.hello", "session.start", "session.end", "suggestion.request", "audio.gap",
            "audio.chunk_meta", "binary", "resume.request"}

UpMessage == [type : UpTypes, seq : Nat, item : Nat, client : Nat, server : Nat]

DownTypes == {"auth.accepted", "transcript", "error", "session.closed", "close"}

DownMessage == [type : DownTypes, seq : Nat, recoverable : BOOLEAN]

Meeting == [state : {"none", "active", "disconnected", "ended"}, owner : 0..MaxConnections,
            clientSeq : Nat, serverSeq : Nat]

-----------------------------------------------------------------------------
(* The client *)

ClientOK ==
  /\ status \in {"idle", "connecting", "streaming", "reconnecting", "degraded", "closed", "failed"}
  /\ known \in BOOLEAN /\ resuming \in BOOLEAN /\ timer \in BOOLEAN
  /\ own \in 0..MaxConnections /\ previous \in 0..MaxConnections
  /\ current \in 0..MaxConnections
  /\ nextSeq \in Nat /\ lastClient \in Nat /\ lastServer \in Nat /\ limit \in Nat
  /\ link \in [Connections -> {"none", "connecting", "open", "closed"}]
  /\ down \in [Connections -> Seq(DownMessage)]

\* What the client may rely on: a status after its first auth.accepted, a timer only
\* between two connections, and identifiers of earlier connections.
Attached ==
  /\ status \in {"streaming", "degraded", "reconnecting"} => known
  /\ timer => status = "reconnecting" /\ current # 0 /\ link[current] = "closed"
  /\ resuming => known
  /\ known => current # 0
  /\ own <= current
  /\ previous <= current /\ (current # 0 => previous < current)

\* Until then nothing but auth.accepted comes first.
AcceptedFirst ==
  ~known /\ current # 0 /\ link[current] = "open" =>
    IF peer[current] = "new" THEN down[current] = <<>>
    ELSE down[current] # <<>> /\ Head(down[current]).type = "auth.accepted"

\* A connection that is not open yet has carried nothing.
Fresh ==
  \A c \in Connections :
    /\ c > current => link[c] = "none"
    /\ link[c] \in {"none", "connecting"} => peer[c] = "new" /\ up[c] = <<>>
    /\ peer[c] = "new" => down[c] = <<>>

ClientInv == ClientOK /\ Attached /\ AcceptedFirst /\ Fresh

-----------------------------------------------------------------------------
(* The audio *)

Ascending(s) == \A j, k \in 1..Len(s) : j < k => s[j] < s[k]

\* Chunks wait in the order of capture, behind everything that was sent, and a chunk
\* that was dropped does not wait any more.
Stock(b, g, t, n) ==
  /\ b \in Seq(Nat) /\ g \in Seq(Nat)
  /\ t \in [sent : SUBSET Nat, dropped : SUBSET Nat]
  /\ t.sent \cup t.dropped \cup Elements(b) \cup Elements(g) = 1..n
  /\ t.sent \cap (t.dropped \cup Elements(g)) = {}
  /\ t.sent \cap Elements(b) = {}
  /\ Elements(b) \cap (t.dropped \cup Elements(g)) = {}
  /\ Ascending(b)
  /\ \A x \in t.sent, y \in Elements(b) : x < y

AudioInv == captured \in Nat /\ Stock(buffer, gaps, told, captured)

-----------------------------------------------------------------------------
(* What is on its way to the server *)

\* Bytes follow their announcement, and an announcement without is the last of a
\* connection that was lost.
Paired(s, open) ==
  \A k \in 1..Len(s) :
    /\ s[k].type = "audio.chunk_meta" =>
         IF k < Len(s) THEN s[k + 1].type = "binary" /\ s[k + 1].item = s[k].item ELSE ~open
    /\ s[k].type = "binary" /\ k > 1 => s[k - 1].type = "audio.chunk_meta"

\* Bytes are in the order of capture.
Rising(s) ==
  \A j, k \in 1..Len(s) :
    j < k /\ s[j].type = "binary" /\ s[k].type = "binary" => s[j].item < s[k].item

HelloFirst(s) == \A k \in 2..Len(s) : s[k].type # "auth.hello"

Bytes(s) == {m.item : m \in {n \in Elements(s) : n.type = "binary"}}

\* The client has counted its messages, has marked the audio as sent, and resumes the
\* session of an earlier connection.
Counted(c) ==
  \A m \in Elements(up[c]) :
    /\ m.seq <= lastClient /\ m.client <= lastClient
    /\ m.type \in {"binary", "audio.chunk_meta"} => m.item \in told.sent
    /\ m.type = "resume.request" => m.item < c

UpInv ==
  /\ up \in [Connections -> Seq(UpMessage)]
  /\ \A c \in Connections :
       Counted(c) /\ Paired(up[c], link[c] = "open") /\ Rising(up[c]) /\ HelloFirst(up[c])
  /\ \A c, d \in Connections : c < d =>
       \A x \in Bytes(up[c]), y \in Bytes(up[d]) : x < y

-----------------------------------------------------------------------------
(* The server *)

\* The announced bytes come next, if they come at all.
Expected ==
  /\ pending \in [Connections -> Nat] /\ lastIndex \in [Connections -> Nat]
  /\ \A c \in Connections : pending[c] # 0 /\ peer[c] # "gone" =>
       IF up[c] = <<>> THEN link[c] = "closed"
       ELSE Head(up[c]).type = "binary" /\ Head(up[c]).item = pending[c]

PeerOK ==
  /\ peer \in [Connections -> {"new", "temporary", "session", "none", "gone"}]
  /\ session \in Meeting
  /\ CountersAgree
  /\ session.state = "none" <=> session.owner = 0
  /\ peer[1] = "new" => session.state = "none"
  /\ \A c \in Connections :
       /\ peer[c] = "session" => session.owner = c
       /\ peer[c] # "new" => \A m \in Elements(up[c]) : m.type # "auth.hello"

\* What was heard was sent before what is still to be heard.
HeardBefore ==
  /\ heard \in Seq(Nat \X Nat)
  /\ HeardInOrder
  /\ \A k \in 1..Len(heard) :
       /\ heard[k][1] \in told.sent
       /\ \A c \in Connections : c >= session.owner =>
            \A x \in Bytes(up[c]) : heard[k][1] < x

DesktopInv == ClientInv /\ AudioInv /\ UpInv /\ Expected /\ PeerOK /\ HeardBefore

-----------------------------------------------------------------------------
(* Sequences *)

LEMMA ElementsIn ==
  ASSUME NEW S, NEW s \in Seq(S)
  PROVE  Elements(s) \subseteq S /\ \A k \in 1..Len(s) : s[k] \in Elements(s)
BY DEF Elements

LEMMA ElementsOfConcat ==
  ASSUME NEW S, NEW s \in Seq(S), NEW t \in Seq(S)
  PROVE  Elements(s \o t) = Elements(s) \cup Elements(t)
<1>1. /\ Len(s \o t) = Len(s) + Len(t)
      /\ \A k \in 1..Len(s) : (s \o t)[k] = s[k]
      /\ \A k \in 1..Len(t) : (s \o t)[Len(s) + k] = t[k]
      /\ \A k \in 1..Len(s) + Len(t) : k \in 1..Len(s) \/ k - Len(s) \in 1..Len(t)
  OBVIOUS
<1>2. ASSUME NEW x \in Elements(s \o t)
      PROVE  x \in Elements(s) \cup Elements(t)
  <2>1. PICK k \in 1..Len(s) + Len(t) : x = (s \o t)[k]
    BY <1>1 DEF Elements
  <2>2. CASE k \in 1..Len(s)
    BY <1>1, <2>1, <2>2 DEF Elements
  <2>3. CASE k - Len(s) \in 1..Len(t)
    <3>1. x = t[k - Len(s)]
      BY <1>1, <2>1, <2>3
    <3>. QED
      BY <2>3, <3>1 DEF Elements
  <2>. QED
    BY <1>1, <2>2, <2>3
<1>3. ASSUME NEW x \in Elements(s)
      PROVE  x \in Elements(s \o t)
  <2>1. PICK k \in 1..Len(s) : x = s[k]
    BY DEF Elements
  <2>2. k \in 1..Len(s \o t) /\ x = (s \o t)[k]
    BY <1>1, <2>1
  <2>. QED
    BY <2>2 DEF Elements
<1>4. ASSUME NEW x \in Elements(t)
      PROVE  x \in Elements(s \o t)
  <2>1. PICK k \in 1..Len(t) : x = t[k]
    BY DEF Elements
  <2>2. Len(s) + k \in 1..Len(s \o t) /\ x = (s \o t)[Len(s) + k]
    BY <1>1, <2>1
  <2>. QED
    BY <2>2 DEF Elements
<1>. QED
  BY <1>2, <1>3, <1>4

LEMMA ElementsOfPart ==
  ASSUME NEW S, NEW s \in Seq(S), NEW m \in 1..Len(s) + 1, NEW n \in 0..Len(s)
  PROVE  /\ SubSeq(s, m, n) \in Seq(S)
         /\ Elements(SubSeq(s, m, n)) \subseteq Elements(s)
         /\ Elements(SubSeq(s, m, n)) = {s[k] : k \in m..n}
         /\ Len(SubSeq(s, m, n)) = IF m <= n THEN n - m + 1 ELSE 0
         /\ \A k \in 1..Len(SubSeq(s, m, n)) : SubSeq(s, m, n)[k] = s[m + k - 1]
<1>. DEFINE p == SubSeq(s, m, n)
<1>1. /\ p \in Seq(S) /\ Len(p) = IF m <= n THEN n - m + 1 ELSE 0
      /\ \A k \in 1..Len(p) : p[k] = s[m + k - 1]
  OBVIOUS
<1>. HIDE DEF p
<1>2. ASSUME NEW x \in Elements(p)
      PROVE  x \in {s[k] : k \in m..n}
  <2>1. PICK k \in 1..Len(p) : x = p[k]
    BY DEF Elements
  <2>2. m + k - 1 \in m..n /\ x = s[m + k - 1]
    BY <1>1, <2>1
  <2>. QED
    BY <2>2
<1>3. ASSUME NEW k \in m..n
      PROVE  s[k] \in Elements(p)
  <2>1. k - m + 1 \in 1..Len(p) /\ m + (k - m + 1) - 1 = k
    BY <1>1
  <2>2. p[k - m + 1] = s[k]
    BY <1>1, <2>1
  <2>. QED
    BY <2>1, <2>2 DEF Elements
<1>4. {s[k] : k \in m..n} \subseteq Elements(s)
  BY DEF Elements
<1>. QED
  BY <1>1, <1>2, <1>3, <1>4 DEF p

\* The message at the head is taken.
LEMMA TailKeeps ==
  ASSUME NEW s \in Seq(UpMessage), s # <<>>, NEW open \in BOOLEAN,
         Paired(s, open), Rising(s), HelloFirst(s)
  PROVE  /\ Tail(s) \in Seq(UpMessage)
         /\ Head(s) \in Elements(s) /\ Elements(Tail(s)) \subseteq Elements(s)
         /\ Bytes(Tail(s)) \subseteq Bytes(s)
         /\ Paired(Tail(s), open) /\ Rising(Tail(s)) /\ HelloFirst(Tail(s))
         /\ \A m \in Elements(Tail(s)) : m.type # "auth.hello"
         /\ Head(s).type = "binary" =>
              Head(s).item \in Bytes(s) /\ \A x \in Bytes(Tail(s)) : Head(s).item < x
         /\ Head(s).type = "audio.chunk_meta" =>
              IF Tail(s) = <<>> THEN ~open
              ELSE Head(Tail(s)).type = "binary" /\ Head(Tail(s)).item = Head(s).item
<1>. DEFINE t == Tail(s)
<1>1. /\ t \in Seq(UpMessage) /\ Len(t) = Len(s) - 1 /\ Len(s) >= 1 /\ Len(s) \in Nat
      /\ \A k \in 1..Len(t) : t[k] = s[k + 1]
      /\ Head(s) = s[1]
  OBVIOUS
<1>. HIDE DEF t
<1>0. (t = <<>> <=> Len(t) = 0) /\ (t # <<>> => Head(t) = t[1])
  BY <1>1
<1>2. Head(s) \in Elements(s) /\ Elements(t) \subseteq Elements(s)
  <2>1. 1 \in 1..Len(s) /\ \A k \in 1..Len(t) : k + 1 \in 1..Len(s)
    BY <1>1
  <2>. QED
    BY <1>1, <2>1 DEF Elements
<1>3. Bytes(t) \subseteq Bytes(s)
  BY <1>2 DEF Bytes
<1>4. Paired(t, open)
  <2>. SUFFICES ASSUME NEW k \in 1..Len(t)
                PROVE  /\ t[k].type = "audio.chunk_meta" =>
                            IF k < Len(t) THEN t[k + 1].type = "binary" /\ t[k + 1].item = t[k].item
                            ELSE ~open
                       /\ t[k].type = "binary" /\ k > 1 => t[k - 1].type = "audio.chunk_meta"
    BY DEF Paired
  <2>1. k + 1 \in 1..Len(s) /\ t[k] = s[k + 1]
    BY <1>1
  <2>2. k < Len(t) => k + 1 < Len(s) /\ t[k + 1] = s[k + 2] /\ (k + 1) + 1 = k + 2
    BY <1>1
  <2>3. ~(k < Len(t)) => ~(k + 1 < Len(s))
    BY <1>1
  <2>4. k > 1 => t[k - 1] = s[k] /\ k + 1 > 1 /\ (k + 1) - 1 = k
    BY <1>1
  <2>. QED
    BY <2>1, <2>2, <2>3, <2>4 DEF Paired
<1>5. Rising(t)
  <2>1. \A j, k \in 1..Len(t) : j < k =>
          j + 1 \in 1..Len(s) /\ k + 1 \in 1..Len(s) /\ j + 1 < k + 1
    BY <1>1
  <2>. QED
    BY <1>1, <2>1 DEF Rising
<1>6. \A k \in 1..Len(t) : t[k].type # "auth.hello"
  <2>1. \A k \in 1..Len(t) : k + 1 \in 2..Len(s)
    BY <1>1
  <2>. QED
    BY <1>1, <2>1 DEF HelloFirst
<1>7. HelloFirst(t) /\ \A m \in Elements(t) : m.type # "auth.hello"
  <2>1. \A k \in 2..Len(t) : k \in 1..Len(t)
    BY <1>1
  <2>. QED
    BY <1>6, <2>1 DEF HelloFirst, Elements
<1>8. ASSUME Head(s).type = "binary"
      PROVE  Head(s).item \in Bytes(s) /\ \A x \in Bytes(t) : Head(s).item < x
  <2>1. Head(s).item \in Bytes(s)
    BY <1>2, <1>8 DEF Bytes
  <2>2. ASSUME NEW x \in Bytes(t)
        PROVE  Head(s).item < x
    <3>1. PICK k \in 1..Len(t) : t[k].type = "binary" /\ x = t[k].item
      BY DEF Bytes, Elements
    <3>2. 1 \in 1..Len(s) /\ k + 1 \in 1..Len(s) /\ 1 < k + 1 /\ t[k] = s[k + 1]
      BY <1>1
    <3>. QED
      BY <1>1, <1>8, <3>1, <3>2 DEF Rising
  <2>. QED
    BY <2>1, <2>2
<1>9. ASSUME Head(s).type = "audio.chunk_meta"
      PROVE  IF t = <<>> THEN ~open
             ELSE Head(t).type = "binary" /\ Head(t).item = Head(s).item
  <2>1. 1 \in 1..Len(s) /\ 1 + 1 = 2 /\ (1 < Len(s) <=> t # <<>>) /\ (t # <<>> => Head(t) = s[2])
    BY <1>0, <1>1
  <2>. QED
    BY <1>1, <1>9, <2>1 DEF Paired
<1>. QED
  BY <1>1, <1>2, <1>3, <1>4, <1>5, <1>7, <1>8, <1>9 DEF t

\* A connection is lost with the end of what it carried.
LEMMA PrefixKeeps ==
  ASSUME NEW s \in Seq(UpMessage), NEW open \in BOOLEAN, NEW n \in 0..Len(s),
         Paired(s, open), Rising(s), HelloFirst(s)
  PROVE  LET p == SubSeq(s, 1, n) IN
         /\ p \in Seq(UpMessage) /\ Elements(p) \subseteq Elements(s)
         /\ Bytes(p) \subseteq Bytes(s)
         /\ Paired(p, FALSE) /\ Rising(p) /\ HelloFirst(p)
         /\ p # <<>> => s # <<>> /\ Head(p) = Head(s)
<1>. DEFINE p == SubSeq(s, 1, n)
<1>1. /\ p \in Seq(UpMessage) /\ Len(p) = n /\ n <= Len(s) /\ n \in Nat
      /\ \A k \in 1..n : p[k] = s[k]
  OBVIOUS
<1>. HIDE DEF p
<1>2. Elements(p) \subseteq Elements(s)
  BY <1>1 DEF Elements
<1>3. Bytes(p) \subseteq Bytes(s)
  BY <1>2 DEF Bytes
<1>4. Paired(p, FALSE)
  <2>. SUFFICES ASSUME NEW k \in 1..n
                PROVE  /\ p[k].type = "audio.chunk_meta" /\ k < n =>
                            p[k + 1].type = "binary" /\ p[k + 1].item = p[k].item
                       /\ p[k].type = "binary" /\ k > 1 => p[k - 1].type = "audio.chunk_meta"
    BY <1>1 DEF Paired
  <2>1. /\ k \in 1..Len(s) /\ p[k] = s[k]
        /\ k < n => p[k + 1] = s[k + 1] /\ k < Len(s)
        /\ k > 1 => p[k - 1] = s[k - 1]
    BY <1>1
  <2>. QED
    BY <2>1 DEF Paired
<1>5. Rising(p) /\ HelloFirst(p)
  BY <1>1 DEF Rising, HelloFirst
<1>6. p # <<>> => s # <<>> /\ Head(p) = Head(s)
  <2>1. p # <<>> => n >= 1 /\ Len(s) >= 1 /\ Head(p) = p[1] /\ Head(s) = s[1]
    BY <1>1
  <2>. QED
    BY <1>1, <2>1
<1>. QED
  BY <1>1, <1>2, <1>3, <1>4, <1>5, <1>6 DEF p

\* What may follow on a connection.
Following(t) ==
  /\ t \in Seq(UpMessage)
  /\ Paired(t, TRUE) /\ Rising(t)
  /\ t # <<>> => t[1].type # "binary"
  /\ \A m \in Elements(t) : m.type # "auth.hello"

LEMMA ConcatKeeps ==
  ASSUME NEW s \in Seq(UpMessage), NEW t, Following(t),
         Paired(s, TRUE), Rising(s), \A x \in Bytes(s), y \in Bytes(t) : x < y
  PROVE  /\ s \o t \in Seq(UpMessage)
         /\ Elements(s \o t) = Elements(s) \cup Elements(t)
         /\ Bytes(s \o t) = Bytes(s) \cup Bytes(t)
         /\ Paired(s \o t, TRUE) /\ Rising(s \o t)
         /\ HelloFirst(s) => HelloFirst(s \o t)
         /\ s # <<>> => s \o t # <<>> /\ Head(s \o t) = Head(s)
<1>. DEFINE u == s \o t
<1>1. /\ t \in Seq(UpMessage) /\ u \in Seq(UpMessage)
      /\ Len(u) = Len(s) + Len(t) /\ Len(s) \in Nat /\ Len(t) \in Nat
      /\ \A k \in 1..Len(s) : u[k] = s[k]
      /\ \A k \in 1..Len(t) : u[Len(s) + k] = t[k]
      /\ \A k \in 1..Len(u) : k \in 1..Len(s) \/ k - Len(s) \in 1..Len(t)
      /\ \A k \in 1..Len(u) : k - Len(s) \in 1..Len(t) => u[k] = t[k - Len(s)]
  BY DEF Following
<1>2. Elements(u) = Elements(s) \cup Elements(t)
  BY <1>1, ElementsOfConcat
<1>. HIDE DEF u
<1>3. Bytes(u) = Bytes(s) \cup Bytes(t)
  BY <1>2 DEF Bytes
<1>4. Paired(u, TRUE)
  <2>. SUFFICES ASSUME NEW k \in 1..Len(u)
                PROVE  /\ u[k].type = "audio.chunk_meta" =>
                            k < Len(u) /\ u[k + 1].type = "binary" /\ u[k + 1].item = u[k].item
                       /\ u[k].type = "binary" /\ k > 1 => u[k - 1].type = "audio.chunk_meta"
    BY DEF Paired
  <2>1. CASE k \in 1..Len(s)
    <3>1. u[k] = s[k]
      BY <1>1, <2>1
    <3>2. k > 1 => u[k - 1] = s[k - 1]
      BY <1>1, <2>1
    <3>3. k < Len(s) => u[k + 1] = s[k + 1] /\ k < Len(u)
      BY <1>1, <2>1
    <3>. QED
      BY <2>1, <3>1, <3>2, <3>3 DEF Paired
  <2>2. CASE k - Len(s) \in 1..Len(t)
    <3>. DEFINE i == k - Len(s)
    <3>1. i \in 1..Len(t) /\ u[k] = t[i]
      BY <1>1, <2>2
    <3>2. i < Len(t) => u[k + 1] = t[i + 1] /\ k < Len(u)
      <4>1. i < Len(t) => i + 1 \in 1..Len(t) /\ k + 1 = Len(s) + (i + 1) /\ k < Len(u)
        BY <1>1, <2>2
      <4>. QED
        BY <1>1, <4>1
    <3>3. i > 1 => u[k - 1] = t[i - 1]
      <4>1. i > 1 => i - 1 \in 1..Len(t) /\ k - 1 = Len(s) + (i - 1)
        BY <1>1, <2>2
      <4>. QED
        BY <1>1, <4>1
    <3>4. i = 1 => t[i].type # "binary"
      BY <1>1, <3>1 DEF Following
    <3>5. /\ t[i].type = "audio.chunk_meta" =>
               i < Len(t) /\ t[i + 1].type = "binary" /\ t[i + 1].item = t[i].item
          /\ t[i].type = "binary" /\ i > 1 => t[i - 1].type = "audio.chunk_meta"
      BY <3>1 DEF Following, Paired
    <3>6. i = 1 \/ i > 1
      BY <2>2
    <3>. HIDE DEF i
    <3>. QED
      BY <3>1, <3>2, <3>3, <3>4, <3>5, <3>6
  <2>. QED
    BY <1>1, <2>1, <2>2
<1>5. Rising(u)
  <2>. SUFFICES ASSUME NEW j \in 1..Len(u), NEW k \in 1..Len(u), j < k,
                       u[j].type = "binary", u[k].type = "binary"
                PROVE  u[j].item < u[k].item
    BY DEF Rising
  <2>1. CASE k \in 1..Len(s)
    <3>1. j \in 1..Len(s) /\ u[j] = s[j] /\ u[k] = s[k]
      BY <1>1, <2>1
    <3>. QED
      BY <2>1, <3>1 DEF Rising
  <2>2. CASE k - Len(s) \in 1..Len(t) /\ j - Len(s) \in 1..Len(t)
    <3>1. u[j] = t[j - Len(s)] /\ u[k] = t[k - Len(s)] /\ j - Len(s) < k - Len(s)
      BY <1>1, <2>2
    <3>. QED
      BY <2>2, <3>1 DEF Following, Rising
  <2>3. CASE k - Len(s) \in 1..Len(t) /\ j \in 1..Len(s)
    <3>1. u[j] = s[j] /\ u[k] = t[k - Len(s)]
      BY <1>1, <2>3
    <3>2. s[j] \in Elements(s) /\ t[k - Len(s)] \in Elements(t)
      BY <2>3 DEF Elements
    <3>3. s[j].item \in Bytes(s) /\ t[k - Len(s)].item \in Bytes(t)
      BY <3>1, <3>2 DEF Bytes
    <3>. QED
      BY <3>1, <3>3
  <2>. QED
    BY <1>1, <2>1, <2>2, <2>3
<1>6. ASSUME HelloFirst(s)
      PROVE  HelloFirst(u)
  <2>. SUFFICES ASSUME NEW k \in 2..Len(u)
                PROVE  u[k].type # "auth.hello"
    BY DEF HelloFirst
  <2>1. CASE k \in 1..Len(s)
    BY <1>1, <1>6, <2>1 DEF HelloFirst
  <2>2. CASE k - Len(s) \in 1..Len(t)
    <3>1. u[k] = t[k - Len(s)] /\ t[k - Len(s)] \in Elements(t)
      BY <1>1, <2>2 DEF Elements
    <3>. QED
      BY <3>1 DEF Following
  <2>. QED
    BY <1>1, <2>1, <2>2
<1>7. s # <<>> => u # <<>> /\ Head(u) = Head(s)
  <2>1. s # <<>> => Len(s) >= 1 /\ Head(s) = s[1]
    OBVIOUS
  <2>2. Len(u) >= 1 => u # <<>> /\ Head(u) = u[1]
    BY <1>1
  <2>. QED
    BY <1>1, <2>1, <2>2
<1>. QED
  BY <1>1, <1>2, <1>3, <1>4, <1>5, <1>6, <1>7 DEF u

-----------------------------------------------------------------------------
(* What the client sends of its buffer *)

LEMMA UpIs ==
  ASSUME NEW type \in UpTypes, NEW seq \in Nat, NEW item \in Nat
  PROVE  /\ Up(type, seq, item) \in UpMessage
         /\ Up(type, seq, item).type = type /\ Up(type, seq, item).seq = seq
         /\ Up(type, seq, item).item = item /\ Up(type, seq, item).client = 0
BY DEF Up, UpMessage

\* A message that needs no company.
LEMMA OneFollows ==
  ASSUME NEW m \in UpMessage, m.type \notin {"auth.hello", "audio.chunk_meta", "binary"}
  PROVE  Following(<<m>>) /\ Elements(<<m>>) = {m} /\ Bytes(<<m>>) = {}
<1>. DEFINE s == <<m>>
<1>1. s \in Seq(UpMessage) /\ Len(s) = 1 /\ s[1] = m
  OBVIOUS
<1>. HIDE DEF s
<1>2. Elements(s) = {m}
  BY <1>1 DEF Elements
<1>3. Following(s)
  BY <1>1, <1>2 DEF Following, Paired, Rising
<1>4. Bytes(s) = {}
  BY <1>2 DEF Bytes
<1>. QED
  BY <1>2, <1>3, <1>4 DEF s

LEMMA GapsFollow ==
  ASSUME NEW g \in Seq(Nat), NEW seq \in Nat
  PROVE  LET s == [k \in 1..Len(g) |-> Up("audio.gap", seq + k - 1, g[k])] IN
         /\ Following(s) /\ Bytes(s) = {}
         /\ \A m \in Elements(s) :
              m.type = "audio.gap" /\ m.seq <= seq + Len(g) - 1 /\ m.client = 0
<1>. DEFINE s == [k \in 1..Len(g) |-> Up("audio.gap", seq + k - 1, g[k])]
<1>1. \A k \in 1..Len(g) :
        /\ s[k] \in UpMessage /\ s[k].type = "audio.gap" /\ s[k].seq = seq + k - 1
        /\ s[k].client = 0
  <2>. TAKE k \in 1..Len(g)
  <2>1. seq + k - 1 \in Nat /\ g[k] \in Nat /\ "audio.gap" \in UpTypes
    BY DEF UpTypes
  <2>. QED
    BY <2>1, UpIs
<1>2. s \in Seq(UpMessage) /\ Len(s) = Len(g)
  BY <1>1
<1>. HIDE DEF s
<1>3. \A m \in Elements(s) :
        m.type = "audio.gap" /\ m.seq <= seq + Len(g) - 1 /\ m.client = 0
  BY <1>1, <1>2 DEF Elements
<1>4. Bytes(s) = {}
  BY <1>3 DEF Bytes
<1>5. Following(s)
  <2>1. Paired(s, TRUE) /\ Rising(s)
    BY <1>1, <1>2 DEF Paired, Rising
  <2>2. s # <<>> => s[1].type # "binary"
    BY <1>1, <1>2
  <2>. QED
    BY <1>2, <1>3, <2>1, <2>2 DEF Following
<1>. QED
  BY <1>3, <1>4, <1>5 DEF s

LEMMA Halves ==
  ASSUME NEW n \in Nat, NEW k \in 1..(2 * n)
  PROVE  IF k % 2 = 1
         THEN /\ (k + 1) \div 2 \in 1..n /\ k < 2 * n /\ (k + 1) % 2 # 1
              /\ k \div 2 \in 0..(n - 1)
         ELSE k \div 2 \in 1..n /\ (k > 1 => (k - 1) % 2 = 1)
OBVIOUS

LEMMA ChunksFollow ==
  ASSUME NEW b \in Seq(Nat), NEW first \in Nat, Ascending(b)
  PROVE  LET s == [k \in 1..(2 * Len(b)) |->
                     IF k % 2 = 1
                     THEN Up("audio.chunk_meta", first + k \div 2, b[(k + 1) \div 2])
                     ELSE Up("binary", 0, b[k \div 2])]
         IN  /\ Following(s)
             /\ \A m \in Elements(s) :
                  /\ m.type \in {"audio.chunk_meta", "binary"} /\ m.item \in Elements(b)
                  /\ m.seq = 0 \/ m.seq <= first + Len(b) - 1
                  /\ m.client = 0
<1>. DEFINE n == Len(b)
            s == [k \in 1..(2 * n) |->
                     IF k % 2 = 1
                     THEN Up("audio.chunk_meta", first + k \div 2, b[(k + 1) \div 2])
                     ELSE Up("binary", 0, b[k \div 2])]
<1>0. n \in Nat /\ \A k \in 1..n : b[k] \in Nat /\ b[k] \in Elements(b)
  BY DEF Elements
<1>1. ASSUME NEW k \in 1..(2 * n), k % 2 = 1
      PROVE  /\ s[k] \in UpMessage /\ s[k].type = "audio.chunk_meta"
             /\ s[k].item = b[(k + 1) \div 2] /\ s[k].item \in Elements(b)
             /\ s[k].seq <= first + n - 1 /\ s[k].client = 0
  <2>1. (k + 1) \div 2 \in 1..n /\ k \div 2 \in 0..(n - 1)
    BY <1>0, <1>1, Halves
  <2>2. first + k \div 2 \in Nat /\ first + k \div 2 <= first + n - 1
    BY <1>0, <2>1
  <2>3. s[k] = Up("audio.chunk_meta", first + k \div 2, b[(k + 1) \div 2])
    BY <1>1
  <2>4. "audio.chunk_meta" \in UpTypes
    BY DEF UpTypes
  <2>. HIDE DEF s, n
  <2>. QED
    BY <1>0, <2>1, <2>2, <2>3, <2>4, UpIs
<1>2. ASSUME NEW k \in 1..(2 * n), k % 2 # 1
      PROVE  /\ s[k] \in UpMessage /\ s[k].type = "binary"
             /\ s[k].item = b[k \div 2] /\ s[k].item \in Elements(b)
             /\ s[k].seq = 0 /\ s[k].client = 0
  <2>1. k \div 2 \in 1..n
    BY <1>0, <1>2, Halves
  <2>2. s[k] = Up("binary", 0, b[k \div 2])
    BY <1>2
  <2>3. "binary" \in UpTypes
    BY DEF UpTypes
  <2>. HIDE DEF s, n
  <2>. QED
    BY <1>0, <2>1, <2>2, <2>3, UpIs
<1>3. s \in Seq(UpMessage) /\ Len(s) = 2 * n
  <2>1. \A k \in 1..(2 * n) : s[k] \in UpMessage
    BY <1>1, <1>2
  <2>2. 2 * n \in Nat
    BY <1>0
  <2>. HIDE DEF n
  <2>. QED
    BY <2>1, <2>2
<1>. HIDE DEF s, n
<1>4. \A m \in Elements(s) :
        /\ m.type \in {"audio.chunk_meta", "binary"} /\ m.item \in Elements(b)
        /\ m.seq = 0 \/ m.seq <= first + n - 1
        /\ m.client = 0
  <2>. SUFFICES ASSUME NEW k \in 1..(2 * n)
                PROVE  /\ s[k].type \in {"audio.chunk_meta", "binary"} /\ s[k].item \in Elements(b)
                       /\ s[k].seq = 0 \/ s[k].seq <= first + n - 1
                       /\ s[k].client = 0
    BY <1>3 DEF Elements
  <2>. QED
    BY <1>1, <1>2
<1>5. Paired(s, TRUE)
  <2>. SUFFICES ASSUME NEW k \in 1..(2 * n)
                PROVE  /\ s[k].type = "audio.chunk_meta" =>
                            k < 2 * n /\ s[k + 1].type = "binary" /\ s[k + 1].item = s[k].item
                       /\ s[k].type = "binary" /\ k > 1 => s[k - 1].type = "audio.chunk_meta"
    BY <1>3 DEF Paired
  <2>1. CASE k % 2 = 1
    <3>1. k + 1 \in 1..(2 * n) /\ (k + 1) % 2 # 1 /\ k < 2 * n
      BY <1>0, <2>1, Halves
    <3>2. s[k + 1].type = "binary" /\ s[k + 1].item = b[(k + 1) \div 2]
      BY <1>2, <3>1
    <3>. QED
      BY <1>1, <2>1, <3>1, <3>2
  <2>2. CASE k % 2 # 1
    <3>1. k > 1 => k - 1 \in 1..(2 * n) /\ (k - 1) % 2 = 1
      BY <1>0, <2>2, Halves
    <3>. QED
      BY <1>1, <1>2, <2>2, <3>1
  <2>. QED
    BY <2>1, <2>2
<1>6. Rising(s)
  <2>. SUFFICES ASSUME NEW j \in 1..(2 * n), NEW k \in 1..(2 * n), j < k,
                       s[j].type = "binary", s[k].type = "binary"
                PROVE  s[j].item < s[k].item
    BY <1>3 DEF Rising
  <2>1. j % 2 # 1 /\ k % 2 # 1
    BY <1>1
  <2>2. j \div 2 \in 1..n /\ k \div 2 \in 1..n /\ j \div 2 < k \div 2
    BY <1>0, <2>1
  <2>3. b[j \div 2] < b[k \div 2]
    BY <2>2 DEF Ascending, n
  <2>. QED
    BY <1>2, <2>1, <2>3
<1>7. s # <<>> => s[1].type # "binary"
  <2>1. s # <<>> => 1 \in 1..(2 * n)
    BY <1>0, <1>3
  <2>2. 1 % 2 = 1
    OBVIOUS
  <2>. QED
    BY <1>1, <2>1, <2>2
<1>. QED
  BY <1>3, <1>4, <1>5, <1>6, <1>7 DEF Following, s, n

\* The gaps and the chunks of a flush.
LEMMA FlushedFollows ==
  ASSUME NEW g \in Seq(Nat), NEW b \in Seq(Nat), NEW seq \in Nat, Ascending(b)
  PROVE  /\ Following(Flushed(g, b, seq))
         /\ \A m \in Elements(Flushed(g, b, seq)) :
              /\ m.type \in {"audio.gap", "audio.chunk_meta", "binary"}
              /\ m.type # "audio.gap" => m.item \in Elements(b)
              /\ m.seq = 0 \/ m.seq <= seq + Len(g) + Len(b) - 1
              /\ m.client = 0
<1>. DEFINE s == [k \in 1..Len(g) |-> Up("audio.gap", seq + k - 1, g[k])]
            t == [k \in 1..(2 * Len(b)) |->
                    IF k % 2 = 1
                    THEN Up("audio.chunk_meta", seq + Len(g) + k \div 2, b[(k + 1) \div 2])
                    ELSE Up("binary", 0, b[k \div 2])]
<1>0. Len(g) \in Nat /\ Len(b) \in Nat
  OBVIOUS
<1>1. /\ Following(s) /\ Bytes(s) = {}
      /\ \A m \in Elements(s) :
           m.type = "audio.gap" /\ m.seq <= seq + Len(g) - 1 /\ m.client = 0
  BY GapsFollow
<1>2. /\ Following(t)
      /\ \A m \in Elements(t) :
           /\ m.type \in {"audio.chunk_meta", "binary"} /\ m.item \in Elements(b)
           /\ m.seq = 0 \/ m.seq <= (seq + Len(g)) + Len(b) - 1
           /\ m.client = 0
  <2>1. seq + Len(g) \in Nat
    BY <1>0
  <2>. QED
    BY <2>1, ChunksFollow
<1>3. Flushed(g, b, seq) = s \o t
  BY DEF Flushed
<1>. HIDE DEF s, t
<1>4. /\ s \o t \in Seq(UpMessage) /\ Elements(s \o t) = Elements(s) \cup Elements(t)
      /\ Paired(s \o t, TRUE) /\ Rising(s \o t)
      /\ s # <<>> => s \o t # <<>> /\ Head(s \o t) = Head(s)
  BY <1>1, <1>2, ConcatKeeps DEF Following
<1>5. \A m \in Elements(s) \cup Elements(t) :
        /\ m.type \in {"audio.gap", "audio.chunk_meta", "binary"}
        /\ m.type # "audio.gap" => m.item \in Elements(b)
        /\ m.seq = 0 \/ m.seq <= seq + Len(g) + Len(b) - 1
        /\ m.client = 0
  <2>1. \A m \in Elements(s) : m.seq \in Nat
    <3>1. s \in Seq(UpMessage)
      BY <1>1 DEF Following
    <3>2. Elements(s) \subseteq UpMessage
      BY <3>1, ElementsIn
    <3>. QED
      BY <3>2 DEF UpMessage
  <2>2. \A m \in Elements(s) : m.seq <= seq + Len(g) + Len(b) - 1
    BY <1>0, <1>1, <2>1
  <2>. QED
    BY <1>1, <1>2, <2>2
<1>6. s \o t # <<>> => (s \o t)[1].type # "binary"
  <2>1. CASE s = <<>>
    BY <1>2, <2>1 DEF Following
  <2>2. CASE s # <<>>
    BY <1>1, <1>4, <2>2 DEF Following
  <2>. QED
    BY <2>1, <2>2
<1>. QED
  BY <1>3, <1>4, <1>5, <1>6 DEF Following

-----------------------------------------------------------------------------
(* What the client does with its buffer *)

LEMMA StockFlushed ==
  ASSUME NEW b, NEW g, NEW t, NEW n \in Nat, Stock(b, g, t, n)
  PROVE  Stock(<<>>, <<>>, [sent |-> t.sent \cup Elements(b),
                            dropped |-> t.dropped \cup Elements(g)], n)
<1>. DEFINE u == [sent |-> t.sent \cup Elements(b), dropped |-> t.dropped \cup Elements(g)]
<1>1. Elements(b) \subseteq Nat /\ Elements(g) \subseteq Nat
  BY ElementsIn DEF Stock
<1>2. <<>> \in Seq(Nat) /\ Elements(<<>>) = {} /\ Ascending(<<>>)
  BY DEF Elements, Ascending
<1>3. u \in [sent : SUBSET Nat, dropped : SUBSET Nat]
  BY <1>1 DEF Stock
<1>4. u.sent = t.sent \cup Elements(b) /\ u.dropped = t.dropped \cup Elements(g)
  OBVIOUS
<1>. HIDE DEF u
<1>5. /\ u.sent \cup u.dropped = 1..n
      /\ u.sent \cap u.dropped = {}
  BY <1>4 DEF Stock
<1>6. Stock(<<>>, <<>>, u, n)
  BY <1>2, <1>3, <1>5 DEF Stock
<1>. QED
  BY <1>6 DEF u

LEMMA TrimmedIs ==
  ASSUME NEW b \in Seq(Nat), NEW max \in Nat, Ascending(b)
  PROVE  /\ Trimmed(b, max) \in Seq(Nat) /\ DroppedOf(b, max) \in Seq(Nat)
         /\ Elements(Trimmed(b, max)) \cup Elements(DroppedOf(b, max)) = Elements(b)
         /\ Elements(Trimmed(b, max)) \cap Elements(DroppedOf(b, max)) = {}
         /\ Ascending(Trimmed(b, max))
<1>. DEFINE n == Len(b)
            d == IF n > max THEN n - max ELSE 0
            x == SubSeq(b, d + 1, n)
            y == SubSeq(b, 1, d)
<1>1. Trimmed(b, max) = x /\ DroppedOf(b, max) = y
  <2>1. (IF Len(b) > max THEN Len(b) - max + 1 ELSE 1) = d + 1
    OBVIOUS
  <2>. QED
    BY <2>1 DEF Trimmed, DroppedOf
<1>2. n \in Nat /\ d \in 0..n /\ d + 1 \in 1..n + 1 /\ n \in 0..n
  OBVIOUS
<1>. HIDE DEF d
<1>3. /\ x \in Seq(Nat) /\ Elements(x) = {b[k] : k \in (d + 1)..n}
      /\ Len(x) = IF d + 1 <= n THEN n - (d + 1) + 1 ELSE 0
      /\ \A k \in 1..Len(x) : x[k] = b[(d + 1) + k - 1]
  BY <1>2, ElementsOfPart, SMTT(30)
<1>4. y \in Seq(Nat) /\ Elements(y) = {b[k] : k \in 1..d}
  BY <1>2, ElementsOfPart
<1>5. Elements(b) = {b[k] : k \in 1..n}
  BY DEF Elements
<1>. HIDE DEF n, x, y
<1>6. 1..n = ((d + 1)..n) \cup (1..d)
  BY <1>2
<1>7. Elements(x) \cup Elements(y) = Elements(b)
  BY <1>3, <1>4, <1>5, <1>6
<1>8. ASSUME NEW j \in 1..n, NEW k \in 1..n, j < k
      PROVE  b[j] < b[k] /\ b[j] \in Nat /\ b[k] \in Nat
  BY <1>8 DEF Ascending, n
<1>9. Elements(x) \cap Elements(y) = {}
  <2>. SUFFICES ASSUME NEW j \in 1..d, NEW k \in (d + 1)..n
                PROVE  b[j] # b[k]
    BY <1>3, <1>4
  <2>1. j \in 1..n /\ k \in 1..n /\ j < k
    BY <1>2
  <2>. QED
    BY <1>8, <2>1
<1>10. Ascending(x)
  <2>. SUFFICES ASSUME NEW j \in 1..Len(x), NEW k \in 1..Len(x), j < k
                PROVE  x[j] < x[k]
    BY DEF Ascending
  <2>1. /\ (d + 1) + j - 1 \in 1..n /\ (d + 1) + k - 1 \in 1..n
        /\ (d + 1) + j - 1 < (d + 1) + k - 1
    BY <1>2, <1>3
  <2>. QED
    BY <1>3, <1>8, <2>1
<1>. QED
  BY <1>1, <1>3, <1>4, <1>7, <1>9, <1>10

LEMMA StockTrimmed ==
  ASSUME NEW b, NEW g, NEW t, NEW n \in Nat, Stock(b, g, t, n), NEW max \in Nat
  PROVE  Stock(Trimmed(b, max), g \o DroppedOf(b, max), t, n)
<1>. DEFINE x == Trimmed(b, max)
            y == DroppedOf(b, max)
            h == g \o y
<1>1. /\ x \in Seq(Nat) /\ y \in Seq(Nat) /\ Ascending(x)
      /\ Elements(x) \cup Elements(y) = Elements(b)
      /\ Elements(x) \cap Elements(y) = {}
  BY TrimmedIs DEF Stock
<1>2. g \in Seq(Nat)
  BY DEF Stock
<1>. HIDE DEF x, y
<1>3. h \in Seq(Nat) /\ Elements(h) = Elements(g) \cup Elements(y)
  BY <1>1, <1>2, ElementsOfConcat
<1>. HIDE DEF h
<1>4. Stock(x, h, t, n)
  BY <1>1, <1>3 DEF Stock
<1>. QED
  BY <1>4 DEF x, y, h

LEMMA AppendIs ==
  ASSUME NEW s \in Seq(Nat), NEW e \in Nat
  PROVE  /\ Append(s, e) \in Seq(Nat)
         /\ Elements(Append(s, e)) = Elements(s) \cup {e}
         /\ Ascending(s) /\ (\A x \in Elements(s) : x < e) => Ascending(Append(s, e))
<1>. DEFINE u == Append(s, e)
<1>1. /\ u \in Seq(Nat) /\ Len(u) = Len(s) + 1 /\ u[Len(s) + 1] = e
      /\ \A k \in 1..Len(s) : u[k] = s[k]
      /\ \A k \in 1..Len(u) : k \in 1..Len(s) \/ k = Len(s) + 1
      /\ Len(s) \in Nat
  OBVIOUS
<1>. HIDE DEF u
<1>2. Elements(u) = Elements(s) \cup {e}
  <2>1. 1..Len(u) = (1..Len(s)) \cup {Len(s) + 1}
    BY <1>1
  <2>. QED
    BY <1>1, <2>1, SMTT(30) DEF Elements
<1>3. ASSUME Ascending(s), \A x \in Elements(s) : x < e
      PROVE  Ascending(u)
  <2>. SUFFICES ASSUME NEW j \in 1..Len(u), NEW k \in 1..Len(u), j < k
                PROVE  u[j] < u[k]
    BY DEF Ascending
  <2>1. j \in 1..Len(s) /\ u[j] = s[j] /\ s[j] \in Elements(s)
    <3>1. j \in 1..Len(s)
      BY <1>1
    <3>. QED
      BY <1>1, <3>1 DEF Elements
  <2>2. CASE k \in 1..Len(s)
    BY <1>1, <1>3, <2>1, <2>2 DEF Ascending
  <2>3. CASE k = Len(s) + 1
    BY <1>1, <1>3, <2>1, <2>3
  <2>. QED
    BY <1>1, <2>2, <2>3
<1>. QED
  BY <1>1, <1>2, <1>3 DEF u

LEMMA StockGrows ==
  ASSUME NEW b, NEW g, NEW t, NEW n \in Nat, Stock(b, g, t, n)
  PROVE  /\ Stock(Append(b, n + 1), g, t, n + 1)
         /\ Stock(b, Append(g, n + 1), t, n + 1)
<1>1. /\ b \in Seq(Nat) /\ g \in Seq(Nat) /\ Ascending(b)
      /\ t \in [sent : SUBSET Nat, dropped : SUBSET Nat]
      /\ t.sent \cup t.dropped \cup Elements(b) \cup Elements(g) = 1..n
  BY DEF Stock
<1>2. n + 1 \in Nat /\ n + 1 \notin 1..n /\ 1..(n + 1) = (1..n) \cup {n + 1}
      /\ \A x \in 1..n : x < n + 1
  OBVIOUS
<1>3. /\ Append(b, n + 1) \in Seq(Nat) /\ Elements(Append(b, n + 1)) = Elements(b) \cup {n + 1}
      /\ Ascending(Append(b, n + 1))
  BY <1>1, <1>2, AppendIs
<1>4. /\ Append(g, n + 1) \in Seq(Nat) /\ Elements(Append(g, n + 1)) = Elements(g) \cup {n + 1}
  BY <1>1, <1>2, AppendIs
<1>. DEFINE bb == Append(b, n + 1)
            gg == Append(g, n + 1)
<1>. HIDE DEF bb, gg
<1>5. Stock(bb, g, t, n + 1)
  BY <1>1, <1>2, <1>3 DEF Stock, bb
<1>6. Stock(b, gg, t, n + 1)
  BY <1>1, <1>2, <1>4 DEF Stock, gg
<1>. QED
  BY <1>5, <1>6 DEF bb, gg

-----------------------------------------------------------------------------
(* What a step does to the server's side of the invariant *)

LEMMA UpIn ==
  ASSUME UpInv, NEW c \in Connections
  PROVE  /\ up[c] \in Seq(UpMessage) /\ Elements(up[c]) \subseteq UpMessage
         /\ Counted(c) /\ Paired(up[c], link[c] = "open") /\ Rising(up[c]) /\ HelloFirst(up[c])
         /\ Bytes(up[c]) \subseteq told.sent
<1>1. up[c] \in Seq(UpMessage) /\ Counted(c)
  BY DEF UpInv
<1>2. Elements(up[c]) \subseteq UpMessage
  BY <1>1, ElementsIn
<1>3. Bytes(up[c]) \subseteq told.sent
  BY <1>1 DEF Bytes, Counted
<1>. QED
  BY <1>1, <1>2, <1>3 DEF UpInv

LEMMA PairedLess == ASSUME NEW s, Paired(s, TRUE) PROVE Paired(s, FALSE)
BY DEF Paired

\* Nothing is sent, and no socket opens that has carried something.
LEMMA QuietStep ==
  ASSUME DesktopInv, UNCHANGED <<up, told, peer, session, pending, lastIndex, heard>>,
         lastClient' \in Nat, lastClient' >= lastClient,
         \A c \in Connections :
           /\ link'[c] = "open" => link[c] = "open"
           /\ link[c] = "closed" => link'[c] = "closed"
  PROVE  UpInv' /\ Expected' /\ PeerOK' /\ HeardBefore'
<1>. USE DEF DesktopInv
<1>1. UpInv'
  <2>1. ASSUME NEW c \in Connections
        PROVE  Counted(c)' /\ Paired(up[c], link'[c] = "open")
    <3>1. up[c] \in Seq(UpMessage) /\ Elements(up[c]) \subseteq UpMessage
      BY UpIn
    <3>2. Counted(c) /\ Paired(up[c], link[c] = "open")
      BY UpIn
    <3>3. \A m \in Elements(up[c]) : m.seq \in Nat /\ m.client \in Nat
      BY <3>1 DEF UpMessage
    <3>4. Counted(c)'
      BY <3>2, <3>3 DEF Counted, ClientInv, ClientOK
    <3>5. Paired(up[c], link'[c] = "open")
      <4>1. CASE link[c] = "open" /\ link'[c] # "open"
        <5>1. Paired(up[c], TRUE)
          BY <3>2, <4>1
        <5>2. Paired(up[c], FALSE)
          BY <5>1, PairedLess
        <5>. QED
          BY <4>1, <5>2
      <4>2. CASE ~(link[c] = "open" /\ link'[c] # "open")
        <5>1. (link'[c] = "open") = (link[c] = "open")
          BY <4>2
        <5>. QED
          BY <3>2, <5>1
      <4>. QED
        BY <4>1, <4>2
    <3>. QED
      BY <3>4, <3>5
  <2>. QED
    BY <2>1 DEF UpInv
<1>2. Expected'
  BY DEF Expected
<1>3. PeerOK'
  BY DEF PeerOK, CountersAgree, Meeting, ClientInv, ClientOK
<1>4. HeardBefore'
  BY DEF HeardBefore, HeardInOrder
<1>. QED
  BY <1>1, <1>2, <1>3, <1>4

\* Messages that the client may send now.
Sendable(ms) ==
  /\ Following(ms)
  /\ \A m \in Elements(ms) :
       /\ m.seq <= lastClient' /\ m.client <= lastClient'
       /\ m.type \in {"binary", "audio.chunk_meta"} => m.item \in told'.sent
       /\ m.type = "binary" => \A x \in told.sent : x < m.item
       /\ m.type = "resume.request" => m.item < current

LEMMA SendStep ==
  ASSUME DesktopInv, NEW ms, Sendable(ms), Transmit(ms),
         lastClient' \in Nat, lastClient' >= lastClient, told.sent \subseteq told'.sent,
         UNCHANGED <<current, link, peer, session, pending, lastIndex, heard>>
  PROVE  /\ UpInv' /\ Expected' /\ PeerOK' /\ HeardBefore'
         /\ \A c \in Connections : link[c] # "open" => up'[c] = up[c]
<1>. USE DEF DesktopInv
<1>0. /\ up \in [Connections -> Seq(UpMessage)]
      /\ \A c \in Connections : \A x \in Bytes(up[c]) : x \in told.sent
  BY UpIn DEF UpInv
<1>1. ASSUME NEW c \in Connections
      PROVE  /\ \A m \in Elements(up[c]) : m.seq \in Nat /\ m.client \in Nat
             /\ \A m \in Elements(up[c]) :
                  /\ m.seq <= lastClient' /\ m.client <= lastClient'
                  /\ m.type \in {"binary", "audio.chunk_meta"} => m.item \in told'.sent
                  /\ m.type = "resume.request" => m.item < c
  <2>1. Elements(up[c]) \subseteq UpMessage /\ Counted(c)
    BY UpIn
  <2>2. \A m \in Elements(up[c]) : m.seq \in Nat /\ m.client \in Nat
    BY <2>1 DEF UpMessage
  <2>. QED
    BY <2>1, <2>2 DEF Counted, ClientInv, ClientOK
<1>2. CASE current \in Connections /\ link[current] = "open"
  <2>. DEFINE c == current
              s == up[c]
  <2>1. /\ up' = [up EXCEPT ![c] = s \o ms] /\ c \in Connections
        /\ s \in Seq(UpMessage)
    BY <1>0, <1>2 DEF Transmit
  <2>2. Paired(s, TRUE) /\ Rising(s) /\ HelloFirst(s)
    <3>1. (link[c] = "open") = TRUE
      BY <1>2
    <3>. QED
      BY <2>1, <3>1, UpIn
  <2>3. \A x \in Bytes(ms), y \in told.sent : y < x
    BY DEF Bytes, Sendable
  <2>4. \A x \in Bytes(s), y \in Bytes(ms) : x < y
    BY <1>0, <2>1, <2>3
  <2>5. /\ s \o ms \in Seq(UpMessage)
        /\ Elements(s \o ms) = Elements(s) \cup Elements(ms)
        /\ Bytes(s \o ms) = Bytes(s) \cup Bytes(ms)
        /\ Paired(s \o ms, TRUE) /\ Rising(s \o ms) /\ HelloFirst(s \o ms)
        /\ s # <<>> => s \o ms # <<>> /\ Head(s \o ms) = Head(s)
    BY <2>1, <2>2, <2>4, ConcatKeeps DEF Sendable
  <2>6. /\ up' \in [Connections -> Seq(UpMessage)]
        /\ up'[c] = s \o ms
        /\ \A d \in Connections \ {c} : up'[d] = up[d]
    BY <1>0, <2>1, <2>5
  <2>. HIDE DEF s
  <2>7. \A d \in Connections : d > c => up[d] = <<>>
    BY DEF ClientInv, Fresh
  <2>8. \A d \in Connections : d > c => Bytes(up'[d]) = {}
    <3>1. \A d \in Connections : d > c => d # c
      BY <1>2 DEF Connections
    <3>. QED
      BY <2>6, <2>7, <3>1 DEF Bytes, Elements
  <2>9. UpInv'
    <3>1. ASSUME NEW d \in Connections
          PROVE  /\ Counted(d)' /\ Paired(up'[d], link'[d] = "open")
                 /\ Rising(up'[d]) /\ HelloFirst(up'[d])
      <4>1. CASE d = c
        <5>1. Counted(d)'
          BY <1>1, <2>1, <2>5, <2>6, <4>1 DEF Counted, Sendable, s
        <5>2. (link'[d] = "open") = TRUE
          BY <1>2, <4>1
        <5>. QED
          BY <2>5, <2>6, <4>1, <5>1, <5>2
      <4>2. CASE d # c
        <5>1. up'[d] = up[d] /\ link'[d] = link[d]
          BY <2>6, <4>2
        <5>2. Counted(d)'
          BY <1>1, <5>1 DEF Counted
        <5>3. Paired(up[d], link[d] = "open") /\ Rising(up[d]) /\ HelloFirst(up[d])
          BY UpIn
        <5>. QED
          BY <5>1, <5>2, <5>3
      <4>. QED
        BY <4>1, <4>2
    <3>2. ASSUME NEW d \in Connections, NEW e \in Connections, d < e,
                 NEW x \in Bytes(up'[d]), NEW y \in Bytes(up'[e])
          PROVE  x < y
      <4>1. CASE d = c
        <5>1. e > c
          BY <1>2, <3>2, <4>1 DEF Connections
        <5>. QED
          BY <2>8, <3>2, <5>1
      <4>2. CASE d # c /\ e # c
        BY <2>6, <3>2, <4>2 DEF UpInv
      <4>3. CASE d # c /\ e = c
        <5>1. x \in Bytes(up[d]) /\ x \in told.sent
          BY <1>0, <2>6, <3>2, <4>3
        <5>2. CASE y \in Bytes(s)
          BY <3>2, <4>3, <5>1, <5>2 DEF UpInv, s
        <5>3. CASE y \in Bytes(ms)
          BY <2>3, <5>1, <5>3
        <5>. QED
          BY <2>5, <2>6, <3>2, <4>3, <5>2, <5>3
      <4>. QED
        BY <4>1, <4>2, <4>3
    <3>. QED
      BY <2>6, <3>1, <3>2 DEF UpInv
  <2>10. Expected'
    <3>1. pending[c] # 0 /\ peer[c] # "gone" =>
            s # <<>> /\ Head(s).type = "binary" /\ Head(s).item = pending[c]
      BY <1>2 DEF Expected, s
    <3>. QED
      BY <2>5, <2>6, <3>1 DEF Expected
  <2>11. PeerOK'
    <3>1. ASSUME NEW d \in Connections, peer[d] # "new", NEW m \in Elements(up'[d])
          PROVE  m.type # "auth.hello"
      BY <2>5, <2>6, <3>1 DEF PeerOK, Sendable, Following, s
    <3>2. CountersAgree'
      BY DEF PeerOK, CountersAgree, Meeting, ClientInv, ClientOK
    <3>. QED
      BY <3>1, <3>2 DEF PeerOK
  <2>12. HeardBefore'
    <3>1. ASSUME NEW k \in 1..Len(heard)
          PROVE  /\ heard[k][1] \in told'.sent
                 /\ \A d \in Connections : d >= session.owner =>
                      \A x \in Bytes(up'[d]) : heard[k][1] < x
      <4>1. heard[k][1] \in told.sent
        BY DEF HeardBefore
      <4>2. ASSUME NEW d \in Connections, d >= session.owner, NEW x \in Bytes(up'[d])
            PROVE  heard[k][1] < x
        <5>1. CASE x \in Bytes(up[d])
          BY <4>2, <5>1 DEF HeardBefore
        <5>2. CASE x \in Bytes(ms)
          BY <2>3, <4>1, <5>2
        <5>. QED
          BY <2>5, <2>6, <4>2, <5>1, <5>2 DEF s
      <4>. QED
        BY <4>1, <4>2
    <3>. QED
      BY <3>1 DEF HeardBefore, HeardInOrder
  <2>. QED
    BY <1>2, <2>6, <2>9, <2>10, <2>11, <2>12
<1>3. CASE ~(current \in Connections /\ link[current] = "open")
  <2>1. up' = up
    <3>1. CASE current \in Connections
      BY <1>3, <3>1 DEF Transmit
    <3>2. CASE current \notin Connections
      <4>1. CASE link[current] = "open"
        <5>1. up' = [up EXCEPT ![current] = @ \o ms]
          BY <4>1 DEF Transmit
        <5>. QED
          BY <1>0, <3>2, <5>1
      <4>2. CASE link[current] # "open"
        BY <4>2 DEF Transmit
      <4>. QED
        BY <4>1, <4>2
    <3>. QED
      BY <3>1, <3>2
  <2>2. UpInv'
    <3>1. \A c \in Connections : Counted(c)'
      BY <1>1, <2>1 DEF Counted
    <3>. QED
      BY <2>1, <3>1 DEF UpInv
  <2>3. Expected'
    BY <2>1 DEF Expected
  <2>4. PeerOK'
    BY <2>1 DEF PeerOK, CountersAgree, Meeting, ClientInv, ClientOK
  <2>5. HeardBefore'
    BY <2>1 DEF HeardBefore, HeardInOrder
  <2>. QED
    BY <2>1, <2>2, <2>3, <2>4, <2>5
<1>. QED
  BY <1>2, <1>3

\* The server takes the first message of c.
Taken(c) ==
  /\ peer[c] # "gone" /\ up[c] # <<>>
  /\ up' = [up EXCEPT ![c] = Tail(@)]
  /\ UNCHANGED <<client, numbers, audio, current, link>>

LEMMA TakeStep ==
  ASSUME DesktopInv, NEW c \in Connections, Taken(c)
  PROVE  LET m == Head(up[c]) IN
         /\ UpInv'
         /\ link[c] \in {"open", "closed"}
         /\ m \in UpMessage /\ m.seq <= lastClient /\ m.client <= lastClient
         /\ \A d \in Connections : d # c => up'[d] = up[d]
         /\ \A d \in Connections :
              Elements(up'[d]) \subseteq Elements(up[d]) /\ Bytes(up'[d]) \subseteq Bytes(up[d])
         /\ \A n \in Elements(up'[c]) : n.type # "auth.hello"
         /\ m.type # "binary" => pending[c] = 0
         /\ m.type = "binary" =>
              /\ pending[c] # 0 => pending[c] = m.item
              /\ m.item \in Bytes(up[c]) /\ \A x \in Bytes(up'[c]) : m.item < x
         /\ m.type = "audio.chunk_meta" =>
              IF up'[c] = <<>> THEN link[c] = "closed"
              ELSE Head(up'[c]).type = "binary" /\ Head(up'[c]).item = m.item
         /\ m.type = "resume.request" => m.item < c
         /\ m.type = "auth.hello" => peer[c] = "new"
<1>. USE DEF DesktopInv
<1>. DEFINE s == up[c]
<1>1. /\ s \in Seq(UpMessage) /\ s # <<>> /\ Elements(s) \subseteq UpMessage /\ Counted(c)
      /\ Paired(s, link[c] = "open") /\ Rising(s) /\ HelloFirst(s)
      /\ (link[c] = "open") \in BOOLEAN
  BY UpIn DEF Taken
<1>2. /\ Tail(s) \in Seq(UpMessage)
      /\ Head(s) \in Elements(s) /\ Elements(Tail(s)) \subseteq Elements(s)
      /\ Bytes(Tail(s)) \subseteq Bytes(s)
      /\ Paired(Tail(s), link[c] = "open") /\ Rising(Tail(s)) /\ HelloFirst(Tail(s))
      /\ \A m \in Elements(Tail(s)) : m.type # "auth.hello"
      /\ Head(s).type = "binary" =>
           Head(s).item \in Bytes(s) /\ \A x \in Bytes(Tail(s)) : Head(s).item < x
      /\ Head(s).type = "audio.chunk_meta" =>
           IF Tail(s) = <<>> THEN ~(link[c] = "open")
           ELSE Head(Tail(s)).type = "binary" /\ Head(Tail(s)).item = Head(s).item
  BY <1>1, TailKeeps
<1>3. /\ up' \in [Connections -> Seq(UpMessage)]
      /\ up'[c] = Tail(s)
      /\ \A d \in Connections \ {c} : up'[d] = up[d]
  BY <1>2 DEF Taken, UpInv
<1>4. link[c] \in {"open", "closed"}
  BY <1>1 DEF ClientInv, ClientOK, Fresh
<1>5. \A d \in Connections :
        Elements(up'[d]) \subseteq Elements(up[d]) /\ Bytes(up'[d]) \subseteq Bytes(up[d])
  BY <1>2, <1>3
<1>6. UNCHANGED <<lastClient, told, link, current>>
  BY DEF Taken, client, numbers, audio
<1>7. UpInv'
  <2>1. ASSUME NEW d \in Connections
        PROVE  /\ Counted(d)' /\ Paired(up'[d], link'[d] = "open")
               /\ Rising(up'[d]) /\ HelloFirst(up'[d])
    <3>1. Counted(d)'
      BY <1>5, <1>6, UpIn DEF Counted
    <3>2. CASE d = c
      BY <1>2, <1>3, <1>6, <3>1, <3>2
    <3>3. CASE d # c
      BY <1>3, <1>6, <3>1, <3>3, UpIn
    <3>. QED
      BY <3>2, <3>3
  <2>2. \A d, e \in Connections : d < e =>
          \A x \in Bytes(up'[d]), y \in Bytes(up'[e]) : x < y
    BY <1>5 DEF UpInv
  <2>. QED
    BY <1>3, <2>1, <2>2 DEF UpInv
<1>8. Head(s).seq <= lastClient /\ Head(s).client <= lastClient
      /\ (Head(s).type = "resume.request" => Head(s).item < c)
  BY <1>1, <1>2 DEF Counted
<1>9. /\ Head(s).type # "binary" => pending[c] = 0
      /\ Head(s).type = "binary" /\ pending[c] # 0 => pending[c] = Head(s).item
  BY <1>1 DEF Expected, Taken
<1>10. Head(s).type = "auth.hello" => peer[c] = "new"
  BY <1>2 DEF PeerOK
<1>11. Head(s) \in UpMessage
  BY <1>1, <1>2
<1>. HIDE DEF s
<1>12. /\ Head(s).type = "audio.chunk_meta" =>
            IF up'[c] = <<>> THEN link[c] = "closed"
            ELSE Head(up'[c]).type = "binary" /\ Head(up'[c]).item = Head(s).item
       /\ \A n \in Elements(up'[c]) : n.type # "auth.hello"
       /\ Head(s).type = "binary" => \A x \in Bytes(up'[c]) : Head(s).item < x
  BY <1>2, <1>3, <1>4
<1>. QED
  BY <1>2, <1>3, <1>4, <1>5, <1>7, <1>8, <1>9, <1>10, <1>11, <1>12 DEF s

\* What the server sends leaves the client's side as it is.
LEMMA ReplyStep ==
  ASSUME DesktopInv, NEW c \in Connections, peer[c] # "new",
         UNCHANGED <<client, numbers, audio, current, link>>,
         \A d \in Connections :
           /\ peer'[d] = "new" <=> peer[d] = "new"
           /\ up[d] = <<>> => up'[d] = <<>>,
         NEW ms \in Seq(DownMessage), Replies(c, ms) \/ down' = down
  PROVE  ClientInv' /\ AudioInv'
<1>. USE DEF DesktopInv
<1>1. /\ down' \in [Connections -> Seq(DownMessage)]
      /\ \A d \in Connections \ {c} : down'[d] = down[d]
      /\ down[c] # <<>> => down'[c] # <<>> /\ Head(down'[c]) = Head(down[c])
  <2>1. down[c] \in Seq(DownMessage)
    BY DEF ClientInv, ClientOK
  <2>2. /\ down[c] \o ms \in Seq(DownMessage)
        /\ down[c] # <<>> => down[c] \o ms # <<>> /\ Head(down[c] \o ms) = Head(down[c])
    BY <2>1
  <2>3. CASE down' = down
    BY <2>3 DEF ClientInv, ClientOK
  <2>4. CASE Replies(c, ms)
    BY <2>2, <2>4 DEF Replies, ClientInv, ClientOK
  <2>. QED
    BY <2>3, <2>4
<1>2. ClientOK' /\ Attached'
  BY <1>1 DEF ClientInv, ClientOK, Attached, client, numbers
<1>3. AcceptedFirst'
  <2>1. current \in Connections \/ current = 0
    BY DEF ClientInv, ClientOK, Connections
  <2>2. UNCHANGED <<known, current, link>>
    BY DEF client
  <2>. QED
    BY <1>1, <2>1, <2>2 DEF ClientInv, AcceptedFirst
<1>4. Fresh'
  <2>1. UNCHANGED <<current, link>>
    OBVIOUS
  <2>. QED
    BY <1>1, <2>1 DEF ClientInv, Fresh
<1>5. AudioInv'
  BY DEF AudioInv, audio
<1>. QED
  BY <1>2, <1>3, <1>4, <1>5 DEF ClientInv

\* What was heard stays behind what is to be heard.
LEMMA HeardStays ==
  ASSUME DesktopInv, heard' = heard, told' = told, session'.owner >= session.owner,
         session'.owner \in Nat,
         \A c \in Connections : Bytes(up'[c]) \subseteq Bytes(up[c])
  PROVE  HeardBefore'
<1>1. session.owner \in Nat
  BY DesktopAssumption DEF DesktopInv, PeerOK, Meeting
<1>2. \A c \in Connections : c >= session'.owner => c >= session.owner
  BY <1>1 DEF Connections
<1>. QED
  BY <1>2 DEF DesktopInv, HeardBefore, HeardInOrder

\* A message that leaves the session with its connection, or ends it.
LEMMA ServeStep ==
  ASSUME DesktopInv, NEW c \in Connections, Taken(c), peer[c] # "new",
         NEW ms \in Seq(DownMessage), Replies(c, ms) \/ down' = down,
         peer' \in [Connections -> {"new", "temporary", "session", "none", "gone"}],
         \A d \in Connections :
           peer'[d] = peer[d] \/ (d = c /\ peer'[d] \in {"none", "gone"}),
         session' \in Meeting, session'.owner = session.owner,
         session'.state = "none" <=> session.state = "none",
         session'.clientSeq <= lastClient,
         pending' \in [Connections -> Nat],
         \A d \in Connections \ {c} : pending'[d] = pending[d],
         \/ pending'[c] = 0 \/ peer'[c] = "gone"
         \/ Head(up[c]).type = "audio.chunk_meta" /\ pending'[c] = Head(up[c]).item,
         lastIndex' \in [Connections -> Nat],
         \/ heard' = heard
         \/ /\ Head(up[c]).type = "binary" /\ pending[c] # 0 /\ peer[c] = "session"
            /\ heard' = Append(heard, <<pending[c], Head(up[c]).item>>)
  PROVE  DesktopInv'
<1>. USE DEF DesktopInv
<1>. DEFINE m == Head(up[c])
<1>1. /\ UpInv' /\ link[c] \in {"open", "closed"}
      /\ \A d \in Connections : d # c => up'[d] = up[d]
      /\ \A d \in Connections :
           Elements(up'[d]) \subseteq Elements(up[d]) /\ Bytes(up'[d]) \subseteq Bytes(up[d])
      /\ m.type = "binary" =>
           /\ pending[c] # 0 => pending[c] = m.item
           /\ m.item \in Bytes(up[c]) /\ \A x \in Bytes(up'[c]) : m.item < x
      /\ m.type = "audio.chunk_meta" =>
           IF up'[c] = <<>> THEN link[c] = "closed"
           ELSE Head(up'[c]).type = "binary" /\ Head(up'[c]).item = m.item
      /\ m \in UpMessage
  BY TakeStep
<1>2. UNCHANGED <<client, numbers, audio, current, link>> /\ UNCHANGED <<told, lastClient>>
  BY DEF Taken, audio, numbers
<1>. HIDE DEF m
<1>3. ClientInv' /\ AudioInv'
  <2>1. \A d \in Connections : up[d] = <<>> => up'[d] = <<>>
    BY <1>1 DEF Taken
  <2>. QED
    BY <1>2, <2>1, ReplyStep
<1>4. Expected'
  <2>. SUFFICES ASSUME NEW d \in Connections, pending'[d] # 0, peer'[d] # "gone"
                PROVE  IF up'[d] = <<>> THEN link[d] = "closed"
                       ELSE Head(up'[d]).type = "binary" /\ Head(up'[d]).item = pending'[d]
    BY <1>2 DEF Expected
  <2>1. CASE d = c
    BY <1>1, <2>1 DEF m
  <2>2. CASE d # c
    BY <1>1, <2>2 DEF Expected
  <2>. QED
    BY <2>1, <2>2
<1>5. PeerOK'
  <2>1. CountersAgree'
    BY <1>2 DEF CountersAgree
  <2>2. 1 \in Connections
    BY DesktopAssumption DEF Connections
  <2>. QED
    BY <1>1, <2>1, <2>2 DEF PeerOK
<1>6. HeardBefore'
  <2>1. session'.owner \in Nat /\ session'.owner >= session.owner
    BY DesktopAssumption DEF Meeting
  <2>2. CASE heard' = heard
    BY <1>1, <1>2, <2>1, <2>2, HeardStays
  <2>3. CASE /\ m.type = "binary" /\ pending[c] # 0 /\ peer[c] = "session"
             /\ heard' = Append(heard, <<pending[c], m.item>>)
    <3>. DEFINE x == m.item
                n == Len(heard)
    <3>1. /\ x \in Nat /\ x \in Bytes(up[c]) /\ x \in told.sent /\ c = session.owner
          /\ heard' = Append(heard, <<x, x>>)
          /\ \A y \in Bytes(up'[c]) : x < y
      <4>1. x \in Nat
        BY <1>1 DEF UpMessage
      <4>2. x \in Bytes(up[c]) /\ pending[c] = x /\ \A y \in Bytes(up'[c]) : x < y
        BY <1>1, <2>3
      <4>3. x \in told.sent
        BY <4>2, UpIn
      <4>. QED
        BY <2>3, <4>1, <4>2, <4>3 DEF PeerOK
    <3>. HIDE DEF x
    <3>2. /\ n \in Nat /\ heard' \in Seq(Nat \X Nat) /\ Len(heard') = n + 1
          /\ heard'[n + 1] = <<x, x>>
          /\ \A k \in 1..n : heard'[k] = heard[k]
      BY <3>1 DEF HeardBefore
    <3>. HIDE DEF n
    <3>3. \A k \in 1..n : heard[k][1] < x
      BY <3>1, <2>1 DEF HeardBefore, n
    <3>4. HeardInOrder'
      <4>1. \A k \in 1..(n + 1) : k \in 1..n \/ k = n + 1
        BY <3>2
      <4>2. ASSUME NEW k \in 1..(n + 1)
            PROVE  heard'[k][1] = heard'[k][2]
        <5>1. CASE k \in 1..n
          BY <3>2, <5>1 DEF HeardBefore, HeardInOrder, n
        <5>2. CASE k = n + 1
          BY <3>2, <5>2
        <5>. QED
          BY <4>1, <5>1, <5>2
      <4>3. ASSUME NEW j \in 1..(n + 1), NEW k \in 1..(n + 1), j < k
            PROVE  heard'[j][1] < heard'[k][1]
        <5>1. j \in 1..n
          BY <3>2, <4>3
        <5>2. CASE k \in 1..n
          BY <3>2, <4>3, <5>1, <5>2 DEF HeardBefore, HeardInOrder, n
        <5>3. CASE k = n + 1
          BY <3>2, <3>3, <5>1, <5>3
        <5>. QED
          BY <4>1, <5>2, <5>3
      <4>. QED
        BY <3>2, <4>2, <4>3 DEF HeardInOrder
    <3>5. ASSUME NEW k \in 1..(n + 1)
          PROVE  /\ heard'[k][1] \in told.sent
                 /\ \A d \in Connections : d >= session.owner =>
                      \A y \in Bytes(up'[d]) : heard'[k][1] < y
      <4>1. CASE k \in 1..n
        BY <1>1, <3>2, <4>1 DEF HeardBefore, n
      <4>2. CASE k = n + 1
        <5>1. ASSUME NEW d \in Connections, d >= session.owner, NEW y \in Bytes(up'[d])
              PROVE  x < y
          <6>1. CASE d = c
            BY <3>1, <5>1, <6>1
          <6>2. CASE d # c
            <7>1. c < d
              BY <3>1, <5>1, <6>2 DEF Connections
            <7>2. y \in Bytes(up[d])
              BY <1>1, <5>1
            <7>. QED
              BY <3>1, <7>1, <7>2 DEF UpInv
          <6>. QED
            BY <6>1, <6>2
        <5>. QED
          BY <3>1, <3>2, <4>2, <5>1
      <4>. QED
        BY <3>2, <4>1, <4>2
    <3>. QED
      BY <1>2, <3>2, <3>4, <3>5 DEF HeardBefore
  <2>. QED
    BY <2>2, <2>3 DEF m
<1>. QED
  BY <1>1, <1>3, <1>4, <1>5, <1>6

-----------------------------------------------------------------------------
(* The steps of the client *)

LEMMA ConnectionIs ==
  /\ 1 \in Connections /\ Connections \subseteq Nat
  /\ ClientOK => current \in Connections \/ current = 0
BY DesktopAssumption DEF ClientOK, Connections

\* A new connection begins.
LEMMA StartStep ==
  ASSUME DesktopInv, StartSession \/ Resume
  PROVE  DesktopInv'
<1>. USE DEF DesktopInv
<1>1. /\ current < MaxConnections /\ current' = current + 1 /\ nextSeq' = 1
      /\ link' = [link EXCEPT ![current + 1] = "connecting"]
      /\ UNCHANGED <<known, own, limit, lastClient, lastServer, audio, up, down, server>>
      /\ \/ /\ status = "idle" /\ status' = "connecting"
            /\ UNCHANGED <<previous, resuming, timer>>
         \/ /\ timer /\ timer' = FALSE /\ previous' = own /\ resuming' = TRUE
            /\ status' = "reconnecting"
  BY DEF StartSession, Resume, NextConnection
<1>2. current + 1 \in Connections /\ current \in Nat /\ MaxConnections \in Nat
  BY <1>1, DesktopAssumption DEF ClientInv, ClientOK, Connections
<1>3. link[current + 1] = "none"
  BY <1>2 DEF ClientInv, Fresh
<1>4. ClientOK'
  <2>1. current' \in 0..MaxConnections
    BY <1>1, <1>2
  <2>2. /\ link' \in [Connections -> {"none", "connecting", "open", "closed"}]
        /\ down' \in [Connections -> Seq(DownMessage)]
        /\ nextSeq' \in Nat
    BY <1>1, <1>2 DEF ClientInv, ClientOK
  <2>3. previous' \in 0..MaxConnections /\ resuming' \in BOOLEAN /\ timer' \in BOOLEAN
    BY <1>1 DEF ClientInv, ClientOK
  <2>. QED
    BY <1>1, <2>1, <2>2, <2>3 DEF ClientInv, ClientOK
<1>5. Attached'
  BY <1>1, <1>2 DEF ClientInv, ClientOK, Attached
<1>6. AcceptedFirst'
  BY <1>1, <1>2 DEF ClientInv, ClientOK, AcceptedFirst
<1>7. Fresh'
  <2>1. \A c \in Connections : c > current + 1 => c > current /\ c # current + 1
    BY <1>2, ConnectionIs
  <2>. QED
    BY <1>1, <1>2, <1>3, <2>1 DEF ClientInv, ClientOK, Fresh, server
<1>8. AudioInv'
  BY <1>1 DEF AudioInv, audio
<1>9. UpInv' /\ Expected' /\ PeerOK' /\ HeardBefore'
  <2>1. \A c \in Connections :
          /\ link'[c] = "open" => link[c] = "open"
          /\ link[c] = "closed" => link'[c] = "closed"
    BY <1>1, <1>2, <1>3 DEF ClientInv, ClientOK
  <2>2. lastClient' \in Nat /\ lastClient' >= lastClient
    BY <1>1 DEF ClientInv, ClientOK
  <2>. QED
    BY <1>1, <2>1, <2>2, QuietStep DEF audio, server
<1>. QED
  BY <1>4, <1>5, <1>6, <1>7, <1>8, <1>9 DEF ClientInv

\* auth.hello is the first message of a connection.
LEMMA OpenStep ==
  ASSUME DesktopInv, Open
  PROVE  DesktopInv'
<1>. USE DEF DesktopInv
<1>. DEFINE c == current
            hello == Up("auth.hello", nextSeq, 0)
<1>1. /\ c # 0 /\ link[c] = "connecting"
      /\ link' = [link EXCEPT ![c] = "open"]
      /\ up' = [up EXCEPT ![c] = <<hello>>]
      /\ nextSeq' = nextSeq + 1 /\ lastClient' = Larger(lastClient, nextSeq)
      /\ UNCHANGED <<client, lastServer, audio, current, down, server>>
  BY DEF Open
<1>2. c \in Connections
  BY <1>1, ConnectionIs DEF ClientInv
<1>3. nextSeq \in Nat /\ lastClient' \in Nat /\ lastClient' >= lastClient /\ lastClient' >= nextSeq
  BY <1>1 DEF ClientInv, ClientOK, Larger
<1>4. /\ hello \in UpMessage /\ hello.type = "auth.hello" /\ hello.seq = nextSeq
      /\ hello.client = 0
  BY <1>3, UpIs DEF UpTypes
<1>5. peer[c] = "new" /\ up[c] = <<>> /\ down[c] = <<>>
  BY <1>1, <1>2 DEF ClientInv, Fresh
<1>. DEFINE s == <<hello>>
<1>6. s \in Seq(UpMessage) /\ Len(s) = 1 /\ s[1] = hello
  BY <1>4
<1>. HIDE DEF hello
<1>7. /\ up' \in [Connections -> Seq(UpMessage)] /\ up'[c] = s
      /\ \A d \in Connections \ {c} : up'[d] = up[d] /\ link'[d] = link[d]
      /\ link'[c] = "open"
      /\ link' \in [Connections -> {"none", "connecting", "open", "closed"}]
  BY <1>1, <1>2, <1>6 DEF UpInv, ClientInv, ClientOK
<1>. HIDE DEF s, c
<1>8. Elements(s) = {hello} /\ Bytes(s) = {}
  <2>1. Elements(s) = {hello}
    BY <1>6 DEF Elements
  <2>. QED
    BY <1>4, <2>1 DEF Bytes
<1>9. Paired(s, TRUE) /\ Rising(s) /\ HelloFirst(s)
  BY <1>4, <1>6 DEF Paired, Rising, HelloFirst
<1>10. UNCHANGED <<told, peer, session, pending, lastIndex, heard, known, down>> /\ current' = c
  BY <1>1 DEF audio, server, client, c
<1>11. ClientInv'
  <2>1. ClientOK'
    BY <1>1, <1>3, <1>7 DEF ClientInv, ClientOK, client
  <2>2. Attached'
    BY <1>1, <1>7, <1>10 DEF ClientInv, Attached, client, c
  <2>3. AcceptedFirst'
    BY <1>5, <1>10 DEF AcceptedFirst
  <2>4. Fresh'
    <3>1. c \in Nat
      BY <1>2, ConnectionIs
    <3>. QED
      BY <1>2, <1>5, <1>7, <1>10, <3>1 DEF ClientInv, Fresh, c
  <2>. QED
    BY <2>1, <2>2, <2>3, <2>4 DEF ClientInv
<1>12. AudioInv'
  BY <1>1 DEF AudioInv, audio
<1>13. UpInv'
  <2>1. ASSUME NEW d \in Connections
        PROVE  /\ Counted(d)' /\ Paired(up'[d], link'[d] = "open")
               /\ Rising(up'[d]) /\ HelloFirst(up'[d])
    <3>1. CASE d = c
      <4>1. Counted(d)'
        BY <1>3, <1>4, <1>7, <1>8, <3>1 DEF Counted
      <4>2. (link'[d] = "open") = TRUE
        BY <1>7, <3>1
      <4>. QED
        BY <1>7, <1>9, <3>1, <4>1, <4>2
    <3>2. CASE d # c
      <4>1. Counted(d) /\ Elements(up[d]) \subseteq UpMessage
        BY UpIn
      <4>2. \A m \in Elements(up[d]) : m.seq \in Nat /\ m.client \in Nat
        BY <4>1 DEF UpMessage
      <4>3. lastClient \in Nat
        BY DEF ClientInv, ClientOK
      <4>4. Counted(d)'
        BY <1>3, <1>7, <1>10, <3>2, <4>1, <4>2, <4>3 DEF Counted
      <4>. QED
        BY <1>7, <3>2, <4>4, UpIn
    <3>. QED
      BY <3>1, <3>2
  <2>2. \A d, e \in Connections : d < e =>
          \A x \in Bytes(up'[d]), y \in Bytes(up'[e]) : x < y
    BY <1>7, <1>8 DEF UpInv
  <2>. QED
    BY <1>7, <2>1, <2>2 DEF UpInv
<1>14. Expected'
  <2>1. pending[c] = 0
    BY <1>1, <1>2, <1>5 DEF Expected, c
  <2>. QED
    BY <1>7, <1>10, <2>1 DEF Expected
<1>15. PeerOK'
  <2>1. CountersAgree'
    BY <1>3, <1>10 DEF PeerOK, CountersAgree, Meeting, ClientInv, ClientOK
  <2>. QED
    BY <1>5, <1>7, <1>10, <2>1 DEF PeerOK
<1>16. HeardBefore'
  <2>1. \A d \in Connections : Bytes(up'[d]) \subseteq Bytes(up[d])
    BY <1>7, <1>8
  <2>2. session'.owner >= session.owner /\ session'.owner \in Nat
    BY <1>10, DesktopAssumption DEF PeerOK, Meeting
  <2>. QED
    BY <1>10, <2>1, <2>2, HeardStays
<1>. QED
  BY <1>11, <1>12, <1>13, <1>14, <1>15, <1>16

\* The connection is lost.
LEMMA LostStep ==
  ASSUME DesktopInv, LinkLost
  PROVE  DesktopInv'
<1>. USE DEF DesktopInv
<1>. DEFINE c == current
<1>1. /\ c # 0 /\ link[c] \in {"connecting", "open"}
      /\ link' = [link EXCEPT ![c] = "closed"]
      /\ down' = [down EXCEPT ![c] = <<>>]
      /\ \/ /\ status \in {"streaming", "degraded"}
            /\ status' = "reconnecting" /\ timer' = TRUE
         \/ status' = "closed" /\ timer' = timer
      /\ UNCHANGED <<known, own, previous, resuming, limit, numbers, audio, current, server>>
  BY DEF LinkLost, Closed
<1>2. PICK n \in 0..Len(up[c]) : up' = [up EXCEPT ![c] = SubSeq(up[c], 1, n)]
  BY DEF LinkLost
<1>3. c \in Connections
  BY <1>1, ConnectionIs DEF ClientInv
<1>. DEFINE s == SubSeq(up[c], 1, n)
<1>4. /\ s \in Seq(UpMessage) /\ Elements(s) \subseteq Elements(up[c])
      /\ Bytes(s) \subseteq Bytes(up[c])
      /\ Paired(s, FALSE) /\ Rising(s) /\ HelloFirst(s)
      /\ s # <<>> => up[c] # <<>> /\ Head(s) = Head(up[c])
  <2>1. /\ up[c] \in Seq(UpMessage) /\ (link[c] = "open") \in BOOLEAN
        /\ Paired(up[c], link[c] = "open") /\ Rising(up[c]) /\ HelloFirst(up[c])
    BY <1>3, UpIn
  <2>. QED
    BY <2>1, PrefixKeeps
<1>5. /\ up' \in [Connections -> Seq(UpMessage)] /\ up'[c] = s
      /\ \A d \in Connections \ {c} : up'[d] = up[d] /\ link'[d] = link[d] /\ down'[d] = down[d]
      /\ link'[c] = "closed" /\ down'[c] = <<>>
      /\ link' \in [Connections -> {"none", "connecting", "open", "closed"}]
      /\ down' \in [Connections -> Seq(DownMessage)]
  BY <1>1, <1>2, <1>3, <1>4 DEF UpInv, ClientInv, ClientOK
<1>6. /\ UNCHANGED <<told, lastClient, peer, session, pending, lastIndex, heard, known>>
      /\ current' = c
  BY <1>1 DEF audio, server, numbers
<1>. HIDE DEF s, c
<1>7. ClientInv'
  <2>1. ClientOK'
    BY <1>1, <1>5 DEF ClientInv, ClientOK, numbers
  <2>2. Attached'
    <3>1. ~timer
      BY <1>1 DEF ClientInv, Attached, c
    <3>. QED
      BY <1>1, <1>5, <1>6, <3>1 DEF ClientInv, Attached, c
  <2>3. AcceptedFirst'
    BY <1>5, <1>6 DEF AcceptedFirst
  <2>4. Fresh'
    <3>1. c = current /\ c \in Nat
      BY <1>3, ConnectionIs DEF c
    <3>2. ASSUME NEW d \in Connections
          PROVE  /\ d > c => link'[d] = "none"
                 /\ link'[d] \in {"none", "connecting"} => peer[d] = "new" /\ up'[d] = <<>>
                 /\ peer[d] = "new" => down'[d] = <<>>
      <4>1. CASE d = c
        BY <1>5, <3>1, <4>1
      <4>2. CASE d # c
        BY <1>5, <3>1, <4>2 DEF ClientInv, Fresh
      <4>. QED
        BY <4>1, <4>2
    <3>. QED
      BY <1>6, <3>2 DEF Fresh
  <2>. QED
    BY <2>1, <2>2, <2>3, <2>4 DEF ClientInv
<1>8. AudioInv'
  BY <1>1 DEF AudioInv, audio
<1>9. \A d \in Connections :
        Elements(up'[d]) \subseteq Elements(up[d]) /\ Bytes(up'[d]) \subseteq Bytes(up[d])
  BY <1>4, <1>5
<1>10. UpInv'
  <2>1. ASSUME NEW d \in Connections
        PROVE  /\ Counted(d)' /\ Paired(up'[d], link'[d] = "open")
               /\ Rising(up'[d]) /\ HelloFirst(up'[d])
    <3>1. Counted(d)'
      BY <1>6, <1>9, UpIn DEF Counted
    <3>2. CASE d = c
      <4>1. (link'[d] = "open") = FALSE
        BY <1>5, <3>2
      <4>. QED
        BY <1>4, <1>5, <3>1, <3>2, <4>1
    <3>3. CASE d # c
      BY <1>5, <3>1, <3>3, UpIn
    <3>. QED
      BY <3>2, <3>3
  <2>2. \A d, e \in Connections : d < e =>
          \A x \in Bytes(up'[d]), y \in Bytes(up'[e]) : x < y
    BY <1>9 DEF UpInv
  <2>. QED
    BY <1>5, <2>1, <2>2 DEF UpInv
<1>11. Expected'
  <2>. SUFFICES ASSUME NEW d \in Connections, pending[d] # 0, peer[d] # "gone"
                PROVE  IF up'[d] = <<>> THEN link'[d] = "closed"
                       ELSE Head(up'[d]).type = "binary" /\ Head(up'[d]).item = pending[d]
    BY <1>6 DEF Expected
  <2>. QED
    BY <1>4, <1>5 DEF Expected
<1>12. PeerOK'
  BY <1>6, <1>9 DEF PeerOK, CountersAgree
<1>13. HeardBefore'
  <2>1. session'.owner >= session.owner /\ session'.owner \in Nat
    BY <1>6, DesktopAssumption DEF PeerOK, Meeting
  <2>. QED
    BY <1>6, <1>9, <2>1, HeardStays
<1>. QED
  BY <1>7, <1>8, <1>10, <1>11, <1>12, <1>13

LEMMA FollowingConcat ==
  ASSUME NEW s, NEW t, Following(s), Following(t), Bytes(s) = {}
  PROVE  Following(s \o t) /\ Elements(s \o t) = Elements(s) \cup Elements(t)
<1>1. s \in Seq(UpMessage) /\ t \in Seq(UpMessage) /\ Paired(s, TRUE) /\ Rising(s)
  BY DEF Following
<1>2. /\ s \o t \in Seq(UpMessage) /\ Elements(s \o t) = Elements(s) \cup Elements(t)
      /\ Paired(s \o t, TRUE) /\ Rising(s \o t)
      /\ s # <<>> => s \o t # <<>> /\ Head(s \o t) = Head(s)
  BY <1>1, ConcatKeeps
<1>3. s \o t # <<>> => (s \o t)[1].type # "binary"
  <2>1. CASE s = <<>>
    <3>1. s \o t = t
      BY <1>1, <2>1
    <3>. QED
      BY <3>1 DEF Following
  <2>2. CASE s # <<>>
    <3>1. (s \o t)[1] = s[1]
      BY <1>1, <1>2, <2>2
    <3>. QED
      BY <2>2, <3>1 DEF Following
  <2>. QED
    BY <2>1, <2>2
<1>. QED
  BY <1>2, <1>3 DEF Following

\* The first messages of a flush: none, or one that was numbered.
Before(ms, ahead) ==
  /\ Following(ms) /\ Bytes(ms) = {}
  /\ \A m \in Elements(ms) :
       /\ m.type \notin {"binary", "audio.chunk_meta"}
       /\ m.seq <= nextSeq + ahead - 1 /\ m.client <= lastClient
       /\ m.type = "resume.request" => m.item < current

LEMMA FlushStep ==
  ASSUME DesktopInv, NEW b, NEW g, NEW n \in Nat, Stock(b, g, told, n),
         NEW ms, NEW ahead \in Nat, Before(ms, ahead), Flush(g, b, ms, ahead),
         UNCHANGED <<current, link, peer, session, pending, lastIndex, heard>>
  PROVE  /\ Stock(buffer', gaps', told', n)
         /\ nextSeq' \in Nat /\ lastClient' \in Nat
         /\ UpInv' /\ Expected' /\ PeerOK' /\ HeardBefore'
         /\ \A c \in Connections : link[c] # "open" => up'[c] = up[c]
<1>. DEFINE f == Flushed(g, b, nextSeq + ahead)
            count == ahead + Len(g) + Len(b)
<1>1. /\ Transmit(ms \o f) /\ nextSeq' = nextSeq + count
      /\ lastClient' = Larger(lastClient, nextSeq + count - 1)
      /\ buffer' = <<>> /\ gaps' = <<>>
      /\ told' = [sent |-> told.sent \cup Elements(b), dropped |-> told.dropped \cup Elements(g)]
  BY DEF Flush, Send
<1>2. nextSeq \in Nat /\ lastClient \in Nat
  BY DEF DesktopInv, ClientInv, ClientOK
<1>3. /\ b \in Seq(Nat) /\ g \in Seq(Nat) /\ Ascending(b)
      /\ Len(b) \in Nat /\ Len(g) \in Nat /\ count \in Nat
      /\ \A x \in told.sent, y \in Elements(b) : x < y
  BY DEF Stock
<1>4. Stock(buffer', gaps', told', n)
  BY <1>1, StockFlushed
<1>5. told'.sent = told.sent \cup Elements(b)
  BY <1>1
<1>6. /\ Following(f)
      /\ \A m \in Elements(f) :
           /\ m.type \in {"audio.gap", "audio.chunk_meta", "binary"}
           /\ m.type # "audio.gap" => m.item \in Elements(b)
           /\ m.seq = 0 \/ m.seq <= (nextSeq + ahead) + Len(g) + Len(b) - 1
           /\ m.client = 0
  <2>1. nextSeq + ahead \in Nat
    BY <1>2
  <2>. QED
    BY <1>3, <2>1, FlushedFollows
<1>7. /\ lastClient' \in Nat /\ lastClient' >= lastClient
      /\ lastClient' >= nextSeq + count - 1 /\ nextSeq' \in Nat
      /\ nextSeq + count - 1 = (nextSeq + ahead) + Len(g) + Len(b) - 1
  BY <1>1, <1>2, <1>3 DEF Larger
<1>. HIDE DEF f
<1>8. Following(ms \o f) /\ Elements(ms \o f) = Elements(ms) \cup Elements(f)
  BY <1>6, FollowingConcat DEF Before
<1>9. ASSUME NEW m \in Elements(ms)
      PROVE  /\ m.seq <= lastClient' /\ m.client <= lastClient'
             /\ m.type \notin {"binary", "audio.chunk_meta"}
             /\ m.type = "resume.request" => m.item < current
  <2>1. m \in UpMessage
    <3>1. ms \in Seq(UpMessage)
      BY DEF Before, Following
    <3>. QED
      BY <3>1, ElementsIn
  <2>2. m.seq \in Nat /\ m.client \in Nat
    BY <2>1 DEF UpMessage
  <2>3. m.seq <= nextSeq + ahead - 1 /\ m.client <= lastClient
    BY DEF Before
  <2>4. m.seq <= lastClient' /\ m.client <= lastClient'
    BY <1>2, <1>3, <1>7, <2>2, <2>3
  <2>. QED
    BY <2>4 DEF Before
<1>10. ASSUME NEW m \in Elements(f)
       PROVE  /\ m.seq <= lastClient' /\ m.client <= lastClient'
              /\ m.type \in {"binary", "audio.chunk_meta"} => m.item \in Elements(b)
              /\ m.type # "resume.request"
  <2>1. m \in UpMessage
    <3>1. f \in Seq(UpMessage)
      BY <1>6 DEF Following
    <3>. QED
      BY <3>1, ElementsIn
  <2>2. m.seq \in Nat /\ m.client \in Nat
    BY <2>1 DEF UpMessage
  <2>3. m.client <= lastClient'
    BY <1>6, <1>7
  <2>4. m.seq <= lastClient'
    <3>1. (nextSeq + ahead) + Len(g) + Len(b) - 1 <= lastClient'
      BY <1>2, <1>3, <1>7
    <3>2. m.seq = 0 \/ m.seq <= (nextSeq + ahead) + Len(g) + Len(b) - 1
      BY <1>6
    <3>3. CASE m.seq = 0
      BY <1>7, <3>3
    <3>4. CASE m.seq <= (nextSeq + ahead) + Len(g) + Len(b) - 1
      <4>1. Len(g) \in Nat /\ Len(b) \in Nat /\ nextSeq \in Nat /\ lastClient' \in Nat
        BY <1>2, <1>3, <1>7
      <4>. QED
        BY <2>2, <3>1, <3>4, <4>1
    <3>. QED
      BY <3>2, <3>3, <3>4
  <2>. QED
    BY <1>6, <2>3, <2>4
<1>11. Sendable(ms \o f)
  BY <1>3, <1>5, <1>8, <1>9, <1>10 DEF Sendable
<1>. HIDE DEF count
<1>12. told.sent \subseteq told'.sent
  BY <1>5
<1>. QED
  BY <1>1, <1>4, <1>7, <1>11, <1>12, SendStep

\* The client's side, when only its numbers and its audio change.
LEMMA ClientKeeps ==
  ASSUME DesktopInv, UNCHANGED <<client, lastServer, current, link, down, peer>>,
         nextSeq' \in Nat, lastClient' \in Nat,
         \A c \in Connections : link[c] # "open" => up'[c] = up[c]
  PROVE  ClientInv'
<1>. USE DEF DesktopInv
<1>1. ClientOK'
  BY DEF ClientInv, ClientOK, client
<1>2. Attached' /\ AcceptedFirst'
  BY DEF ClientInv, Attached, AcceptedFirst, client
<1>3. Fresh'
  BY DEF ClientInv, Fresh
<1>. QED
  BY <1>1, <1>2, <1>3 DEF ClientInv

\* A message of the user, or session.start.
LEMMA OneSent ==
  ASSUME DesktopInv, NEW type \in {"session.start", "session.end", "suggestion.request"},
         Send(<<Up(type, nextSeq, 0)>>, 1), told' = told,
         UNCHANGED <<current, link, peer, session, pending, lastIndex, heard>>
  PROVE  /\ nextSeq' \in Nat /\ lastClient' \in Nat
         /\ UpInv' /\ Expected' /\ PeerOK' /\ HeardBefore'
         /\ \A c \in Connections : link[c] # "open" => up'[c] = up[c]
<1>. DEFINE m == Up(type, nextSeq, 0)
<1>1. nextSeq \in Nat /\ lastClient \in Nat
  BY DEF DesktopInv, ClientInv, ClientOK
<1>2. m \in UpMessage /\ m.type = type /\ m.seq = nextSeq /\ m.client = 0
  BY <1>1, UpIs DEF UpTypes
<1>3. /\ Transmit(<<m>>) /\ nextSeq' = nextSeq + 1
      /\ lastClient' = Larger(lastClient, nextSeq + 1 - 1)
  BY DEF Send
<1>. HIDE DEF m
<1>4. /\ nextSeq' \in Nat /\ lastClient' \in Nat
      /\ lastClient' >= lastClient /\ lastClient' >= nextSeq
  BY <1>1, <1>3 DEF Larger
<1>5. Following(<<m>>) /\ Elements(<<m>>) = {m}
  BY <1>2, OneFollows
<1>6. Sendable(<<m>>)
  BY <1>2, <1>4, <1>5 DEF Sendable
<1>. QED
  BY <1>3, <1>4, <1>6, SendStep

LEMMA NothingBefore == Before(<<>>, 0)
<1>1. <<>> \in Seq(UpMessage) /\ Elements(<<>>) = {} /\ Bytes(<<>>) = {}
  BY DEF Elements, Bytes
<1>2. Paired(<<>>, TRUE) /\ Rising(<<>>)
  BY DEF Paired, Rising
<1>. QED
  BY <1>1, <1>2 DEF Before, Following

\* The microphone has delivered a chunk, or lost one.
LEMMA CaptureStep ==
  ASSUME DesktopInv, SendAudioChunk \/ SendAudioGap
  PROVE  DesktopInv'
<1>. USE DEF DesktopInv
<1>1. captured \in Nat /\ Stock(buffer, gaps, told, captured) /\ limit \in Nat
  BY DEF AudioInv, ClientInv, ClientOK
<1>2. PICK b, g : Captures(b, g) /\ Stock(b, g, told, captured + 1)
  <2>1. CASE SendAudioChunk
    <3>. DEFINE b == Append(buffer, captured + 1)
    <3>1. Stock(b, gaps, told, captured + 1)
      BY <1>1, StockGrows
    <3>2. captured + 1 \in Nat
      BY <1>1
    <3>3. Captures(Trimmed(b, limit), gaps \o DroppedOf(b, limit))
      BY <2>1 DEF SendAudioChunk
    <3>. HIDE DEF b
    <3>4. Stock(Trimmed(b, limit), gaps \o DroppedOf(b, limit), told, captured + 1)
      BY <1>1, <3>1, <3>2, StockTrimmed
    <3>. QED
      BY <3>3, <3>4
  <2>2. CASE SendAudioGap
    <3>1. Stock(buffer, Append(gaps, captured + 1), told, captured + 1)
      BY <1>1, StockGrows
    <3>. QED
      BY <2>2, <3>1 DEF SendAudioGap
  <2>. QED
    BY <2>1, <2>2
<1>3. captured' = captured + 1 /\ captured' \in Nat
  BY <1>1, <1>2 DEF Captures
<1>4. /\ UNCHANGED <<client, lastServer, current, link, down, server>>
      /\ UNCHANGED <<peer, session, pending, lastIndex, heard>>
  BY <1>2 DEF Captures, server
<1>5. CASE status = "streaming"
  <2>1. Flush(g, b, <<>>, 0)
    BY <1>2, <1>5 DEF Captures
  <2>2. /\ Stock(buffer', gaps', told', captured + 1)
        /\ nextSeq' \in Nat /\ lastClient' \in Nat
        /\ UpInv' /\ Expected' /\ PeerOK' /\ HeardBefore'
        /\ \A c \in Connections : link[c] # "open" => up'[c] = up[c]
    <3>1. captured + 1 \in Nat /\ 0 \in Nat
      BY <1>1
    <3>. QED
      BY <1>2, <1>4, <2>1, <3>1, NothingBefore, FlushStep
  <2>3. ClientInv'
    BY <1>4, <2>2, ClientKeeps
  <2>. QED
    BY <1>3, <2>2, <2>3 DEF AudioInv
<1>6. CASE status # "streaming"
  <2>1. buffer' = b /\ gaps' = g /\ UNCHANGED <<up, nextSeq, lastClient, told>>
    BY <1>2, <1>6 DEF Captures
  <2>2. AudioInv'
    BY <1>2, <1>3, <2>1 DEF AudioInv
  <2>3. nextSeq' \in Nat /\ lastClient' \in Nat /\ lastClient' >= lastClient
    BY <2>1 DEF ClientInv, ClientOK
  <2>4. ClientInv'
    BY <1>4, <2>1, <2>3, ClientKeeps
  <2>5. UpInv' /\ Expected' /\ PeerOK' /\ HeardBefore'
    BY <1>4, <2>1, <2>3, QuietStep
  <2>. QED
    BY <2>2, <2>4, <2>5
<1>. QED
  BY <1>5, <1>6

LEMMA UserStep ==
  ASSUME DesktopInv, RequestLiveSuggestion \/ Stop
  PROVE  DesktopInv'
<1>. USE DEF DesktopInv
<1>1. PICK type \in {"session.end", "suggestion.request"} :
        Send(<<Up(type, nextSeq, 0)>>, 1)
  BY DEF RequestLiveSuggestion, Stop
<1>2. UNCHANGED <<client, lastServer, audio, current, link, down, server>>
  BY DEF RequestLiveSuggestion, Stop
<1>3. UNCHANGED <<told, peer, session, pending, lastIndex, heard>>
  BY <1>2 DEF audio, server
<1>4. /\ nextSeq' \in Nat /\ lastClient' \in Nat
      /\ UpInv' /\ Expected' /\ PeerOK' /\ HeardBefore'
      /\ \A c \in Connections : link[c] # "open" => up'[c] = up[c]
  BY <1>1, <1>2, <1>3, OneSent
<1>5. ClientInv'
  BY <1>2, <1>3, <1>4, ClientKeeps
<1>6. AudioInv'
  BY <1>2 DEF AudioInv, audio
<1>. QED
  BY <1>4, <1>5, <1>6

\* A message arrives on the open connection; the first of all is auth.accepted.
LEMMA ArriveEffect ==
  ASSUME DesktopInv, NEW type, Arrives(type)
  PROVE  /\ current \in Connections /\ link[current] = "open" /\ peer[current] # "new"
         /\ Head(down[current]) \in DownMessage
         /\ down' \in [Connections -> Seq(DownMessage)]
         /\ \A c \in Connections : c # current => down'[c] = down[c]
         /\ type # "auth.accepted" => known
         /\ ~timer
<1>. USE DEF DesktopInv
<1>1. /\ current # 0 /\ link[current] = "open" /\ down[current] # <<>>
      /\ Head(down[current]).type = type
      /\ down' = [down EXCEPT ![current] = Tail(@)]
  BY DEF Arrives
<1>2. current \in Connections
  BY <1>1, ConnectionIs DEF ClientInv
<1>3. down[current] \in Seq(DownMessage)
  BY <1>2 DEF ClientInv, ClientOK
<1>4. Head(down[current]) \in DownMessage /\ Tail(down[current]) \in Seq(DownMessage)
  BY <1>1, <1>3
<1>5. /\ down' \in [Connections -> Seq(DownMessage)]
      /\ \A c \in Connections : c # current => down'[c] = down[c]
  BY <1>1, <1>2, <1>4 DEF ClientInv, ClientOK
<1>6. peer[current] # "new"
  BY <1>1, <1>2 DEF ClientInv, Fresh
<1>7. type # "auth.accepted" => known
  BY <1>1 DEF ClientInv, AcceptedFirst
<1>8. ~timer
  BY <1>1 DEF ClientInv, Attached
<1>. QED
  BY <1>1, <1>2, <1>4, <1>5, <1>6, <1>7, <1>8

LEMMA RecordEffect ==
  ASSUME DesktopInv, NEW type, Arrives(type), RecordServerSeq
  PROVE  lastServer' \in Nat
<1>1. Head(down[current]).seq \in Nat
  BY ArriveEffect DEF DownMessage
<1>. QED
  BY <1>1 DEF RecordServerSeq, DesktopInv, ClientInv, ClientOK, Larger

\* A message changes the status, or the server has hung up.
LEMMA MessageStep ==
  ASSUME DesktopInv,
         TranscriptArrives \/ ErrorArrives \/ SessionClosedArrives \/ HangupArrives
  PROVE  DesktopInv'
<1>. USE DEF DesktopInv
<1>1. PICK type \in DownTypes \ {"auth.accepted"} : Arrives(type)
  BY DEF TranscriptArrives, ErrorArrives, SessionClosedArrives, HangupArrives, DownTypes
<1>2. /\ current \in Connections /\ link[current] = "open" /\ peer[current] # "new"
      /\ down' \in [Connections -> Seq(DownMessage)]
      /\ \A c \in Connections : c # current => down'[c] = down[c]
      /\ known /\ ~timer
  BY <1>1, ArriveEffect
<1>3. /\ UNCHANGED <<known, own, previous, resuming, limit, nextSeq, lastClient, audio, current, up,
                     server>>
      /\ \/ /\ status' \in {status, "streaming", "degraded", "failed", "closed"}
            /\ timer' = timer /\ link' = link
         \/ /\ status' = "reconnecting" /\ timer' = TRUE
            /\ link' = [link EXCEPT ![current] = "closed"]
         \/ /\ status' = "closed" /\ timer' = timer
            /\ link' = [link EXCEPT ![current] = "closed"]
  BY DEF TranscriptArrives, ErrorArrives, SessionClosedArrives, HangupArrives, Closed, numbers
<1>4. lastServer' \in Nat
  <2>1. CASE HangupArrives
    BY <2>1 DEF HangupArrives, numbers, ClientInv, ClientOK
  <2>2. CASE TranscriptArrives \/ ErrorArrives \/ SessionClosedArrives
    <3>1. RecordServerSeq
      BY <2>2 DEF TranscriptArrives, ErrorArrives, SessionClosedArrives
    <3>. QED
      BY <1>1, <3>1, RecordEffect
  <2>. QED
    BY <2>1, <2>2
<1>5. /\ link' \in [Connections -> {"none", "connecting", "open", "closed"}]
      /\ \A c \in Connections : c # current => link'[c] = link[c]
      /\ link'[current] \in {"open", "closed"}
      /\ timer' => link'[current] = "closed" /\ status' = "reconnecting"
  BY <1>2, <1>3 DEF ClientInv, ClientOK
<1>6. ClientInv'
  <2>1. ClientOK'
    BY <1>2, <1>3, <1>4, <1>5 DEF ClientInv, ClientOK
  <2>2. Attached' /\ AcceptedFirst'
    BY <1>2, <1>3, <1>5 DEF ClientInv, Attached, AcceptedFirst
  <2>3. Fresh'
    <3>1. ASSUME NEW d \in Connections
          PROVE  /\ d > current => link'[d] = "none"
                 /\ link'[d] \in {"none", "connecting"} => peer[d] = "new" /\ up[d] = <<>>
                 /\ peer[d] = "new" => down'[d] = <<>>
      <4>1. CASE d = current
        BY <1>2, <1>5, <4>1, ConnectionIs
      <4>2. CASE d # current
        BY <1>2, <1>5, <4>2 DEF ClientInv, Fresh
      <4>. QED
        BY <4>1, <4>2
    <3>. QED
      BY <1>3, <3>1 DEF Fresh, server
  <2>. QED
    BY <2>1, <2>2, <2>3 DEF ClientInv
<1>7. AudioInv'
  BY <1>3 DEF AudioInv, audio
<1>8. UpInv' /\ Expected' /\ PeerOK' /\ HeardBefore'
  <2>1. lastClient' \in Nat /\ lastClient' >= lastClient
    BY <1>3 DEF ClientInv, ClientOK
  <2>2. \A c \in Connections :
          /\ link'[c] = "open" => link[c] = "open"
          /\ link[c] = "closed" => link'[c] = "closed"
    BY <1>2, <1>5
  <2>. QED
    BY <1>3, <2>1, <2>2, QuietStep DEF audio, server
<1>. QED
  BY <1>6, <1>7, <1>8

\* auth.accepted starts the session, or asks for it again.
LEMMA AcceptedStep ==
  ASSUME DesktopInv, AuthAccepted \/ AuthAcceptedAgain
  PROVE  DesktopInv'
<1>. USE DEF DesktopInv
<1>1. /\ current \in Connections /\ link[current] = "open" /\ peer[current] # "new"
      /\ down' \in [Connections -> Seq(DownMessage)]
      /\ \A c \in Connections : c # current => down'[c] = down[c]
      /\ ~timer /\ lastServer' \in Nat
  <2>1. Arrives("auth.accepted") /\ RecordServerSeq
    BY DEF AuthAccepted, AuthAcceptedAgain
  <2>. QED
    BY <2>1, ArriveEffect, RecordEffect
<1>2. /\ own' = current /\ limit' = Allowed /\ known' = TRUE
      /\ UNCHANGED <<previous, resuming, timer, captured, current, link, server>>
      /\ status' \in {status, "streaming"}
  BY DEF AuthAccepted, AuthAcceptedAgain, ClientInv, ClientOK, Attached
<1>3. UNCHANGED <<peer, session, pending, lastIndex, heard>>
  BY <1>2 DEF server
<1>4. Allowed \in Nat
  BY DesktopAssumption DEF Allowed, Smaller
<1>. DEFINE b == Trimmed(buffer, Allowed)
            g == gaps \o DroppedOf(buffer, Allowed)
<1>5. captured \in Nat /\ Stock(b, g, told, captured)
  BY <1>4, StockTrimmed DEF AudioInv
<1>6. AudioInv' /\ nextSeq' \in Nat /\ lastClient' \in Nat
      /\ UpInv' /\ Expected' /\ PeerOK' /\ HeardBefore'
      /\ \A c \in Connections : link[c] # "open" => up'[c] = up[c]
  <2>1. CASE AuthAccepted
    <3>1. /\ buffer' = b /\ gaps' = g /\ told' = told
          /\ Send(<<Up("session.start", nextSeq, 0)>>, 1)
      BY <2>1 DEF AuthAccepted
    <3>2. AudioInv'
      BY <1>2, <1>5, <3>1 DEF AudioInv
    <3>. QED
      BY <1>2, <1>3, <3>1, <3>2, OneSent
  <2>2. CASE AuthAcceptedAgain
    <3>1. Flush(g, b, ResumeFirst, 1)
      BY <2>2 DEF AuthAcceptedAgain
    <3>2. Before(ResumeFirst, 1)
      <4>1. PICK m \in UpMessage :
              /\ ResumeFirst = <<m>> /\ m.type = "resume.request" /\ m.seq = nextSeq
              /\ m.item = previous /\ m.client = lastClient
        <5>1. nextSeq \in Nat /\ previous \in Nat /\ lastClient \in Nat
          BY DesktopAssumption DEF ClientInv, ClientOK
        <5>. DEFINE r == [Up("resume.request", nextSeq, previous) EXCEPT !.client = lastClient,
                                                                         !.server = lastServer']
        <5>2. ResumeFirst = <<r>>
          BY DEF ResumeFirst
        <5>3. /\ r \in UpMessage /\ r.type = "resume.request" /\ r.seq = nextSeq
              /\ r.item = previous /\ r.client = lastClient
          BY <1>1, <5>1 DEF Up, UpMessage, UpTypes
        <5>. HIDE DEF r
        <5>. QED
          BY <5>2, <5>3
      <4>2. Following(<<m>>) /\ Elements(<<m>>) = {m} /\ Bytes(<<m>>) = {}
        BY <4>1, OneFollows
      <4>3. previous < current
        BY <1>1, ConnectionIs, DesktopAssumption DEF ClientInv, Attached, Connections
      <4>4. m.seq <= nextSeq + 1 - 1 /\ m.client <= lastClient
        BY <4>1 DEF ClientInv, ClientOK
      <4>. QED
        BY <4>1, <4>2, <4>3, <4>4 DEF Before
    <3>. HIDE DEF b, g
    <3>3. /\ Stock(buffer', gaps', told', captured)
          /\ nextSeq' \in Nat /\ lastClient' \in Nat
          /\ UpInv' /\ Expected' /\ PeerOK' /\ HeardBefore'
          /\ \A c \in Connections : link[c] # "open" => up'[c] = up[c]
      BY <1>2, <1>3, <1>5, <3>1, <3>2, FlushStep
    <3>. QED
      BY <1>2, <1>5, <3>3 DEF AudioInv
  <2>. QED
    BY <2>1, <2>2
<1>7. ClientInv'
  <2>1. ClientOK'
    BY <1>1, <1>2, <1>4, <1>6 DEF ClientInv, ClientOK
  <2>2. Attached'
    <3>1. current \in Nat /\ current # 0
      BY <1>1, ConnectionIs DEF Connections
    <3>. QED
      BY <1>1, <1>2, <3>1 DEF ClientInv, Attached
  <2>3. AcceptedFirst'
    BY <1>2 DEF AcceptedFirst
  <2>4. Fresh'
    BY <1>1, <1>2, <1>3, <1>6 DEF ClientInv, Fresh
  <2>. QED
    BY <2>1, <2>2, <2>3, <2>4 DEF ClientInv
<1>. QED
  BY <1>6, <1>7

-----------------------------------------------------------------------------
(* The steps of the server *)

LEMMA DownIs ==
  /\ \A type \in DownTypes, seq \in Nat : Down(type, seq) \in DownMessage
  /\ \A seq \in Nat : Fatal(seq) \in DownMessage
  /\ Hangup \in DownMessage
BY DEF Down, Fatal, Hangup, DownTypes, DownMessage

LEMMA PeerIs ==
  ASSUME DesktopInv, NEW c \in Connections
  PROVE  /\ peer \in [Connections -> {"new", "temporary", "session", "none", "gone"}]
         /\ pending \in [Connections -> Nat] /\ lastIndex \in [Connections -> Nat]
         /\ session \in Meeting /\ session.clientSeq <= lastClient
         /\ session.clientSeq \in Nat /\ session.serverSeq \in Nat
         /\ session.serverSeq + 1 \in Nat
         /\ peer[c] = "session" => session.owner = c /\ session.state # "none"
<1>1. /\ session \in Meeting /\ session.clientSeq <= lastClient
      /\ session.clientSeq \in Nat /\ session.serverSeq \in Nat
  BY DEF DesktopInv, PeerOK, Meeting, CountersAgree
<1>2. session.serverSeq + 1 \in Nat
  BY <1>1
<1>3. c # 0
  BY DEF Connections
<1>. QED
  BY <1>1, <1>2, <1>3 DEF DesktopInv, PeerOK, Expected

\* A refusal: neither the session nor what a connection is to the server changes.
LEMMA RefusalStep ==
  ASSUME DesktopInv, NEW c \in Connections,
         \/ ServerRefusesResume(c) \/ ServerHangsUp(c) \/ ServerMismatch(c)
         \/ ServerRefusesNumber(c) \/ ServerUnexpected(c)
  PROVE  DesktopInv'
<1>1. Taken(c)
  BY DEF ServerRefusesResume, ServerHangsUp, ServerMismatch, ServerRefusesNumber,
         ServerUnexpected, Numbered, Taken, Takes, clientSide
<1>2. /\ peer \in [Connections -> {"new", "temporary", "session", "none", "gone"}]
      /\ pending \in [Connections -> Nat] /\ lastIndex \in [Connections -> Nat]
      /\ session \in Meeting /\ session.clientSeq <= lastClient
      /\ session.clientSeq \in Nat /\ session.serverSeq \in Nat
      /\ session.serverSeq + 1 \in Nat
  BY PeerIs
<1>3. UNCHANGED <<pending, lastIndex, heard>> /\ peer[c] # "new"
  BY DEF ServerRefusesResume, ServerHangsUp, ServerMismatch, ServerRefusesNumber,
         ServerUnexpected
<1>4. \/ session' = session
      \/ session' = [session EXCEPT !.serverSeq = session.serverSeq + 1]
  BY DEF ServerRefusesResume, ServerHangsUp, ServerMismatch, ServerRefusesNumber,
         ServerUnexpected, Numbered
<1>5. /\ session' \in Meeting /\ session'.owner = session.owner
      /\ session'.state = session.state /\ session'.clientSeq = session.clientSeq
  BY <1>2, <1>4 DEF Meeting
<1>6. \/ peer' = peer
      \/ peer' = [peer EXCEPT ![c] = "gone"]
  BY DEF ServerRefusesResume, ServerHangsUp, ServerMismatch, ServerRefusesNumber,
         ServerUnexpected
<1>7. /\ peer' \in [Connections -> {"new", "temporary", "session", "none", "gone"}]
      /\ \A d \in Connections :
           peer'[d] = peer[d] \/ (d = c /\ peer'[d] \in {"none", "gone"})
  BY <1>2, <1>6
<1>8. pending'[c] = 0 \/ peer'[c] = "gone"
  <2>1. CASE ServerHangsUp(c)
    BY <1>2, <2>1 DEF ServerHangsUp
  <2>2. CASE ServerUnexpected(c)
    BY <1>3, <2>2 DEF ServerUnexpected
  <2>3. CASE ServerRefusesResume(c) \/ ServerMismatch(c) \/ ServerRefusesNumber(c)
    <3>1. Head(up[c]).type # "binary"
      BY <2>3 DEF ServerRefusesResume, ServerMismatch, ServerRefusesNumber, Takes,
                  SessionMessages
    <3>. QED
      BY <1>1, <1>3, <3>1, TakeStep
  <2>. QED
    BY <2>1, <2>2, <2>3
<1>9. PICK ms \in Seq(DownMessage) : Replies(c, ms)
  <2>1. CASE ServerRefusesResume(c) \/ ServerMismatch(c)
    <3>1. <<Fatal(2)>> \in Seq(DownMessage)
      BY DownIs
    <3>. QED
      BY <2>1, <3>1 DEF ServerRefusesResume, ServerMismatch
  <2>2. CASE ServerHangsUp(c)
    <3>1. <<Fatal(0), Hangup>> \in Seq(DownMessage)
      BY DownIs
    <3>. QED
      BY <2>2, <3>1 DEF ServerHangsUp
  <2>3. CASE ServerRefusesNumber(c) \/ (ServerUnexpected(c) /\ peer[c] = "session")
    <3>1. <<Down("error", session.serverSeq + 1)>> \in Seq(DownMessage)
      BY <1>2, DownIs DEF DownTypes
    <3>. QED
      BY <2>3, <3>1 DEF ServerRefusesNumber, ServerUnexpected, Numbered
  <2>4. CASE ServerUnexpected(c) /\ peer[c] # "session"
    <3>. DEFINE n == IF peer[c] = "temporary" THEN 2 ELSE 0
    <3>1. n \in Nat /\ Replies(c, <<Down("error", n)>>)
      BY <2>4 DEF ServerUnexpected
    <3>. HIDE DEF n
    <3>2. <<Down("error", n)>> \in Seq(DownMessage)
      BY <3>1, DownIs DEF DownTypes
    <3>. QED
      BY <3>1, <3>2
  <2>. QED
    BY <2>1, <2>2, <2>3, <2>4
<1>. QED
  BY <1>1, <1>2, <1>3, <1>5, <1>7, <1>8, <1>9, ServeStep

\* A message that the session takes.
LEMMA AcceptStep ==
  ASSUME DesktopInv, NEW c \in Connections,
         ServerAssemblerRefuses(c) \/ ServerAccepts(c) \/ ServerEnds(c)
  PROVE  DesktopInv'
<1>. DEFINE m == Head(up[c])
<1>1. /\ Taken(c) /\ peer[c] = "session" /\ m.type # "binary"
      /\ UNCHANGED <<lastIndex, heard>>
  BY DEF ServerAssemblerRefuses, ServerAccepts, ServerEnds, Accepted, SessionMessages, Taken,
         Takes, clientSide
<1>2. /\ peer \in [Connections -> {"new", "temporary", "session", "none", "gone"}]
      /\ pending \in [Connections -> Nat] /\ lastIndex \in [Connections -> Nat]
      /\ session \in Meeting /\ session.clientSeq \in Nat /\ session.serverSeq \in Nat
      /\ session.serverSeq + 1 \in Nat /\ session.state # "none"
  BY <1>1, PeerIs
<1>3. m \in UpMessage /\ m.seq <= lastClient /\ pending[c] = 0
  BY <1>1, TakeStep
<1>4. m.seq \in Nat /\ m.item \in Nat
  BY <1>3 DEF UpMessage
<1>5. /\ session' \in Meeting /\ session'.owner = session.owner
      /\ session'.state # "none" /\ session'.clientSeq = m.seq
  <2>1. CASE ServerAssemblerRefuses(c)
    BY <1>2, <1>4, <2>1 DEF ServerAssemblerRefuses, Meeting
  <2>2. CASE ServerAccepts(c)
    BY <1>2, <1>4, <2>2 DEF ServerAccepts, Meeting
  <2>3. CASE ServerEnds(c)
    BY <1>2, <1>4, <2>3 DEF ServerEnds, Meeting
  <2>. QED
    BY <2>1, <2>2, <2>3
<1>6. peer' = peer \/ peer' = [peer EXCEPT ![c] = "none"]
  BY DEF ServerAssemblerRefuses, ServerAccepts, ServerEnds
<1>7. /\ peer' \in [Connections -> {"new", "temporary", "session", "none", "gone"}]
      /\ \A d \in Connections :
           peer'[d] = peer[d] \/ (d = c /\ peer'[d] \in {"none", "gone"})
  BY <1>2, <1>6
<1>8. /\ pending' \in [Connections -> Nat]
      /\ \A d \in Connections \ {c} : pending'[d] = pending[d]
      /\ \/ pending'[c] = 0
         \/ m.type = "audio.chunk_meta" /\ pending'[c] = m.item
  BY <1>2, <1>3, <1>4 DEF ServerAssemblerRefuses, ServerAccepts, ServerEnds
<1>9. PICK ms \in Seq(DownMessage) : Replies(c, ms) \/ down' = down
  <2>1. /\ <<Down("error", session.serverSeq + 1)>> \in Seq(DownMessage)
        /\ <<Down("session.closed", session.serverSeq + 1)>> \in Seq(DownMessage)
        /\ <<>> \in Seq(DownMessage)
    BY <1>2, DownIs DEF DownTypes
  <2>. QED
    BY <2>1 DEF ServerAssemblerRefuses, ServerAccepts, ServerEnds
<1>. QED
  BY <1>1, <1>2, <1>3, <1>5, <1>7, <1>8, <1>9, ServeStep

\* Bytes for the provider.
LEMMA HearStep ==
  ASSUME DesktopInv, NEW c \in Connections, ServerHears(c)
  PROVE  DesktopInv'
<1>1. /\ Taken(c) /\ peer[c] = "session" /\ Head(up[c]).type = "binary" /\ pending[c] # 0
      /\ pending' = [pending EXCEPT ![c] = 0]
      /\ lastIndex' = [lastIndex EXCEPT ![c] = pending[c]]
      /\ heard' = Append(heard, <<pending[c], Head(up[c]).item>>)
      /\ UNCHANGED <<down, peer, session>>
  BY DEF ServerHears, Taken, Takes, clientSide
<1>2. /\ peer \in [Connections -> {"new", "temporary", "session", "none", "gone"}]
      /\ pending \in [Connections -> Nat] /\ lastIndex \in [Connections -> Nat]
      /\ session \in Meeting /\ session.clientSeq <= lastClient
  BY PeerIs
<1>3. /\ pending' \in [Connections -> Nat] /\ lastIndex' \in [Connections -> Nat]
      /\ \A d \in Connections \ {c} : pending'[d] = pending[d]
      /\ pending'[c] = 0
  BY <1>1, <1>2
<1>4. <<>> \in Seq(DownMessage)
  OBVIOUS
<1>. QED
  BY <1>1, <1>2, <1>3, <1>4, ServeStep

\* auth.hello: the first connection gets the session of the meeting.
LEMMA HelloStep ==
  ASSUME DesktopInv, NEW c \in Connections, ServerHello(c)
  PROVE  DesktopInv'
<1>. USE DEF DesktopInv
<1>1. /\ Taken(c) /\ Head(up[c]).type = "auth.hello"
      /\ Replies(c, <<Down("auth.accepted", 1)>>)
      /\ UNCHANGED <<pending, lastIndex, heard>>
  BY DEF ServerHello, Taken, Takes, clientSide
<1>2. /\ UpInv' /\ link[c] \in {"open", "closed"}
      /\ Head(up[c]) \in UpMessage /\ Head(up[c]).seq <= lastClient
      /\ \A d \in Connections : d # c => up'[d] = up[d]
      /\ \A d \in Connections :
           Elements(up'[d]) \subseteq Elements(up[d]) /\ Bytes(up'[d]) \subseteq Bytes(up[d])
      /\ \A n \in Elements(up'[c]) : n.type # "auth.hello"
      /\ pending[c] = 0 /\ peer[c] = "new"
  BY <1>1, TakeStep
<1>3. /\ UNCHANGED <<client, numbers, audio, current, link, told, lastClient, known>>
  BY <1>1 DEF Taken, audio, numbers, client
<1>4. /\ peer' \in [Connections -> {"new", "temporary", "session", "none", "gone"}]
      /\ \A d \in Connections \ {c} : peer'[d] = peer[d]
      /\ peer'[c] = IF c = 1 THEN "session" ELSE "temporary"
  BY DEF ServerHello, PeerOK
<1>5. /\ down[c] = <<>> /\ Down("auth.accepted", 1) \in DownMessage
      /\ Down("auth.accepted", 1).type = "auth.accepted"
  BY <1>2, DownIs DEF ClientInv, Fresh, DownTypes, Down
<1>. DEFINE a == Down("auth.accepted", 1)
<1>6. /\ down' \in [Connections -> Seq(DownMessage)]
      /\ \A d \in Connections \ {c} : down'[d] = down[d]
      /\ link[c] = "open" => down'[c] = <<a>>
      /\ link[c] # "open" => down'[c] = down[c]
  <2>1. <<>> \o <<a>> = <<a>> /\ <<a>> \in Seq(DownMessage)
    BY <1>5
  <2>. HIDE DEF a
  <2>. QED
    BY <1>1, <1>5, <2>1 DEF Replies, ClientInv, ClientOK, a
<1>7. ClientInv'
  <2>1. ClientOK' /\ Attached'
    BY <1>3, <1>6 DEF ClientInv, ClientOK, Attached, client, numbers
  <2>2. AcceptedFirst'
    <3>1. <<a>> # <<>> /\ Head(<<a>>) = a
      OBVIOUS
    <3>2. current \in Connections \/ current = 0
      BY ConnectionIs DEF ClientInv
    <3>. HIDE DEF a
    <3>3. a.type = "auth.accepted"
      BY <1>5 DEF a
    <3>4. CASE current = c
      BY <1>3, <1>4, <1>6, <3>1, <3>3, <3>4 DEF AcceptedFirst
    <3>5. CASE current # c
      BY <1>3, <1>4, <1>6, <3>2, <3>5 DEF AcceptedFirst, ClientInv
    <3>. QED
      BY <3>4, <3>5
  <2>3. Fresh'
    <3>1. UNCHANGED <<current, link>>
      BY <1>3
    <3>2. ASSUME NEW d \in Connections
          PROVE  /\ d > current => link[d] = "none"
                 /\ link[d] \in {"none", "connecting"} => peer'[d] = "new" /\ up'[d] = <<>>
                 /\ peer'[d] = "new" => down'[d] = <<>>
      <4>1. CASE d = c
        BY <1>2, <1>4, <4>1 DEF ClientInv, Fresh
      <4>2. CASE d # c
        BY <1>2, <1>4, <1>6, <4>2 DEF ClientInv, Fresh
      <4>. QED
        BY <4>1, <4>2
    <3>. QED
      BY <3>1, <3>2 DEF Fresh
  <2>. QED
    BY <2>1, <2>2, <2>3 DEF ClientInv
<1>8. AudioInv'
  BY <1>3 DEF AudioInv, audio
<1>9. Expected'
  <2>. SUFFICES ASSUME NEW d \in Connections, pending[d] # 0, peer'[d] # "gone"
                PROVE  IF up'[d] = <<>> THEN link[d] = "closed"
                       ELSE Head(up'[d]).type = "binary" /\ Head(up'[d]).item = pending[d]
    BY <1>1, <1>3 DEF Expected
  <2>. QED
    BY <1>2, <1>4 DEF Expected
<1>10. /\ session' \in Meeting /\ session'.clientSeq <= lastClient
       /\ session'.owner >= session.owner
       /\ session'.state = "none" <=> session'.owner = 0
       /\ c = 1 => session'.owner = 1 /\ session.owner = 0
       /\ c # 1 => session' = session
  <2>1. CASE c = 1
    <3>1. session' = [state |-> "active", owner |-> 1, clientSeq |-> Head(up[c]).seq,
                      serverSeq |-> 1]
      BY <2>1 DEF ServerHello
    <3>2. session.owner = 0 /\ Head(up[c]).seq \in Nat /\ 1 \in 0..MaxConnections
      BY <1>2, <2>1, DesktopAssumption DEF PeerOK, UpMessage
    <3>. QED
      BY <1>2, <2>1, <3>1, <3>2 DEF Meeting
  <2>2. CASE c # 1
    <3>1. session' = session
      BY <2>2 DEF ServerHello
    <3>2. session.owner \in Nat
      BY DesktopAssumption DEF PeerOK, Meeting
    <3>. QED
      BY <2>2, <3>1, <3>2 DEF PeerOK, CountersAgree
  <2>. QED
    BY <2>1, <2>2
<1>11. PeerOK'
  <2>1. CountersAgree'
    BY <1>3, <1>10 DEF CountersAgree
  <2>2. 1 \in Connections /\ 0 \notin Connections
    BY DesktopAssumption DEF Connections
  <2>3. peer'[1] = "new" => session'.state = "none"
    BY <1>4, <1>10, <2>2 DEF PeerOK
  <2>4. ASSUME NEW d \in Connections
        PROVE  /\ peer'[d] = "session" => session'.owner = d
               /\ peer'[d] # "new" => \A m \in Elements(up'[d]) : m.type # "auth.hello"
    <3>1. CASE d = c
      BY <1>2, <1>4, <1>10, <3>1
    <3>2. CASE d # c
      BY <1>2, <1>4, <1>10, <2>2, <3>2 DEF PeerOK
    <3>. QED
      BY <3>1, <3>2
  <2>. QED
    BY <1>4, <1>10, <2>1, <2>3, <2>4 DEF PeerOK
<1>12. HeardBefore'
  <2>1. session'.owner \in Nat
    BY <1>10, DesktopAssumption DEF Meeting
  <2>. QED
    BY <1>1, <1>2, <1>3, <1>10, <2>1, HeardStays
<1>. QED
  BY <1>2, <1>7, <1>8, <1>9, <1>11, <1>12

\* The session moves on, to a later connection.
LEMMA ResumeStep ==
  ASSUME DesktopInv, NEW c \in Connections, ServerResume(c)
  PROVE  DesktopInv'
<1>. USE DEF DesktopInv
<1>. DEFINE m == Head(up[c])
<1>1. /\ Taken(c) /\ m.type = "resume.request" /\ peer[c] \in {"temporary", "session"}
      /\ session.state \in {"active", "disconnected"} /\ session.owner = m.item
      /\ peer' = Moved(c)
      /\ session' = [state |-> "active", owner |-> c,
                     clientSeq |-> Larger(session.clientSeq, Larger(m.client, m.seq)),
                     serverSeq |-> Larger(session.serverSeq, m.server)]
      /\ UNCHANGED <<down, pending, lastIndex, heard>>
  BY DEF ServerResume, Resumable, Taken, Takes, clientSide
<1>2. /\ UpInv' /\ m \in UpMessage /\ m.seq <= lastClient /\ m.client <= lastClient
      /\ \A d \in Connections : d # c => up'[d] = up[d]
      /\ \A d \in Connections :
           Elements(up'[d]) \subseteq Elements(up[d]) /\ Bytes(up'[d]) \subseteq Bytes(up[d])
      /\ \A n \in Elements(up'[c]) : n.type # "auth.hello"
      /\ pending[c] = 0 /\ m.item < c
  BY <1>1, TakeStep
<1>3. UNCHANGED <<client, numbers, audio, current, link, told, lastClient>>
  BY <1>1 DEF Taken, audio, numbers
<1>4. /\ m.seq \in Nat /\ m.client \in Nat /\ m.server \in Nat
      /\ session.clientSeq \in Nat /\ session.serverSeq \in Nat
      /\ session.clientSeq <= lastClient
      /\ session.owner \in Connections /\ c \in 1..MaxConnections /\ c \in Nat
      /\ session.owner \in Nat
  <2>1. session.owner # 0 /\ session \in Meeting
    BY <1>1 DEF PeerOK
  <2>2. session.owner \in 0..MaxConnections
    BY <2>1 DEF Meeting
  <2>3. session.owner \in Connections /\ c \in 1..MaxConnections /\ c \in Nat
        /\ session.owner \in Nat
    BY <2>1, <2>2, DesktopAssumption DEF Connections
  <2>4. m.seq \in Nat /\ m.client \in Nat /\ m.server \in Nat
    BY <1>2 DEF UpMessage
  <2>. QED
    BY <2>3, <2>4, PeerIs
<1>5. session.owner < c
  BY <1>1, <1>2
<1>. HIDE DEF m
<1>6. /\ session' \in Meeting /\ session'.clientSeq <= lastClient /\ session'.owner = c
      /\ session'.state = "active"
  <2>1. /\ Larger(session.clientSeq, Larger(m.client, m.seq)) \in Nat
        /\ Larger(session.clientSeq, Larger(m.client, m.seq)) <= lastClient
        /\ Larger(session.serverSeq, m.server) \in Nat
    BY <1>2, <1>4 DEF Larger
  <2>. QED
    BY <1>1, <1>4, <2>1, DesktopAssumption DEF Meeting
<1>7. /\ peer' \in [Connections -> {"new", "temporary", "session", "none", "gone"}]
      /\ peer'[c] = "session"
      /\ \A d \in Connections \ {c} :
           peer'[d] = IF d = session.owner /\ peer[d] = "session" THEN "none" ELSE peer[d]
  BY <1>1, <1>4, <1>5 DEF Moved, PeerOK
<1>8. \A d \in Connections : /\ peer'[d] = "new" <=> peer[d] = "new"
                             /\ peer'[d] = "gone" <=> peer[d] = "gone"
                             /\ peer'[d] = "session" => d = c
  <2>1. \A d \in Connections \ {c} : peer'[d] # "session"
    BY <1>7 DEF PeerOK
  <2>. QED
    BY <1>1, <1>7, <2>1
<1>9. ClientInv' /\ AudioInv'
  <2>1. \A d \in Connections : up[d] = <<>> => up'[d] = <<>>
    BY <1>1, <1>2 DEF Taken
  <2>2. <<>> \in Seq(DownMessage) /\ peer[c] # "new"
    BY <1>1
  <2>. QED
    BY <1>1, <1>3, <1>8, <2>1, <2>2, ReplyStep
<1>10. Expected'
  <2>. SUFFICES ASSUME NEW d \in Connections, pending[d] # 0, peer'[d] # "gone"
                PROVE  IF up'[d] = <<>> THEN link[d] = "closed"
                       ELSE Head(up'[d]).type = "binary" /\ Head(up'[d]).item = pending[d]
    BY <1>1, <1>3 DEF Expected
  <2>. QED
    BY <1>2, <1>8 DEF Expected
<1>11. PeerOK'
  <2>1. CountersAgree'
    BY <1>3, <1>6 DEF CountersAgree
  <2>2. session'.owner # 0 /\ 1 \in Connections
    BY <1>4, <1>6, DesktopAssumption DEF Connections
  <2>3. peer'[1] # "new"
    BY <1>1, <1>8, <2>2 DEF PeerOK
  <2>. QED
    BY <1>2, <1>6, <1>7, <1>8, <2>1, <2>2, <2>3 DEF PeerOK
<1>12. HeardBefore'
  <2>1. session'.owner >= session.owner /\ session'.owner \in Nat
    BY <1>4, <1>5, <1>6
  <2>. QED
    BY <1>1, <1>2, <1>3, <2>1, HeardStays
<1>. QED
  BY <1>2, <1>9, <1>10, <1>11, <1>12

\* A transcript or an error is on its way to the client.
LEMMA ReportStep ==
  ASSUME DesktopInv, NEW c \in Connections, ServerReports(c)
  PROVE  DesktopInv'
<1>. USE DEF DesktopInv
<1>1. /\ peer[c] = "session" /\ UNCHANGED <<clientSide, up, peer, pending, lastIndex, heard>>
      /\ session' = [session EXCEPT !.serverSeq = session.serverSeq + 1]
  BY DEF ServerReports, Numbered
<1>2. PICK ms \in Seq(DownMessage) : Replies(c, ms)
  <2>1. session.serverSeq + 1 \in Nat
    BY PeerIs
  <2>2. /\ <<Down("transcript", session.serverSeq + 1)>> \in Seq(DownMessage)
        /\ <<Down("error", session.serverSeq + 1)>> \in Seq(DownMessage)
    BY <2>1, DownIs DEF DownTypes
  <2>. QED
    BY <2>2 DEF ServerReports, Numbered
<1>3. /\ UNCHANGED <<client, numbers, audio, current, link, told, lastClient>>
  BY <1>1 DEF clientSide, audio, numbers
<1>4. ClientInv' /\ AudioInv'
  BY <1>1, <1>2, <1>3, ReplyStep
<1>5. session' \in Meeting /\ session'.owner = session.owner
      /\ session'.state = session.state /\ session'.clientSeq = session.clientSeq
  <2>1. session \in Meeting /\ session.serverSeq + 1 \in Nat
    BY PeerIs
  <2>. QED
    BY <1>1, <2>1 DEF Meeting
<1>6. UpInv' /\ Expected'
  BY <1>1, <1>3 DEF UpInv, Counted, Expected
<1>7. PeerOK'
  BY <1>1, <1>3, <1>5 DEF PeerOK, CountersAgree
<1>8. HeardBefore'
  BY <1>1, <1>3, <1>5 DEF HeardBefore, HeardInOrder
<1>. QED
  BY <1>4, <1>6, <1>7, <1>8

\* The server notices that a connection is lost.
LEMMA NoticeStep ==
  ASSUME DesktopInv, NEW c \in Connections, ServerNotices(c)
  PROVE  DesktopInv'
<1>. USE DEF DesktopInv
<1>1. /\ link[c] = "closed"
      /\ peer' = [peer EXCEPT ![c] = "gone"] /\ up' = [up EXCEPT ![c] = <<>>]
      /\ session' = IF peer[c] = "session" THEN [session EXCEPT !.state = "disconnected"]
                    ELSE session
      /\ UNCHANGED <<clientSide, down, pending, lastIndex, heard>>
  BY DEF ServerNotices
<1>2. /\ UNCHANGED <<client, numbers, audio, current, link, told, lastClient, known>>
  BY <1>1 DEF clientSide, audio, numbers, client
<1>3. /\ peer' \in [Connections -> {"new", "temporary", "session", "none", "gone"}]
      /\ peer'[c] = "gone" /\ \A d \in Connections \ {c} : peer'[d] = peer[d]
  BY <1>1 DEF PeerOK
<1>4. /\ up' \in [Connections -> Seq(UpMessage)]
      /\ up'[c] = <<>> /\ \A d \in Connections \ {c} : up'[d] = up[d]
  BY <1>1 DEF UpInv
<1>5. Elements(<<>>) = {} /\ Bytes(<<>>) = {}
  BY DEF Elements, Bytes
<1>6. \A d \in Connections :
        Elements(up'[d]) \subseteq Elements(up[d]) /\ Bytes(up'[d]) \subseteq Bytes(up[d])
  BY <1>4, <1>5
<1>7. ClientInv'
  <2>1. ClientOK' /\ Attached'
    BY <1>1, <1>2 DEF ClientInv, ClientOK, Attached, client, numbers
  <2>2. AcceptedFirst'
    <3>1. current \in Connections \/ current = 0
      BY ConnectionIs DEF ClientInv
    <3>2. link[current] = "open" => current # c
      BY <1>1
    <3>. QED
      BY <1>1, <1>2, <1>3, <3>1, <3>2 DEF AcceptedFirst, ClientInv
  <2>3. Fresh'
    BY <1>1, <1>2, <1>3, <1>4 DEF ClientInv, Fresh
  <2>. QED
    BY <2>1, <2>2, <2>3 DEF ClientInv
<1>8. AudioInv'
  BY <1>2 DEF AudioInv, audio
<1>9. UpInv'
  <2>1. Paired(<<>>, FALSE) /\ Rising(<<>>) /\ HelloFirst(<<>>)
    BY DEF Paired, Rising, HelloFirst
  <2>2. ASSUME NEW d \in Connections
        PROVE  /\ Counted(d)' /\ Paired(up'[d], link'[d] = "open")
               /\ Rising(up'[d]) /\ HelloFirst(up'[d])
    <3>1. Counted(d)'
      BY <1>2, <1>6, UpIn DEF Counted
    <3>2. CASE d = c
      <4>1. (link'[d] = "open") = FALSE
        BY <1>1, <1>2, <3>2
      <4>. QED
        BY <1>4, <2>1, <3>1, <3>2, <4>1
    <3>3. CASE d # c
      BY <1>2, <1>4, <3>1, <3>3, UpIn
    <3>. QED
      BY <3>2, <3>3
  <2>3. \A d, e \in Connections : d < e =>
          \A x \in Bytes(up'[d]), y \in Bytes(up'[e]) : x < y
    BY <1>6 DEF UpInv
  <2>. QED
    BY <1>4, <2>2, <2>3 DEF UpInv
<1>10. Expected'
  BY <1>1, <1>2, <1>3, <1>4 DEF Expected
<1>11. /\ session' \in Meeting /\ session'.owner = session.owner
       /\ session'.clientSeq = session.clientSeq
       /\ session'.state = "none" <=> session.state = "none"
  <2>1. session \in Meeting /\ (peer[c] = "session" => session.state # "none")
    BY PeerIs
  <2>2. CASE peer[c] = "session"
    <3>1. session' = [session EXCEPT !.state = "disconnected"]
      BY <1>1, <2>2
    <3>. QED
      BY <2>1, <2>2, <3>1 DEF Meeting
  <2>3. CASE peer[c] # "session"
    BY <1>1, <2>1, <2>3
  <2>. QED
    BY <2>2, <2>3
<1>12. PeerOK'
  <2>1. CountersAgree'
    BY <1>2, <1>11 DEF PeerOK, CountersAgree
  <2>2. peer'[1] = "new" => peer[1] = "new"
    BY <1>3, ConnectionIs
  <2>3. ASSUME NEW d \in Connections
        PROVE  /\ peer'[d] = "session" => session'.owner = d
               /\ peer'[d] # "new" => \A m \in Elements(up'[d]) : m.type # "auth.hello"
    <3>1. CASE d = c
      BY <1>3, <1>4, <1>5, <3>1
    <3>2. CASE d # c
      BY <1>3, <1>6, <1>11, <3>2 DEF PeerOK
    <3>. QED
      BY <3>1, <3>2
  <2>. QED
    BY <1>3, <1>11, <2>1, <2>2, <2>3 DEF PeerOK
<1>13. HeardBefore'
  <2>1. session'.owner >= session.owner /\ session'.owner \in Nat
    BY <1>11, DesktopAssumption DEF PeerOK, Meeting
  <2>. QED
    BY <1>1, <1>2, <1>6, <2>1, HeardStays
<1>. QED
  BY <1>7, <1>8, <1>9, <1>10, <1>12, <1>13

-----------------------------------------------------------------------------
(* The theorems *)

LEMMA DesktopStart == ASSUME Init PROVE DesktopInv
<1>1. Elements(<<>>) = {} /\ Bytes(<<>>) = {} /\ 1..0 = {}
  BY DEF Elements, Bytes
<1>2. ClientInv
  <2>1. ClientOK
    <3>1. 0 \in 0..MaxConnections /\ ConfiguredLimit \in Nat
      BY DesktopAssumption
    <3>2. /\ link \in [Connections -> {"none", "connecting", "open", "closed"}]
          /\ down \in [Connections -> Seq(DownMessage)]
      <4>1. <<>> \in Seq(DownMessage)
        OBVIOUS
      <4>. QED
        BY <4>1 DEF Init
    <3>. QED
      BY <3>1, <3>2 DEF Init, ClientOK
  <2>2. Attached /\ AcceptedFirst /\ Fresh
    BY DEF Init, Attached, AcceptedFirst, Fresh
  <2>. QED
    BY <2>1, <2>2 DEF ClientInv
<1>3. AudioInv
  BY <1>1 DEF Init, AudioInv, Stock, Ascending
<1>4. UpInv
  <2>1. \A open : Paired(<<>>, open)
    BY DEF Paired
  <2>2. Rising(<<>>) /\ HelloFirst(<<>>)
    BY DEF Rising, HelloFirst
  <2>3. /\ up \in [Connections -> Seq(UpMessage)]
        /\ \A c \in Connections : up[c] = <<>>
    BY DEF Init
  <2>4. \A c \in Connections : Counted(c)
    BY <1>1, <2>3 DEF Counted
  <2>5. \A c \in Connections :
          Paired(up[c], link[c] = "open") /\ Rising(up[c]) /\ HelloFirst(up[c])
    BY <2>1, <2>2, <2>3
  <2>6. \A c \in Connections : Bytes(up[c]) = {}
    BY <1>1, <2>3
  <2>. QED
    BY <2>3, <2>4, <2>5, <2>6 DEF UpInv
<1>5. Expected
  BY DEF Init, Expected
<1>6. PeerOK
  <2>1. session \in Meeting
    BY DesktopAssumption DEF Init, Meeting
  <2>2. peer \in [Connections -> {"new", "temporary", "session", "none", "gone"}]
    BY DEF Init
  <2>. QED
    BY <1>1, <2>1, <2>2 DEF Init, PeerOK, CountersAgree
<1>7. HeardBefore
  BY DEF Init, HeardBefore, HeardInOrder
<1>. QED
  BY <1>2, <1>3, <1>4, <1>5, <1>6, <1>7 DEF DesktopInv

LEMMA DesktopStep == ASSUME DesktopInv, [Next]_vars PROVE DesktopInv'
<1>1. CASE StartSession \/ Resume
  BY <1>1, StartStep
<1>2. CASE Open
  BY <1>2, OpenStep
<1>3. CASE LinkLost
  BY <1>3, LostStep
<1>4. CASE Receive
  BY <1>4, AcceptedStep, MessageStep DEF Receive
<1>5. ASSUME NEW c \in Connections, Serve(c)
      PROVE  DesktopInv'
  BY <1>5, HelloStep, ResumeStep, RefusalStep, AcceptStep, HearStep DEF Serve
<1>6. ASSUME NEW c \in Connections, ServerReports(c) \/ ServerNotices(c)
      PROVE  DesktopInv'
  BY <1>6, ReportStep, NoticeStep
<1>7. CASE SendAudioChunk \/ SendAudioGap
  BY <1>7, CaptureStep
<1>8. CASE RequestLiveSuggestion \/ Stop
  BY <1>8, UserStep
<1>9. CASE UNCHANGED vars
  <2>1. UNCHANGED <<client, numbers, audio, sockets, server>>
    BY <1>9 DEF vars
  <2>2. ClientInv'
    BY <2>1 DEF DesktopInv, ClientInv, ClientOK, Attached, AcceptedFirst, Fresh, client, numbers,
                sockets, server
  <2>3. AudioInv' /\ UpInv' /\ Expected'
    BY <2>1 DEF DesktopInv, AudioInv, UpInv, Counted, Expected, audio, numbers, sockets, server
  <2>4. PeerOK' /\ HeardBefore'
    BY <2>1 DEF DesktopInv, PeerOK, CountersAgree, HeardBefore, HeardInOrder, numbers, audio,
                sockets, server
  <2>. QED
    BY <2>2, <2>3, <2>4 DEF DesktopInv
<1>. QED
  BY <1>1, <1>2, <1>3, <1>4, <1>5, <1>6, <1>7, <1>8, <1>9 DEF Next, Exchange

LEMMA DesktopInvariant == Spec => []DesktopInv
BY DesktopStart, DesktopStep, PTL DEF Spec

LEMMA DesktopTyped == ASSUME DesktopInv PROVE TypeOK
<1>1. /\ {known, resuming, timer} \subseteq BOOLEAN
      /\ {own, previous, current} \subseteq 0..MaxConnections
      /\ {nextSeq, lastClient, lastServer, captured, limit} \subseteq Nat
  BY DEF DesktopInv, ClientInv, ClientOK, AudioInv
<1>2. buffer \in Seq(Nat) /\ gaps \in Seq(Nat)
  BY DEF DesktopInv, AudioInv, Stock
<1>3. /\ session.state \in {"none", "active", "disconnected", "ended"}
      /\ session.owner \in 0..MaxConnections
      /\ {session.clientSeq, session.serverSeq} \subseteq Nat
  BY DEF DesktopInv, PeerOK, Meeting
<1>4. /\ timer => status = "reconnecting" /\ known
      /\ \A c \in Connections : peer[c] = "session" => session.owner = c
  BY DEF DesktopInv, ClientInv, ClientOK, Attached, PeerOK
<1>5. /\ peer \in [Connections -> {"new", "temporary", "session", "none", "gone"}]
      /\ pending \in [Connections -> Nat] /\ lastIndex \in [Connections -> Nat]
      /\ heard \in Seq(Nat \X Nat)
  BY DEF DesktopInv, PeerOK, Expected, HeardBefore
<1>6. /\ status \in {"idle", "connecting", "streaming", "reconnecting", "degraded", "closed",
                     "failed"}
      /\ link \in [Connections -> {"none", "connecting", "open", "closed"}]
  BY DEF DesktopInv, ClientInv, ClientOK
<1>. QED
  BY <1>1, <1>2, <1>3, <1>4, <1>5, <1>6 DEF TypeOK

\* Every variable of the client, the sockets and the server stays in its range, a timer
\* runs only between two connections of a session that is known, and the server maps no
\* connection to the session but its owner.
THEOREM DesktopTypeCorrect == Spec => []TypeOK
BY DesktopInvariant, DesktopTyped, PTL

\* desktopRealtimeSession.ts and its buffer: whatever the number of connections, of
\* chunks and of the buffer's room, a captured chunk was sent, waits, or is stood for by
\* a gap, and never both sent and given up.
THEOREM AccountedHolds == Spec => []Accounted
<1>1. ASSUME DesktopInv PROVE Accounted
  BY <1>1 DEF DesktopInv, AudioInv, Stock, Accounted
<1>. QED
  BY <1>1, DesktopInvariant, PTL

\* handleBinaryFrame: the provider hears each chunk with the bytes announced for it and in
\* the order of capture, however often the session moves to a new connection.
THEOREM HeardInOrderHolds == Spec => []HeardInOrder
<1>1. ASSUME DesktopInv PROVE HeardInOrder
  BY <1>1 DEF DesktopInv, HeardBefore
<1>. QED
  BY <1>1, DesktopInvariant, PTL

\* advanceClientSeq and resumeSession: the server never records a number that the client
\* does not know it has used.
THEOREM CountersAgreeHolds == Spec => []CountersAgree
<1>1. ASSUME DesktopInv PROVE CountersAgree
  BY <1>1 DEF DesktopInv, PeerOK
<1>. QED
  BY <1>1, DesktopInvariant, PTL
=============================================================================
