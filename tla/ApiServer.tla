------------------------------ MODULE ApiServer ------------------------------
(***************************************************************************)
(* The HTTP server of services/api: what happens to a request on its way   *)
(* through createHttpServer, the limit on how many of them a caller may    *)
(* send, and the shutdown of main.ts.                                      *)
(*                                                                         *)
(* Handlers answer at once, after the body, or after a repository has      *)
(* settled, which may create the pool of its component.  What they answer  *)
(* beyond success or refusal is left to the modules of the repositories,   *)
(* and paths and headers are left out.  A caller is one Authorization      *)
(* header, or an address.  The configuration was valid when the process    *)
(* began, and is read again for each request.  Node calls back close when  *)
(* the last connection is over; until then one that is kept alive brings   *)
(* further requests.  A pool that is ending refuses every new transaction, *)
(* and ends when the last one is over.                                     *)
(***************************************************************************)
EXTENDS Integers, FiniteSets

CONSTANTS
  Callers,
  Requests,
  RateWindow,    \* rateLimitWindowMs
  MaxAdmitted,   \* rateLimitMaxRequests
  Second,        \* a second, in the unit of RateWindow
  MaxBuckets,    \* 10_000
  MaxClock       \* bound: time

ASSUME ApiAssumption ==
  /\ IsFiniteSet(Requests)
  /\ {RateWindow, MaxAdmitted, Second} \subseteq Nat \ {0}
  /\ {MaxBuckets, MaxClock} \subseteq Nat

\* Routes by what their handlers wait for.
Routes == {"health", "ready", "profile", "issue", "exchange", "mutate", "meeting"}

VARIABLES
  now,        \* the clock
  buckets,    \* rateLimitBuckets: when the window of a caller began, and its count
  promised,   \* history: when the caller was told that it may try again
  step,       \* what a request waits for
  route,      \* its route
  gone,       \* requests whose client has left
  answers,    \* history: the answers that were sent
  turnedAway, \* history: requests that a pool refused because it was ending
  pool,       \* the pools of the managed repositories
  listener,   \* the server of main.ts
  exit        \* how the process ended

apiVars == <<now, buckets, promised, step, route, gone, answers, turnedAway, pool, listener,
             exit>>

limiter == <<now, buckets, promised>>
requests == <<step, route, gone, answers, turnedAway>>
server == <<pool, listener, exit>>

NoBucket == [start |-> 0, count |-> 0]

ApiInit ==
  /\ now = 0
  /\ buckets = [c \in Callers |-> NoBucket]
  /\ promised = [c \in Callers |-> 0]
  /\ step = [r \in Requests |-> "none"]
  /\ route = [r \in Requests |-> "health"]
  /\ gone = {}
  /\ answers = [r \in Requests |-> 0]
  /\ turnedAway = {}
  /\ pool = "none"
  /\ listener = "open"
  /\ exit = "no"

Tick ==
  /\ exit = "no" /\ now < MaxClock
  /\ now' = now + 1
  /\ UNCHANGED <<buckets, promised, requests, server>>

-----------------------------------------------------------------------------
(* consumeRateLimit *)

HasBucket(c) == buckets[c].count > 0

WindowOver(c) == now - buckets[c].start >= RateWindow

\* Many buckets: those that are over are removed.
Purged ==
  IF Cardinality({c \in Callers : HasBucket(c)}) > MaxBuckets
  THEN [c \in Callers |-> IF WindowOver(c) THEN NoBucket ELSE buckets[c]]
  ELSE buckets

Admits(c) == ~HasBucket(c) \/ WindowOver(c) \/ buckets[c].count < MaxAdmitted

Consumed(c) ==
  [Purged EXCEPT ![c] = IF ~HasBucket(c) \/ WindowOver(c) THEN [start |-> now, count |-> 1]
                        ELSE [start |-> @.start, count |-> @.count + 1]]

\* Mutant: Math.floor.
RetryTooSoon(c) ==
  LET seconds == (RateWindow - (now - buckets[c].start)) \div Second
  IN IF seconds > 1 THEN seconds ELSE 1

\* Whole seconds that cover the rest of the window.
RetryAfter(c) ==
  LET seconds == (RateWindow - (now - buckets[c].start) + Second - 1) \div Second
  IN IF seconds > 1 THEN seconds ELSE 1

-----------------------------------------------------------------------------
(* Requests *)

Waiting(r) == step[r] \in {"check", "body", "verify", "repository"}

\* On a connection of its own, or on that of an earlier request.
Arrives(r, kind) ==
  /\ exit = "no" /\ step[r] = "none"
  /\ \/ listener = "open"
     \/ listener = "closing" /\ \E q \in Requests \ gone : step[q] = "answered"
  /\ route' = [route EXCEPT ![r] = kind]
  /\ UNCHANGED turnedAway

Answer(r) ==
  /\ step' = [step EXCEPT ![r] = "answered"]
  /\ answers' = [answers EXCEPT ![r] = IF r \in gone THEN @ ELSE @ + 1]
  /\ UNCHANGED gone

WaitFor(r, what) ==
  /\ step' = [step EXCEPT ![r] = what]
  /\ UNCHANGED <<gone, answers>>

\* getIdentityRepository, getMeetingRepository or getKnowledgeRepository
Managed == IF pool = "none" THEN "open" ELSE pool

\* /health, OPTIONS, and any refusal for the method, the origin or the path.
ImmediateRoute(r) ==
  /\ Arrives(r, "health")
  /\ Answer(r)
  /\ UNCHANGED <<limiter, server>>

\* /ready opens a pool of its own for the check, and closes it.
ReadyRoute(r) ==
  /\ Arrives(r, "ready")
  /\ WaitFor(r, "check")
  /\ UNCHANGED <<limiter, server>>

\* 429, with Retry-After.
RefuseLimited(r, c) ==
  /\ Arrives(r, "health")
  /\ ~Admits(c)
  /\ Answer(r)
  /\ buckets' = Consumed(c)
  /\ promised' = [promised EXCEPT ![c] = now + RetryAfter(c) * Second]
  /\ UNCHANGED <<now, server>>

Limited(c) ==
  /\ Admits(c)
  /\ buckets' = Consumed(c)
  /\ promised' = [promised EXCEPT ![c] = 0]
  /\ UNCHANGED now

\* /v1/me and /v1/workspaces answer from the token; any other route refuses one that is
\* missing, invalid, or without the role for the workspace, at once.
TokenRoute(r, c) ==
  /\ Arrives(r, "profile")
  /\ Limited(c)
  /\ Answer(r)
  /\ UNCHANGED server

\* A token for development needs a body, and nothing else.
DevTokenRoute(r, c) ==
  /\ Arrives(r, "issue")
  /\ Limited(c)
  /\ WaitFor(r, "body")
  /\ UNCHANGED server

\* One for a realtime session is made from the token of the caller and a body.
RealtimeTokenRoute(r, c) ==
  /\ Arrives(r, "issue")
  /\ Limited(c)
  /\ Answer(r) \/ WaitFor(r, "body")
  /\ UNCHANGED server

\* The repository of a provider exchange is taken once the provider token was verified.
ExchangeRoute(r, c) ==
  /\ Arrives(r, "exchange")
  /\ Limited(c)
  /\ WaitFor(r, "body")
  /\ UNCHANGED server

\* Memberships take it first: a PUT then reads its body, a DELETE or a GET goes on, and
\* other methods are refused.
MembershipRoute(r, c) ==
  /\ Arrives(r, "mutate")
  /\ Limited(c)
  /\ Answer(r) \/ WaitFor(r, "body") \/ WaitFor(r, "repository")
  /\ pool' = Managed
  /\ UNCHANGED <<listener, exit>>

\* So do documents, which are uploaded with a POST; a search without a query is refused.
KnowledgeRoute(r, c) ==
  /\ Arrives(r, "mutate")
  /\ Limited(c)
  /\ Answer(r) \/ WaitFor(r, "body") \/ WaitFor(r, "repository")
  /\ pool' = Managed
  /\ UNCHANGED <<listener, exit>>

\* A GET, and the DELETE of a meeting.
MeetingRoute(r, c) ==
  /\ Arrives(r, "meeting")
  /\ Limited(c)
  /\ WaitFor(r, "repository")
  /\ pool' = Managed
  /\ UNCHANGED <<listener, exit>>

\* readJsonBody has the body, or it is too large, not JSON, or not valid.
BodyEnds(r) ==
  /\ exit = "no" /\ step[r] = "body"
  /\ \/ Answer(r)
     \/ route[r] = "exchange" /\ WaitFor(r, "verify")
     \/ route[r] = "mutate" /\ WaitFor(r, "repository")
  /\ UNCHANGED <<route, turnedAway, limiter, server>>

Verified(r) ==
  /\ exit = "no" /\ step[r] = "verify"
  /\ \/ Answer(r) /\ UNCHANGED pool
     \/ WaitFor(r, "repository") /\ pool' = Managed
  /\ UNCHANGED <<route, turnedAway, limiter, listener, exit>>

\* The repository or the check settles: 200, 201, 403, 404, 409 or 503.  A transaction
\* that had not begun when its pool was ended is refused.
Settles(r) ==
  /\ exit = "no" /\ step[r] \in {"check", "repository"}
  /\ Answer(r)
  /\ \/ UNCHANGED turnedAway
     \/ /\ step[r] = "repository" /\ pool = "ending"
        /\ turnedAway' = turnedAway \cup {r}
  /\ UNCHANGED <<route, limiter, server>>

\* The client closes its connection; its handler goes on.
ClientLeaves(r) ==
  /\ exit = "no" /\ Waiting(r)
  /\ gone' = gone \cup {r}
  /\ UNCHANGED <<step, route, answers, turnedAway, limiter, server>>

-----------------------------------------------------------------------------
(* Shutdown *)

\* Mutant: the pools end beside the server, not after it.
SignalEndsPools ==
  /\ exit = "no"
  /\ \/ /\ listener = "open" /\ listener' = "closing"
        /\ pool' = IF pool = "open" THEN "ending" ELSE pool
        /\ UNCHANGED exit
     \/ listener # "open" /\ exit' = "failed" /\ UNCHANGED <<listener, pool>>
  /\ UNCHANGED <<limiter, requests>>

\* SIGINT or SIGTERM: server.close.  It is an error for a server that is closing already,
\* and the process exits with 1.
Signal ==
  /\ exit = "no"
  /\ \/ listener = "open" /\ listener' = "closing" /\ UNCHANGED exit
     \/ listener # "open" /\ exit' = "failed" /\ UNCHANGED listener
  /\ UNCHANGED <<limiter, requests, pool>>

NoConnections == \A r \in Requests : Waiting(r) => r \in gone

\* The callback of server.close ends the pools.
ListenerCloses ==
  /\ exit = "no" /\ listener = "closing"
  /\ NoConnections
  /\ listener' = "closed"
  /\ pool' = IF pool = "open" THEN "ending" ELSE pool
  /\ UNCHANGED <<limiter, requests, exit>>

ExitsCleanly ==
  /\ exit = "no" /\ listener = "closed"
  /\ pool = "ending" => \A r \in Requests : step[r] # "repository"
  /\ exit' = "clean"
  /\ UNCHANGED <<limiter, requests, pool, listener>>

-----------------------------------------------------------------------------
ApiNext ==
  \/ Tick \/ Signal \/ ListenerCloses \/ ExitsCleanly
  \/ \E r \in Requests :
       \/ ImmediateRoute(r) \/ ReadyRoute(r)
       \/ BodyEnds(r) \/ Verified(r) \/ Settles(r) \/ ClientLeaves(r)
       \/ \E c \in Callers :
            \/ RefuseLimited(r, c) \/ TokenRoute(r, c)
            \/ DevTokenRoute(r, c) \/ RealtimeTokenRoute(r, c) \/ ExchangeRoute(r, c)
            \/ MembershipRoute(r, c) \/ KnowledgeRoute(r, c) \/ MeetingRoute(r, c)

ApiSpec == ApiInit /\ [][ApiNext]_apiVars

-----------------------------------------------------------------------------
(* Properties *)

\* Every variable stays in its range.
ApiTypeOK ==
  /\ now \in 0..MaxClock
  /\ buckets \in [Callers -> [start : 0..MaxClock, count : 0..Cardinality(Requests)]]
  /\ promised \in [Callers -> Nat]
  /\ step \in [Requests -> {"none", "check", "body", "verify", "repository", "answered"}]
  /\ route \in [Requests -> Routes]
  /\ gone \subseteq Requests
  /\ answers \in [Requests -> 0..1]
  /\ turnedAway \subseteq Requests
  /\ pool \in {"none", "open", "ending"}
  /\ listener \in {"open", "closing", "closed"}
  /\ exit \in {"no", "clean", "failed"}

\* A caller that was told to wait, and waits as long as Retry-After said, is admitted,
\* wherever in the window it was refused and whatever was removed meanwhile.
RetryAfterHonoured ==
  \A c \in Callers : promised[c] # 0 /\ now >= promised[c] => Admits(c)

\* No request whose client waits is refused because the pool of its repository ends,
\* wherever between its awaits the signal falls and however late it arrives; and a process
\* that ends without an error has answered every such request.
NoneTurnedAway ==
  /\ turnedAway \subseteq gone
  /\ exit = "clean" => \A r \in Requests \ gone : step[r] \in {"none", "answered"}
=============================================================================
