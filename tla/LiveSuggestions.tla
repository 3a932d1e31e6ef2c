--------------------------- MODULE LiveSuggestions ---------------------------
(***************************************************************************)
(* Admission and accounting of live suggestions: the suggestion.request    *)
(* handler of services/realtime/src/ws-server.ts with its guardrail state, *)
(* the usage ledger (usage-ledger.ts) and the stream of the AI             *)
(* orchestrator.                                                           *)
(*                                                                         *)
(* The guardrail maps of the server outlive a connection: a session may be *)
(* resumed elsewhere while a request of it waits, so handlers of several   *)
(* connections meet in them.  Each await of the handler ends an action.    *)
(* A request that is refused changes nothing here.                         *)
(***************************************************************************)
EXTENDS Integers

CONSTANTS
  Sessions,
  Requests,        \* request identifiers, chosen by the clients
  Slots,           \* handlers that may be waiting at the same time
  MaxRequests,     \* maxRequestsPerSession
  MinInterval,     \* minIntervalMs
  MaxCost,         \* liveSuggestionMaxRequestCostMicrousd
  RejectedCost,    \* estimate of an input that is refused as too large
  Limit,           \* liveSuggestionSessionCostLimitMicrousd
  MaxTime,         \* bound: the clock of the model
  None

ASSUME SuggestionsAssumption ==
  /\ MaxRequests \in Nat \ {0}
  /\ {MinInterval, MaxCost, RejectedCost, Limit, MaxTime} \subseteq Nat
  /\ None \notin Sessions \cup Requests \cup Nat

VARIABLES
  phase,      \* RealtimeSession.state, and "unused" or "deleted" without one
  guard,      \* suggestionGuardrailStateBySession
  blocked,    \* usageAccountingBlockedSessions
  row,        \* cost on the usage_events row of a request, 0 without a row
  total,      \* the sum of the session's rows, as the ledger's query returns it
  tasks,      \* the handlers that are waiting for an await
  clock,      \* Date.now()
  seen,       \* history: identifiers of the requests that were counted
  submitted,  \* history: calls of the provider for the session
  spent,      \* history: what these calls cost
  repeated    \* history: sessions that sent a request identifier twice

vars == <<phase, guard, blocked, row, total, tasks, clock, seen, submitted, spent, repeated>>

ledger == <<row, total>>
history == <<seen, submitted, spent, repeated>>

Phase == {"unused", "active", "disconnected", "ended", "deleted"}

Stage == {"idle", "lookup", "retrieve", "stream", "complete", "failed", "persist"}

Task == [stage : Stage,
         sid : Sessions \cup {None},
         req : Requests \cup {None},
         at : Nat,         \* nowMs of the admission
         count : Nat,      \* acceptedCount read at the admission
         cost : Nat]       \* of the usage that is being recorded

Idle == [stage |-> "idle", sid |-> None, req |-> None, at |-> 0, count |-> 0, cost |-> 0]

Init ==
  /\ phase = [s \in Sessions |-> "unused"]
  /\ guard = [s \in Sessions |-> [lastAt |-> None, count |-> 0, inFlight |-> FALSE]]
  /\ blocked = {}
  /\ row = [s \in Sessions |-> [r \in Requests |-> 0]]
  /\ total = [s \in Sessions |-> 0]
  /\ tasks = [i \in Slots |-> Idle]
  /\ clock = 0
  /\ seen = [s \in Sessions |-> {}]
  /\ submitted = [s \in Sessions |-> 0]
  /\ spent = [s \in Sessions |-> 0]
  /\ repeated = {}

-----------------------------------------------------------------------------
(* Around the handler *)

\* authenticate, removeConnection, resumeSession and endSession; a session given
\* up for another one is deleted.
SessionMoves(s, p) ==
  /\ <<phase[s], p>> \in
       {<<"unused", "active">>, <<"active", "disconnected">>, <<"disconnected", "active">>,
        <<"active", "ended">>, <<"disconnected", "ended">>, <<"active", "deleted">>}
  /\ phase' = [phase EXCEPT ![s] = p]
  /\ UNCHANGED <<guard, blocked, ledger, tasks, clock, history>>

\* The wall clock of the server, which may be set back.
ClockMoves(t) ==
  /\ clock # t
  /\ clock' = t
  /\ UNCHANGED <<phase, guard, blocked, ledger, tasks, history>>

-----------------------------------------------------------------------------
(* Admission *)

\* Mutants: one request too many; the blocked set is not consulted.
AdmissibleOnceMore(s) ==
  /\ phase[s] = "active"
  /\ s \notin blocked
  /\ ~guard[s].inFlight
  /\ guard[s].count <= MaxRequests
  /\ guard[s].lastAt # None => clock - guard[s].lastAt >= MinInterval
AdmissibleBlocked(s) ==
  /\ phase[s] = "active"
  /\ ~guard[s].inFlight
  /\ guard[s].count < MaxRequests
  /\ guard[s].lastAt # None => clock - guard[s].lastAt >= MinInterval

\* What a suggestion.request must pass before the handler awaits the ledger.
Admissible(s) ==
  /\ phase[s] = "active"
  /\ s \notin blocked
  /\ ~guard[s].inFlight
  /\ guard[s].count < MaxRequests
  /\ guard[s].lastAt # None => clock - guard[s].lastAt >= MinInterval

\* Mutant: the session is not reserved while the ledger is awaited.
ReserveLate(i, s, r) ==
  /\ tasks[i] = Idle
  /\ Admissible(s)
  /\ tasks' = [tasks EXCEPT ![i] = [stage |-> "lookup", sid |-> s, req |-> r, at |-> clock,
                                   count |-> guard[s].count, cost |-> 0]]
  /\ UNCHANGED <<phase, guard, blocked, ledger, clock, history>>

\* The session is reserved before the lookup, with the state that was read.
Reserve(i, s, r) ==
  /\ tasks[i] = Idle
  /\ Admissible(s)
  /\ guard' = [guard EXCEPT ![s].inFlight = TRUE]
  /\ tasks' = [tasks EXCEPT ![i] = [stage |-> "lookup", sid |-> s, req |-> r, at |-> clock,
                                   count |-> guard[s].count, cost |-> 0]]
  /\ UNCHANGED <<phase, blocked, ledger, clock, history>>

At(i, stage) == tasks[i].stage = stage

Goes(i, stage) == tasks' = [tasks EXCEPT ![i].stage = stage]

\* Mutant: the handler that is done still names its request.
ReleaseHalf(i) ==
  /\ tasks' = [tasks EXCEPT ![i].stage = "idle"]
  /\ guard' = [guard EXCEPT ![tasks[i].sid].inFlight = FALSE]

\* The finally block, which clears the flag in the latest guardrail state.
Release(i) ==
  /\ tasks' = [tasks EXCEPT ![i] = Idle]
  /\ guard' = [guard EXCEPT ![tasks[i].sid].inFlight = FALSE]

\* Mutant: the handler returns before the try block whose finally clears the flag.
LookupFailsEarly(i) ==
  /\ At(i, "lookup")
  /\ blocked' = blocked \cup {tasks[i].sid}
  /\ tasks' = [tasks EXCEPT ![i] = Idle]
  /\ UNCHANGED <<phase, guard, ledger, clock, history>>

\* The cost of the session cannot be read: it is blocked.
LookupFails(i) ==
  /\ At(i, "lookup")
  /\ blocked' = blocked \cup {tasks[i].sid}
  /\ Release(i)
  /\ UNCHANGED <<phase, ledger, clock, history>>

WithinBudgetSoFar(s) == total[s] < Limit       \* mutant: no worst case

WithinBudget(s) == total[s] + MaxCost <= Limit

\* suggestion_budget_exceeded: the request is not counted.
Reject(i) ==
  /\ At(i, "lookup")
  /\ ~WithinBudget(tasks[i].sid)
  /\ Release(i)
  /\ UNCHANGED <<phase, blocked, ledger, clock, history>>

\* Mutants: the flag is not kept; the time is read again.
CountUnreserved(i) ==
  LET s == tasks[i].sid
      r == tasks[i].req IN
  /\ At(i, "lookup")
  /\ WithinBudget(s)
  /\ guard' = [guard EXCEPT ![s] = [lastAt |-> tasks[i].at, count |-> tasks[i].count + 1,
                                   inFlight |-> FALSE]]
  /\ Goes(i, "retrieve")
  /\ seen' = [seen EXCEPT ![s] = @ \cup {r}]
  /\ repeated' = IF r \in seen[s] THEN repeated \cup {s} ELSE repeated
  /\ UNCHANGED <<phase, blocked, ledger, clock, submitted, spent>>
CountedNow(i) ==
  LET s == tasks[i].sid
      r == tasks[i].req IN
  /\ At(i, "lookup")
  /\ WithinBudget(s)
  /\ guard' = [guard EXCEPT ![s] = [lastAt |-> clock, count |-> tasks[i].count + 1,
                                   inFlight |-> TRUE]]
  /\ Goes(i, "retrieve")
  /\ seen' = [seen EXCEPT ![s] = @ \cup {r}]
  /\ repeated' = IF r \in seen[s] THEN repeated \cup {s} ELSE repeated
  /\ UNCHANGED <<phase, blocked, ledger, clock, submitted, spent>>

\* The attempt is counted before provider work, and the sources are retrieved;
\* a retrieval that fails leaves the request without sources.
Count(i) ==
  LET s == tasks[i].sid
      r == tasks[i].req IN
  /\ At(i, "lookup")
  /\ WithinBudget(s)
  /\ guard' = [guard EXCEPT ![s] = [lastAt |-> tasks[i].at, count |-> tasks[i].count + 1,
                                   inFlight |-> TRUE]]
  /\ Goes(i, "retrieve")
  /\ seen' = [seen EXCEPT ![s] = @ \cup {r}]
  /\ repeated' = IF r \in seen[s] THEN repeated \cup {s} ELSE repeated
  /\ UNCHANGED <<phase, blocked, ledger, clock, submitted, spent>>

-----------------------------------------------------------------------------
(* Provider work and accounting *)

Submit(i) ==
  /\ At(i, "retrieve")
  /\ Goes(i, "stream")
  /\ submitted' = [submitted EXCEPT ![tasks[i].sid] = @ + 1]
  /\ UNCHANGED <<phase, guard, blocked, ledger, clock, seen, spent, repeated>>

\* recordSuggestionUsage: the write is awaited, unless the session was deleted.
Record(i, stage, cost) ==
  IF phase[tasks[i].sid] = "deleted"
  THEN Release(i)
  ELSE /\ tasks' = [tasks EXCEPT ![i].stage = stage, ![i].cost = cost]
       /\ UNCHANGED guard

\* The input is too large: the provider is not called, yet usage is recorded.
TooLarge(i) ==
  /\ At(i, "retrieve")
  /\ Record(i, "failed", RejectedCost)
  /\ UNCHANGED <<phase, blocked, ledger, clock, history>>

\* The stream completes, or fails after some tokens; either way it was paid for.
StreamEnds(i, stage, cost) ==
  /\ At(i, "stream")
  /\ stage \in {"complete", "failed"}
  /\ spent' = [spent EXCEPT ![tasks[i].sid] = @ + cost]
  /\ Record(i, stage, cost)
  /\ UNCHANGED <<phase, blocked, ledger, clock, seen, submitted, repeated>>

Recording(i) == At(i, "complete") \/ At(i, "failed")

\* recordLiveSuggestionUsage: the row of a request identifier is replaced.
Upsert(s, r, cost) ==
  /\ row' = [row EXCEPT ![s][r] = cost]
  /\ total' = [total EXCEPT ![s] = @ - row[s][r] + cost]

\* suggestion.complete is sent, and persisted while the session is active; an
\* error is sent and the handler is done.
Recorded(i) ==
  /\ Recording(i)
  /\ Upsert(tasks[i].sid, tasks[i].req, tasks[i].cost)
  /\ IF At(i, "complete") /\ phase[tasks[i].sid] = "active"
     THEN Goes(i, "persist") /\ UNCHANGED guard
     ELSE Release(i)
  /\ UNCHANGED <<phase, blocked, clock, history>>

\* Mutant: the client is told, and the session goes on.
RecordFailsOpen(i) ==
  /\ Recording(i)
  /\ Upsert(tasks[i].sid, tasks[i].req, tasks[i].cost) \/ UNCHANGED ledger
  /\ Release(i)
  /\ UNCHANGED <<phase, blocked, clock, history>>

\* The write is rejected, and may have been committed all the same.
RecordFails(i) ==
  /\ Recording(i)
  /\ \/ Upsert(tasks[i].sid, tasks[i].req, tasks[i].cost)
     \/ UNCHANGED ledger
  /\ blocked' = blocked \cup {tasks[i].sid}
  /\ Release(i)
  /\ UNCHANGED <<phase, clock, history>>

\* recordSuggestion settles, with an error or without, and the stream is done.
Persisted(i) ==
  /\ At(i, "persist")
  /\ Release(i)
  /\ UNCHANGED <<phase, blocked, ledger, clock, history>>

-----------------------------------------------------------------------------
Continuation(i) ==
  \/ LookupFails(i)
  \/ Reject(i)
  \/ Count(i)
  \/ Submit(i)
  \/ TooLarge(i)
  \/ \E stage \in {"complete", "failed"}, c \in 0..MaxCost : StreamEnds(i, stage, c)
  \/ Recorded(i)
  \/ RecordFails(i)
  \/ Persisted(i)

Next ==
  \/ \E s \in Sessions, p \in Phase : SessionMoves(s, p)
  \/ \E t \in 0..MaxTime : ClockMoves(t)
  \/ \E i \in Slots, s \in Sessions, r \in Requests : Reserve(i, s, r)
  \/ \E i \in Slots : Continuation(i)

Spec == Init /\ [][Next]_vars

\* Every await settles: the provider and the embedding call have a timeout, and
\* the database answers or drops the connection.
Fairness == \A i \in Slots : WF_vars(Continuation(i))

FairSpec == Spec /\ Fairness

-----------------------------------------------------------------------------
(* Properties *)

\* Every variable stays in its range; a waiting handler knows its request.
TypeOK ==
  /\ phase \in [Sessions -> Phase]
  /\ guard \in [Sessions -> [lastAt : Nat \cup {None}, count : Nat, inFlight : BOOLEAN]]
  /\ blocked \subseteq Sessions
  /\ row \in [Sessions -> [Requests -> Nat]]
  /\ total \in [Sessions -> Int]
  /\ tasks \in [Slots -> Task]
  /\ clock \in 0..MaxTime
  /\ seen \in [Sessions -> SUBSET Requests]
  /\ submitted \in [Sessions -> Nat]
  /\ spent \in [Sessions -> Nat]
  /\ repeated \subseteq Sessions
  /\ \A i \in Slots :
       tasks[i] = Idle \/ (tasks[i].stage # "idle" /\ tasks[i].sid # None /\ tasks[i].req # None)

Works(i, s) == tasks[i].stage # "idle" /\ tasks[i].sid = s

\* The flag of a session says exactly whether a handler works for it, and one does
\* at most, on whatever connections its requests arrived: it is neither lost, which
\* would silence the session for ever, nor cleared under a second handler.
Serialized ==
  \A s \in Sessions :
    /\ guard[s].inFlight <=> \E i \in Slots : Works(i, s)
    /\ \A i, j \in Slots : Works(i, s) /\ Works(j, s) => i = j

\* The provider is called at most MaxRequests times for a session, whatever fails.
RequestCap == \A s \in Sessions : submitted[s] <= MaxRequests

\* What was paid for a session stays within its limit, also when usage could not
\* be recorded, as long as its client does not use a request identifier twice.
BudgetHolds == \A s \in Sessions \ repeated : spent[s] <= Limit

\* Money that the ledger does not show stops the session: when no handler works
\* for a session and its rows are short of what was paid, then no request of it is
\* ever submitted again.
ShortfallBlocks ==
  \A s \in Sessions \ repeated :
    spent[s] > total[s] /\ ~guard[s].inFlight => s \in blocked \/ phase[s] = "deleted"

\* No provider work starts once the accounting of a session failed.
FailsClosed ==
  [][\A s \in blocked : s \in blocked' /\ submitted'[s] = submitted[s]]_vars

\* Two counted requests of a session are MinInterval apart by the clock that was
\* read at their admission, and each is counted once.
Debounced ==
  [][\A s \in Sessions : guard'[s].count # guard[s].count =>
       /\ guard'[s].count = guard[s].count + 1
       /\ guard[s].lastAt # None => guard'[s].lastAt >= guard[s].lastAt + MinInterval]_vars

\* A session is not refused for ever: the request it works on comes to an end.
FlightEnds == \A s \in Sessions : guard[s].inFlight ~> ~guard[s].inFlight

\* The handler implements the admission of SuggestionAdmission: a request starts
\* when it is counted, and a session is frozen when it is blocked, or deleted with
\* nothing left to do.
Admission == INSTANCE SuggestionAdmission WITH
  busy <- {s \in Sessions : \E i \in Slots : Works(i, s) /\ ~At(i, "lookup")},
  started <- [s \in Sessions |-> guard[s].count],
  frozen <- {s \in Sessions :
               s \in blocked \/ (phase[s] = "deleted" /\ ~guard[s].inFlight)},
  lapsed <- repeated

AdmissionSpec == Admission!Spec
=============================================================================
