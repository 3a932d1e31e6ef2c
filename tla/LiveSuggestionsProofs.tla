------------------------ MODULE LiveSuggestionsProofs ------------------------
(***************************************************************************)
(* Proofs about LiveSuggestions, for every set of sessions, requests and   *)
(* handlers and every setting of the limits.  The argument: a handler that *)
(* works for a session is the only one that does (Serialized), so what it  *)
(* read before an await is still so after it (Reserved); an identifier     *)
(* that is new has no row yet (FreshRows), so recording a cost adds it to  *)
(* the total, and the total bounds what was paid (Paid).                   *)
(***************************************************************************)
EXTENDS LiveSuggestions, TLAPS

\* What a waiting lookup read is still what the guardrail says.
Reserved ==
  /\ \A s \in Sessions : guard[s].count <= MaxRequests
  /\ \A i \in Slots : At(i, "lookup") =>
       LET s == tasks[i].sid IN
       /\ tasks[i].count = guard[s].count
       /\ guard[s].count < MaxRequests
       /\ guard[s].lastAt # None => tasks[i].at >= guard[s].lastAt + MinInterval

\* A call of the provider was counted before.
Counted ==
  /\ \A s \in Sessions : submitted[s] <= guard[s].count
  /\ \A i \in Slots : At(i, "retrieve") => submitted[tasks[i].sid] < guard[tasks[i].sid].count

\* No handler works for a blocked session.
Unblocked == \A i \in Slots : ~At(i, "idle") => tasks[i].sid \notin blocked

\* A row belongs to a request that was counted, and the request that is worked on
\* has none.
FreshRows ==
  \A s \in Sessions \ repeated :
    /\ \A r \in Requests \ seen[s] : row[s][r] = 0
    /\ \A i \in Slots :
         tasks[i].sid = s /\ (At(i, "retrieve") \/ At(i, "stream") \/ Recording(i)) =>
           tasks[i].req \in seen[s] /\ row[s][tasks[i].req] = 0

\* What was paid is on record, or about to be, or the session is over.
Paid ==
  \A s \in Sessions \ repeated :
    /\ spent[s] <= Limit
    /\ ~guard[s].inFlight => spent[s] <= total[s] \/ s \in blocked \/ phase[s] = "deleted"
    /\ \A i \in Slots : tasks[i].sid = s =>
         /\ At(i, "lookup") \/ At(i, "persist") => spent[s] <= total[s]
         /\ At(i, "retrieve") \/ At(i, "stream") =>
              spent[s] <= total[s] /\ spent[s] + MaxCost <= Limit
         /\ Recording(i) => spent[s] <= total[s] + tasks[i].cost

-----------------------------------------------------------------------------
(* Types *)

\* The request a handler works for.
SameRequest(i) ==
  /\ tasks'[i].sid = tasks[i].sid
  /\ tasks'[i].req = tasks[i].req
  /\ tasks'[i].at = tasks[i].at
  /\ tasks'[i].count = tasks[i].count

\* Handler i moved, and only it.
Moves(i) ==
  /\ tasks' \in [Slots -> Task]
  /\ \A j \in Slots \ {i} : tasks'[j] = tasks[j]

TasksOK ==
  /\ tasks \in [Slots -> Task]
  /\ \A i \in Slots :
       tasks[i] = Idle \/ (tasks[i].stage # "idle" /\ tasks[i].sid # None /\ tasks[i].req # None)

GuardOK == guard \in [Sessions -> [lastAt : Nat \cup {None}, count : Nat, inFlight : BOOLEAN]]

LEMMA TypeInit == Init => TypeOK
BY SuggestionsAssumption DEF Init, TypeOK, Idle, Task, Stage, Phase

LEMMA IdleIsTask == Idle \in Task /\ Idle.stage = "idle"
BY DEF Idle, Task, Stage

LEMMA WorkerKnows ==
  ASSUME TasksOK, NEW i \in Slots, tasks[i].stage # "idle"
  PROVE  /\ tasks[i].sid \in Sessions /\ tasks[i].req \in Requests
         /\ tasks[i].at \in Nat /\ tasks[i].count \in Nat /\ tasks[i].cost \in Nat
BY DEF TasksOK, Task, Idle

LEMMA GoesEffect ==
  ASSUME TasksOK, NEW i \in Slots, tasks[i].stage # "idle", NEW st \in Stage \ {"idle"}, Goes(i, st)
  PROVE  Moves(i) /\ TasksOK' /\ SameRequest(i) /\ tasks'[i].stage = st
         /\ tasks'[i].cost = tasks[i].cost
<1>. DEFINE T == [tasks[i] EXCEPT !.stage = st]
<1>1. tasks[i] \in Task /\ tasks[i].sid # None /\ tasks[i].req # None
  BY DEF TasksOK, Idle
<1>2. /\ T \in Task /\ T.stage = st /\ T.sid = tasks[i].sid /\ T.req = tasks[i].req
      /\ T.at = tasks[i].at /\ T.count = tasks[i].count /\ T.cost = tasks[i].cost
  BY <1>1 DEF Task
<1>3. tasks' = [tasks EXCEPT ![i] = T]
  BY DEF Goes
<1>4. tasks'[i] = T /\ Moves(i)
  BY <1>2, <1>3 DEF TasksOK, Moves
<1>. QED
  BY <1>1, <1>2, <1>4 DEF TasksOK, Moves, SameRequest

LEMMA ReserveEffect ==
  ASSUME TypeOK, TasksOK, GuardOK, NEW i \in Slots, NEW s \in Sessions, NEW r \in Requests,
         Reserve(i, s, r)
  PROVE  /\ Moves(i) /\ TasksOK' /\ GuardOK'
         /\ tasks[i].stage = "idle"
         /\ tasks'[i].stage = "lookup" /\ tasks'[i].sid = s /\ tasks'[i].req = r
         /\ tasks'[i].at = clock /\ tasks'[i].count = guard[s].count /\ tasks'[i].cost = 0
         /\ \A t \in Sessions \ {s} : guard'[t] = guard[t]
         /\ guard'[s].count = guard[s].count /\ guard'[s].lastAt = guard[s].lastAt
         /\ guard'[s].inFlight = TRUE
<1>. DEFINE T == [stage |-> "lookup", sid |-> s, req |-> r, at |-> clock,
                  count |-> guard[s].count, cost |-> 0]
            G == [guard[s] EXCEPT !.inFlight = TRUE]
<1>1. clock \in Nat /\ guard[s].count \in Nat
  BY SuggestionsAssumption DEF TypeOK, GuardOK
<1>2. T \in Task /\ T.sid # None /\ T.req # None
  BY <1>1, SuggestionsAssumption DEF Task, Stage
<1>3. tasks[i] = Idle /\ tasks' = [tasks EXCEPT ![i] = T] /\ guard' = [guard EXCEPT ![s] = G]
  BY DEF Reserve
<1>4. Moves(i) /\ tasks'[i] = T /\ TasksOK'
  BY <1>2, <1>3 DEF Moves, TasksOK
<1>5. /\ G \in [lastAt : Nat \cup {None}, count : Nat, inFlight : BOOLEAN]
      /\ G.count = guard[s].count /\ G.lastAt = guard[s].lastAt /\ G.inFlight = TRUE
  BY DEF GuardOK
<1>6. guard'[s] = G /\ GuardOK' /\ \A t \in Sessions \ {s} : guard'[t] = guard[t]
  BY <1>3, <1>5 DEF GuardOK
<1>. QED
  BY <1>3, <1>4, <1>5, <1>6, IdleIsTask

LEMMA ReleaseEffect ==
  ASSUME TasksOK, GuardOK, NEW i \in Slots, tasks[i].stage # "idle", Release(i)
  PROVE  /\ Moves(i) /\ TasksOK' /\ GuardOK'
         /\ tasks'[i].stage = "idle" /\ tasks'[i] = Idle
         /\ \A t \in Sessions \ {tasks[i].sid} : guard'[t] = guard[t]
         /\ guard'[tasks[i].sid].count = guard[tasks[i].sid].count
         /\ guard'[tasks[i].sid].lastAt = guard[tasks[i].sid].lastAt
         /\ guard'[tasks[i].sid].inFlight = FALSE
<1>. DEFINE s == tasks[i].sid
            G == [guard[s] EXCEPT !.inFlight = FALSE]
<1>1. s \in Sessions
  BY WorkerKnows
<1>2. /\ tasks' = [tasks EXCEPT ![i] = Idle] /\ guard' = [guard EXCEPT ![s] = G]
  BY DEF Release
<1>3. Moves(i) /\ tasks'[i] = Idle /\ TasksOK'
  BY <1>2, IdleIsTask DEF Moves, TasksOK
<1>4. /\ G \in [lastAt : Nat \cup {None}, count : Nat, inFlight : BOOLEAN]
      /\ G.count = guard[s].count /\ G.lastAt = guard[s].lastAt /\ G.inFlight = FALSE
  BY <1>1 DEF GuardOK
<1>5. guard'[s] = G /\ GuardOK' /\ \A t \in Sessions \ {s} : guard'[t] = guard[t]
  BY <1>1, <1>2, <1>4 DEF GuardOK
<1>. QED
  BY <1>1, <1>3, <1>4, <1>5, IdleIsTask

\* A usage write begins, or there is no session to write it for.
LEMMA RecordEffect ==
  ASSUME TasksOK, GuardOK, NEW i \in Slots, tasks[i].stage # "idle",
         NEW st \in {"complete", "failed"}, NEW c \in Nat, Record(i, st, c)
  PROVE  \/ /\ phase[tasks[i].sid] = "deleted"
            /\ Release(i)
         \/ /\ Moves(i) /\ TasksOK' /\ SameRequest(i)
            /\ tasks'[i].stage = st /\ tasks'[i].cost = c
            /\ guard' = guard
<1>1. CASE phase[tasks[i].sid] = "deleted"
  BY <1>1 DEF Record
<1>2. CASE phase[tasks[i].sid] # "deleted"
  <2>. DEFINE T == [[tasks[i] EXCEPT !.stage = st] EXCEPT !.cost = c]
  <2>1. tasks[i] \in Task /\ tasks[i].sid # None /\ tasks[i].req # None
    BY DEF TasksOK, Idle
  <2>2. /\ T \in Task /\ T.stage = st /\ T.sid = tasks[i].sid /\ T.req = tasks[i].req
        /\ T.at = tasks[i].at /\ T.count = tasks[i].count /\ T.cost = c
    BY <2>1 DEF Task, Stage
  <2>3. tasks' = [tasks EXCEPT ![i] = T] /\ guard' = guard
    BY <1>2 DEF Record, TasksOK
  <2>4. tasks'[i] = T /\ Moves(i)
    BY <2>2, <2>3 DEF TasksOK, Moves
  <2>. QED
    BY <2>1, <2>2, <2>3, <2>4 DEF TasksOK, Moves, SameRequest
<1>. QED
  BY <1>1, <1>2

LedgerOK == row \in [Sessions -> [Requests -> Nat]] /\ total \in [Sessions -> Int]

LEMMA UpsertEffect ==
  ASSUME LedgerOK, NEW s \in Sessions, NEW r \in Requests, NEW c \in Nat, Upsert(s, r, c)
  PROVE  /\ LedgerOK'
         /\ \A t \in Sessions \ {s} : row'[t] = row[t] /\ total'[t] = total[t]
         /\ row'[s][r] = c /\ \A q \in Requests \ {r} : row'[s][q] = row[s][q]
         /\ total'[s] = total[s] - row[s][r] + c
<1>. DEFINE R == [row[s] EXCEPT ![r] = c]
<1>1. R \in [Requests -> Nat] /\ R[r] = c /\ \A q \in Requests \ {r} : R[q] = row[s][q]
  BY DEF LedgerOK
<1>2. row' = [row EXCEPT ![s] = R]
  BY DEF Upsert
<1>3. total[s] - row[s][r] + c \in Int
  BY DEF LedgerOK
<1>. QED
  BY <1>1, <1>2, <1>3 DEF LedgerOK, Upsert

LEMMA CountEffect ==
  ASSUME TasksOK, GuardOK, NEW i \in Slots, Count(i)
  PROVE  /\ GuardOK'
         /\ guard'[tasks[i].sid] = [lastAt |-> tasks[i].at, count |-> tasks[i].count + 1,
                                    inFlight |-> TRUE]
         /\ \A t \in Sessions \ {tasks[i].sid} : guard'[t] = guard[t]
<1>1. tasks[i].stage # "idle"
  BY DEF Count, At
<1>2. tasks[i].sid \in Sessions /\ tasks[i].at \in Nat /\ tasks[i].count \in Nat
  BY <1>1, WorkerKnows
<1>. QED
  BY <1>2 DEF Count, GuardOK

LEMMA TypeStep ==
  ASSUME TypeOK, [Next]_vars
  PROVE  TypeOK'
<1>a. TasksOK /\ GuardOK
  BY DEF TypeOK, TasksOK, GuardOK
<1>b. /\ TasksOK' => tasks' \in [Slots -> Task] /\ \A i \in Slots : tasks'[i] = Idle \/
           (tasks'[i].stage # "idle" /\ tasks'[i].sid # None /\ tasks'[i].req # None)
      /\ GuardOK' => guard' \in [Sessions -> [lastAt : Nat \cup {None}, count : Nat,
                                              inFlight : BOOLEAN]]
  BY DEF TasksOK, GuardOK
<1>1. ASSUME NEW s \in Sessions, NEW p \in Phase, SessionMoves(s, p)
      PROVE  TypeOK'
  BY <1>1 DEF TypeOK, SessionMoves, ledger, history
<1>2. ASSUME NEW t \in 0..MaxTime, ClockMoves(t)
      PROVE  TypeOK'
  BY <1>2 DEF TypeOK, ClockMoves, ledger, history
<1>3. ASSUME NEW i \in Slots, NEW s \in Sessions, NEW r \in Requests, Reserve(i, s, r)
      PROVE  TypeOK'
  <2>1. TasksOK' /\ GuardOK'
    BY <1>a, <1>3, ReserveEffect
  <2>. QED
    BY <1>3, <2>1, <1>b DEF TypeOK, Reserve, ledger, history
<1>4. ASSUME NEW i \in Slots, LookupFails(i)
     PROVE  TypeOK'
  <2>1. tasks[i].stage # "idle" /\ Release(i)
    BY <1>4 DEF LookupFails, At, Recording
  <2>2. TasksOK' /\ GuardOK'
    BY <1>a, <2>1, ReleaseEffect
  <2>3. tasks[i].sid \in Sessions /\ tasks[i].req \in Requests /\ tasks[i].cost \in Nat
    BY <1>a, <2>1, WorkerKnows
  <2>. QED
    BY <1>4, <2>2, <2>3, <1>b DEF TypeOK, LookupFails, ledger, history
<1>5. ASSUME NEW i \in Slots, Reject(i)
     PROVE  TypeOK'
  <2>1. tasks[i].stage # "idle" /\ Release(i)
    BY <1>5 DEF Reject, At, Recording
  <2>2. TasksOK' /\ GuardOK'
    BY <1>a, <2>1, ReleaseEffect
  <2>3. tasks[i].sid \in Sessions /\ tasks[i].req \in Requests /\ tasks[i].cost \in Nat
    BY <1>a, <2>1, WorkerKnows
  <2>. QED
    BY <1>5, <2>2, <2>3, <1>b DEF TypeOK, Reject, ledger, history
<1>6. ASSUME NEW i \in Slots, Count(i)
      PROVE  TypeOK'
  <2>1. tasks[i].stage # "idle" /\ Goes(i, "retrieve") /\ "retrieve" \in Stage \ {"idle"}
    BY <1>6 DEF Count, At, Stage
  <2>2. TasksOK' /\ GuardOK'
    BY <1>a, <1>6, <2>1, GoesEffect, CountEffect
  <2>3. tasks[i].sid \in Sessions /\ tasks[i].req \in Requests
    BY <1>a, <2>1, WorkerKnows
  <2>. QED
    BY <1>6, <2>2, <2>3, <1>b DEF TypeOK, Count, ledger, history
<1>7. ASSUME NEW i \in Slots, Submit(i)
      PROVE  TypeOK'
  <2>1. tasks[i].stage # "idle" /\ Goes(i, "stream") /\ "stream" \in Stage \ {"idle"}
    BY <1>7 DEF Submit, At, Stage
  <2>2. TasksOK' /\ tasks[i].sid \in Sessions
    BY <1>a, <2>1, GoesEffect, WorkerKnows
  <2>. QED
    BY <1>7, <2>2, <1>b DEF TypeOK, Submit, ledger, history
<1>8. ASSUME NEW i \in Slots, TooLarge(i)
      PROVE  TypeOK'
  <2>1. tasks[i].stage # "idle" /\ Record(i, "failed", RejectedCost) /\ RejectedCost \in Nat
    BY <1>8, SuggestionsAssumption DEF TooLarge, At
  <2>2. TasksOK' /\ GuardOK'
    BY <1>a, <2>1, RecordEffect, ReleaseEffect DEF GuardOK
  <2>. QED
    BY <1>8, <2>2, <1>b DEF TypeOK, TooLarge, ledger, history
<1>9. ASSUME NEW i \in Slots, NEW st \in {"complete", "failed"}, NEW c \in 0..MaxCost,
             StreamEnds(i, st, c)
      PROVE  TypeOK'
  <2>1. tasks[i].stage # "idle" /\ Record(i, st, c) /\ c \in Nat
    BY <1>9, SuggestionsAssumption DEF StreamEnds, At
  <2>2. TasksOK' /\ GuardOK' /\ tasks[i].sid \in Sessions
    BY <1>a, <2>1, RecordEffect, ReleaseEffect, WorkerKnows DEF GuardOK
  <2>3. spent' \in [Sessions -> Nat]
    BY <1>9, <2>1, <2>2 DEF TypeOK, StreamEnds
  <2>. QED
    BY <1>9, <2>2, <2>3, <1>b DEF TypeOK, StreamEnds, ledger
<1>10. ASSUME NEW i \in Slots, Recorded(i)
       PROVE  TypeOK'
  <2>1. tasks[i].stage # "idle" /\ "persist" \in Stage \ {"idle"}
    BY <1>10 DEF Recorded, Recording, At, Stage
  <2>2. \/ Goes(i, "persist") /\ UNCHANGED guard
        \/ Release(i)
    BY <1>10 DEF Recorded
  <2>3. TasksOK' /\ GuardOK'
    BY <1>a, <2>1, <2>2, GoesEffect, ReleaseEffect DEF GuardOK
  <2>4. tasks[i].sid \in Sessions /\ tasks[i].req \in Requests /\ tasks[i].cost \in Nat
    BY <1>a, <2>1, WorkerKnows
  <2>5. LedgerOK'
    BY <1>10, <2>4, UpsertEffect DEF TypeOK, LedgerOK, Recorded
  <2>. QED
    BY <1>10, <2>3, <2>5, <1>b DEF TypeOK, LedgerOK, Recorded, history
<1>11. ASSUME NEW i \in Slots, RecordFails(i)
       PROVE  TypeOK'
  <2>1. tasks[i].stage # "idle" /\ Release(i)
    BY <1>11 DEF RecordFails, At, Recording
  <2>2. TasksOK' /\ GuardOK'
    BY <1>a, <2>1, ReleaseEffect
  <2>3. tasks[i].sid \in Sessions /\ tasks[i].req \in Requests /\ tasks[i].cost \in Nat
    BY <1>a, <2>1, WorkerKnows
  <2>4. LedgerOK'
    BY <1>11, <2>3, UpsertEffect DEF TypeOK, LedgerOK, RecordFails, ledger
  <2>. QED
    BY <1>11, <2>2, <2>3, <2>4, <1>b DEF TypeOK, LedgerOK, RecordFails, history
<1>12. ASSUME NEW i \in Slots, Persisted(i)
       PROVE  TypeOK'
  <2>1. tasks[i].stage # "idle" /\ Release(i)
    BY <1>12 DEF Persisted, At, Recording
  <2>2. TasksOK' /\ GuardOK'
    BY <1>a, <2>1, ReleaseEffect
  <2>3. tasks[i].sid \in Sessions /\ tasks[i].req \in Requests /\ tasks[i].cost \in Nat
    BY <1>a, <2>1, WorkerKnows
  <2>. QED
    BY <1>12, <2>2, <2>3, <1>b DEF TypeOK, Persisted, ledger, history
<1>13. CASE UNCHANGED vars
  BY <1>13 DEF vars, TypeOK
<1>. QED
  BY <1>1, <1>2, <1>3, <1>4, <1>5, <1>6, <1>7, <1>8, <1>9, <1>10, <1>11, <1>12, <1>13
  DEF Next, Continuation

\* The state of the handlers and of the ledger stays in its range, for every set of
\* sessions, requests and handlers.
THEOREM TypeCorrect == Spec => []TypeOK
BY TypeInit, TypeStep, PTL DEF Spec

-----------------------------------------------------------------------------
(* One handler at a time *)

LEMMA TypeParts ==
  ASSUME TypeOK
  PROVE  TasksOK /\ GuardOK /\ LedgerOK
BY DEF TypeOK, TasksOK, GuardOK, LedgerOK

\* The three ways a step moves a handler, and what each does to the flags.
Begins(i, s) ==
  /\ Moves(i)
  /\ tasks[i].stage = "idle" /\ tasks'[i].stage # "idle" /\ tasks'[i].sid = s
  /\ \A t \in Sessions \ {s} : guard'[t] = guard[t]
  /\ guard[s].inFlight = FALSE /\ guard'[s].inFlight = TRUE

Stays(i) ==
  /\ Moves(i)
  /\ tasks[i].stage # "idle" /\ tasks'[i].stage # "idle" /\ SameRequest(i)
  /\ \A t \in Sessions : guard'[t] = guard[t] \/ (t = tasks[i].sid /\ guard'[t].inFlight = TRUE)

Stops(i) ==
  /\ Moves(i)
  /\ tasks[i].stage # "idle" /\ tasks'[i] = Idle
  /\ \A t \in Sessions \ {tasks[i].sid} : guard'[t] = guard[t]
  /\ guard'[tasks[i].sid].inFlight = FALSE

LEMMA Shapes ==
  ASSUME TypeOK, [Next]_vars
  PROVE  \/ UNCHANGED <<tasks, guard>>
         \/ \E i \in Slots, s \in Sessions : Begins(i, s)
         \/ \E i \in Slots : Stays(i) \/ Stops(i)
<1>a. TasksOK /\ GuardOK
  BY TypeParts
<1>1. ASSUME NEW i \in Slots, tasks[i].stage # "idle", Release(i)
      PROVE  Stops(i)
  BY <1>a, <1>1, ReleaseEffect DEF Stops
<1>2. ASSUME NEW i \in Slots, tasks[i].stage # "idle", NEW st \in Stage \ {"idle"}, Goes(i, st),
             UNCHANGED guard
      PROVE  Stays(i)
  BY <1>a, <1>2, GoesEffect DEF Stays
<1>3. ASSUME NEW i \in Slots, tasks[i].stage # "idle", NEW st \in {"complete", "failed"},
             NEW c \in Nat, Record(i, st, c)
      PROVE  Stays(i) \/ Stops(i)
  BY <1>a, <1>1, <1>3, RecordEffect DEF Stays
<1>4. ASSUME NEW i \in Slots, NEW s \in Sessions, NEW r \in Requests, Reserve(i, s, r)
      PROVE  Begins(i, s)
  <2>1. guard[s].inFlight = FALSE
    BY <1>a, <1>4 DEF Reserve, Admissible, GuardOK
  <2>. QED
    BY <1>a, <1>4, <2>1, ReserveEffect DEF Begins
<1>5. ASSUME NEW i \in Slots, Count(i)
      PROVE  Stays(i)
  <2>1. tasks[i].stage # "idle" /\ Goes(i, "retrieve") /\ "retrieve" \in Stage \ {"idle"}
    BY <1>5 DEF Count, At, Stage
  <2>2. Moves(i) /\ SameRequest(i) /\ tasks'[i].stage # "idle"
    BY <1>a, <2>1, GoesEffect
  <2>3. /\ guard'[tasks[i].sid] = [lastAt |-> tasks[i].at, count |-> tasks[i].count + 1,
                                  inFlight |-> TRUE]
        /\ \A t \in Sessions \ {tasks[i].sid} : guard'[t] = guard[t]
    BY <1>a, <1>5, CountEffect
  <2>4. guard'[tasks[i].sid].inFlight = TRUE
    BY <2>3
  <2>. QED
    BY <2>1, <2>2, <2>3, <2>4 DEF Stays
<1>6. /\ {"stream", "persist"} \subseteq Stage \ {"idle"} /\ RejectedCost \in Nat
      /\ 0..MaxCost \subseteq Nat
  BY SuggestionsAssumption DEF Stage
<1>7. ASSUME NEW i \in Slots, Continuation(i)
      PROVE  Stays(i) \/ Stops(i)
  <2>1. CASE LookupFails(i) \/ Reject(i) \/ RecordFails(i) \/ Persisted(i)
    BY <1>1, <2>1 DEF LookupFails, Reject, RecordFails, Persisted, Recording, At
  <2>2. CASE Count(i)
    BY <1>5, <2>2
  <2>3. CASE Submit(i)
    BY <1>2, <1>6, <2>3 DEF Submit, At
  <2>4. CASE TooLarge(i)
    BY <1>3, <1>6, <2>4 DEF TooLarge, At
  <2>5. ASSUME NEW st \in {"complete", "failed"}, NEW c \in 0..MaxCost, StreamEnds(i, st, c)
        PROVE  Stays(i) \/ Stops(i)
    BY <1>3, <1>6, <2>5 DEF StreamEnds, At
  <2>6. CASE Recorded(i)
    BY <1>1, <1>2, <1>6, <2>6 DEF Recorded, Recording, At
  <2>. QED
    BY <1>7, <2>1, <2>2, <2>3, <2>4, <2>5, <2>6 DEF Continuation
<1>8. ASSUME NEW s \in Sessions, NEW p \in Phase, SessionMoves(s, p)
      PROVE  UNCHANGED <<tasks, guard>>
  BY <1>8 DEF SessionMoves
<1>9. ASSUME NEW t \in 0..MaxTime, ClockMoves(t)
      PROVE  UNCHANGED <<tasks, guard>>
  BY <1>9 DEF ClockMoves
<1>. QED
  BY <1>4, <1>7, <1>8, <1>9 DEF Next, vars

LEMMA SerializedStep ==
  ASSUME TypeOK, Serialized, [Next]_vars
  PROVE  Serialized'
<1>a. TasksOK /\ GuardOK
  BY TypeParts
<1>1. CASE UNCHANGED <<tasks, guard>>
  BY <1>1 DEF Serialized, Works
<1>2. ASSUME NEW i \in Slots, NEW s \in Sessions, Begins(i, s)
      PROVE  Serialized'
  BY <1>2 DEF Serialized, Works, Begins, Moves
<1>3. ASSUME NEW i \in Slots, Stays(i)
      PROVE  Serialized'
  BY <1>3 DEF Serialized, Works, Stays, Moves, SameRequest
<1>4. ASSUME NEW i \in Slots, Stops(i)
      PROVE  Serialized'
  BY <1>4, IdleIsTask DEF Serialized, Works, Stops, Moves
<1>. QED
  BY <1>1, <1>2, <1>3, <1>4, Shapes

LEMMA SerializedInit == Init => Serialized
<1>. SUFFICES ASSUME Init PROVE Serialized
  OBVIOUS
<1>1. \A i \in Slots : tasks[i].stage = "idle"
  BY IdleIsTask DEF Init
<1>2. \A s \in Sessions : guard[s].inFlight = FALSE
  BY DEF Init
<1>. QED
  BY <1>1, <1>2 DEF Serialized, Works

\* Whatever connections the requests of a session arrive on, one handler works for
\* it at a time, and the flag says so.
THEOREM SerializedHolds == Spec => []Serialized
BY SerializedInit, SerializedStep, TypeCorrect, PTL DEF Spec
-----------------------------------------------------------------------------
(* Accounting *)

Accounts == Reserved /\ Counted /\ Unblocked /\ FreshRows /\ Paid

\* Nothing but handler i works for its session.
LEMMA Alone ==
  ASSUME TypeOK, Serialized, NEW i \in Slots, tasks[i].stage # "idle"
  PROVE  /\ tasks[i].sid \in Sessions /\ guard[tasks[i].sid].inFlight = TRUE
         /\ \A j \in Slots \ {i} : tasks[j].stage # "idle" => tasks[j].sid # tasks[i].sid
<1>1. tasks[i].sid \in Sessions
  BY TypeParts, WorkerKnows
<1>2. guard[tasks[i].sid].inFlight \in BOOLEAN
  BY <1>1, TypeParts DEF GuardOK
<1>. QED
  BY <1>1, <1>2 DEF Serialized, Works

LEMMA Numbers ==
  ASSUME TypeOK
  PROVE  /\ \A s \in Sessions : guard[s].count \in Nat /\ guard[s].lastAt \in Nat \cup {None}
         /\ \A s \in Sessions : guard[s].inFlight \in BOOLEAN
         /\ \A s \in Sessions : submitted[s] \in Nat /\ spent[s] \in Nat /\ total[s] \in Int
         /\ \A s \in Sessions : seen[s] \subseteq Requests
         /\ clock \in Nat /\ MaxRequests \in Nat /\ MaxCost \in Nat /\ Limit \in Nat
         /\ MinInterval \in Nat /\ RejectedCost \in Nat
         /\ \A i \in Slots : tasks[i].stage # "idle" => tasks[i].req \in Requests
                                                   /\ tasks[i].sid \in Sessions
                                                   /\ tasks[i].count \in Nat
                                                   /\ tasks[i].cost \in Nat /\ tasks[i].at \in Nat
BY TypeParts, WorkerKnows, SuggestionsAssumption DEF TypeOK, GuardOK

\* A session that is over stays over.
LEMMA MoveKeeps ==
  ASSUME TypeOK, TypeOK', Serialized, Accounts, NEW s \in Sessions, NEW p \in Phase, SessionMoves(s, p)
  PROVE  Accounts'
<1>. USE DEF Accounts, At, Recording
<1>f1. tasks' = tasks /\ guard' = guard /\ blocked' = blocked /\ row' = row /\ total' = total /\ seen' = seen
       /\ submitted' = submitted /\ spent' = spent /\ repeated' = repeated
  BY DEF SessionMoves, ledger, history
<1>f2. \A t \in Sessions : phase[t] = "deleted" => phase'[t] = "deleted"
  BY DEF SessionMoves, TypeOK
<1>1. Reserved'
  BY <1>f1, <1>f2, Numbers, IdleIsTask DEF Reserved, Moves, SameRequest
<1>2. Counted'
  BY <1>f1, <1>f2, Numbers, IdleIsTask DEF Counted, Moves, SameRequest
<1>3. Unblocked'
  BY <1>f1, <1>f2, Numbers, IdleIsTask DEF Unblocked, Moves, SameRequest
<1>4. FreshRows'
  BY <1>f1, <1>f2, Numbers, IdleIsTask DEF FreshRows, Moves, SameRequest
<1>5. Paid'
  BY <1>f1, <1>f2, Numbers, IdleIsTask DEF Paid, Moves, SameRequest
<1>. QED
  BY <1>1, <1>2, <1>3, <1>4, <1>5

LEMMA ClockKeeps ==
  ASSUME TypeOK, TypeOK', Serialized, Accounts, NEW t \in 0..MaxTime, ClockMoves(t)
  PROVE  Accounts'
<1>. USE DEF Accounts, At, Recording
<1>f1. tasks' = tasks /\ guard' = guard /\ blocked' = blocked /\ row' = row /\ total' = total /\ seen' = seen
       /\ submitted' = submitted /\ spent' = spent /\ repeated' = repeated /\ phase' = phase
  BY DEF ClockMoves, ledger, history
<1>1. Reserved'
  BY <1>f1, Numbers, IdleIsTask DEF Reserved, Moves, SameRequest
<1>2. Counted'
  BY <1>f1, Numbers, IdleIsTask DEF Counted, Moves, SameRequest
<1>3. Unblocked'
  BY <1>f1, Numbers, IdleIsTask DEF Unblocked, Moves, SameRequest
<1>4. FreshRows'
  BY <1>f1, Numbers, IdleIsTask DEF FreshRows, Moves, SameRequest
<1>5. Paid'
  BY <1>f1, Numbers, IdleIsTask DEF Paid, Moves, SameRequest
<1>. QED
  BY <1>1, <1>2, <1>3, <1>4, <1>5

\* Nobody works for the session, so what is read now will not change meanwhile.
LEMMA ReserveKeeps ==
  ASSUME TypeOK, TypeOK', Serialized, Accounts, NEW i \in Slots, NEW s \in Sessions, NEW r \in Requests, Reserve(i, s, r)
  PROVE  Accounts'
<1>. USE DEF Accounts, At, Recording
<1>f1. phase' = phase /\ blocked' = blocked /\ row' = row /\ total' = total /\ seen' = seen
       /\ submitted' = submitted /\ spent' = spent /\ repeated' = repeated
  BY DEF Reserve, ledger, history
<1>f2. /\ Moves(i) /\ tasks[i].stage = "idle"
       /\ tasks'[i].stage = "lookup" /\ tasks'[i].sid = s
       /\ tasks'[i].at = clock /\ tasks'[i].count = guard[s].count
       /\ \A t \in Sessions \ {s} : guard'[t] = guard[t]
       /\ guard'[s].count = guard[s].count /\ guard'[s].lastAt = guard[s].lastAt
       /\ guard'[s].inFlight = TRUE
  BY TypeParts, ReserveEffect, ZenonT(40)
<1>f3. /\ phase[s] = "active" /\ s \notin blocked /\ guard[s].inFlight = FALSE
       /\ guard[s].count < MaxRequests
       /\ guard[s].lastAt # None => clock - guard[s].lastAt >= MinInterval
  BY Numbers DEF Reserve, Admissible
<1>f4. \A j \in Slots : tasks[j].stage # "idle" => tasks[j].sid # s
  BY <1>f3, Alone
<1>1. Reserved'
  BY <1>f1, <1>f2, <1>f3, <1>f4, Numbers, IdleIsTask DEF Reserved, Moves, SameRequest
<1>2. Counted'
  BY <1>f1, <1>f2, <1>f3, <1>f4, Numbers, IdleIsTask DEF Counted, Moves, SameRequest
<1>3. Unblocked'
  BY <1>f1, <1>f2, <1>f3, <1>f4, Numbers, IdleIsTask DEF Unblocked, Moves, SameRequest
<1>4. FreshRows'
  BY <1>f1, <1>f2, <1>f3, <1>f4, Numbers, IdleIsTask DEF FreshRows, Moves, SameRequest
<1>5. Paid'
  BY <1>f1, <1>f2, <1>f3, <1>f4, Numbers, IdleIsTask DEF Paid, Moves, SameRequest
<1>. QED
  BY <1>1, <1>2, <1>3, <1>4, <1>5

LEMMA LookupFailsKeeps ==
  ASSUME TypeOK, TypeOK', Serialized, Accounts, NEW i \in Slots, LookupFails(i)
  PROVE  Accounts'
<1>. USE DEF Accounts, At, Recording
<1>f1. tasks[i].stage = "lookup" /\ Release(i)
  BY DEF LookupFails, At
<1>f2. phase' = phase /\ row' = row /\ total' = total /\ seen' = seen /\ submitted' = submitted
       /\ spent' = spent /\ repeated' = repeated
  BY DEF LookupFails, ledger, history
<1>f3. /\ tasks[i].sid \in Sessions /\ guard[tasks[i].sid].inFlight = TRUE
       /\ \A j \in Slots \ {i} : tasks[j].stage # "idle" => tasks[j].sid # tasks[i].sid
  BY <1>f1, Alone
<1>f4. /\ Moves(i) /\ tasks'[i].stage = "idle"
       /\ \A t \in Sessions \ {tasks[i].sid} : guard'[t] = guard[t]
       /\ guard'[tasks[i].sid].count = guard[tasks[i].sid].count
       /\ guard'[tasks[i].sid].lastAt = guard[tasks[i].sid].lastAt
       /\ guard'[tasks[i].sid].inFlight = FALSE
  BY <1>f1, TypeParts, ReleaseEffect
<1>f5. blocked' = blocked \cup {tasks[i].sid}
  BY DEF LookupFails
<1>1. Reserved'
  BY <1>f1, <1>f2, <1>f3, <1>f4, <1>f5, Numbers, IdleIsTask DEF Reserved, Moves, SameRequest
<1>2. Counted'
  BY <1>f1, <1>f2, <1>f3, <1>f4, <1>f5, Numbers, IdleIsTask DEF Counted, Moves, SameRequest
<1>3. Unblocked'
  BY <1>f1, <1>f2, <1>f3, <1>f4, <1>f5, Numbers, IdleIsTask DEF Unblocked, Moves, SameRequest
<1>4. FreshRows'
  BY <1>f1, <1>f2, <1>f3, <1>f4, <1>f5, Numbers, IdleIsTask DEF FreshRows, Moves, SameRequest
<1>5. Paid'
  BY <1>f1, <1>f2, <1>f3, <1>f4, <1>f5, Numbers, IdleIsTask DEF Paid, Moves, SameRequest
<1>. QED
  BY <1>1, <1>2, <1>3, <1>4, <1>5

LEMMA RejectKeeps ==
  ASSUME TypeOK, TypeOK', Serialized, Accounts, NEW i \in Slots, Reject(i)
  PROVE  Accounts'
<1>. USE DEF Accounts, At, Recording
<1>f1. tasks[i].stage = "lookup" /\ Release(i)
  BY DEF Reject, At
<1>f2. phase' = phase /\ row' = row /\ total' = total /\ seen' = seen /\ submitted' = submitted
       /\ spent' = spent /\ repeated' = repeated /\ blocked' = blocked
  BY DEF Reject, ledger, history
<1>f3. /\ tasks[i].sid \in Sessions /\ guard[tasks[i].sid].inFlight = TRUE
       /\ \A j \in Slots \ {i} : tasks[j].stage # "idle" => tasks[j].sid # tasks[i].sid
  BY <1>f1, Alone
<1>f4. /\ Moves(i) /\ tasks'[i].stage = "idle"
       /\ \A t \in Sessions \ {tasks[i].sid} : guard'[t] = guard[t]
       /\ guard'[tasks[i].sid].count = guard[tasks[i].sid].count
       /\ guard'[tasks[i].sid].lastAt = guard[tasks[i].sid].lastAt
       /\ guard'[tasks[i].sid].inFlight = FALSE
  BY <1>f1, TypeParts, ReleaseEffect
<1>1. Reserved'
  BY <1>f1, <1>f2, <1>f3, <1>f4, Numbers, IdleIsTask DEF Reserved, Moves, SameRequest
<1>2. Counted'
  BY <1>f1, <1>f2, <1>f3, <1>f4, Numbers, IdleIsTask DEF Counted, Moves, SameRequest
<1>3. Unblocked'
  BY <1>f1, <1>f2, <1>f3, <1>f4, Numbers, IdleIsTask DEF Unblocked, Moves, SameRequest
<1>4. FreshRows'
  BY <1>f1, <1>f2, <1>f3, <1>f4, Numbers, IdleIsTask DEF FreshRows, Moves, SameRequest
<1>5. Paid'
  BY <1>f1, <1>f2, <1>f3, <1>f4, Numbers, IdleIsTask DEF Paid, Moves, SameRequest
<1>. QED
  BY <1>1, <1>2, <1>3, <1>4, <1>5

LEMMA PersistedKeeps ==
  ASSUME TypeOK, TypeOK', Serialized, Accounts, NEW i \in Slots, Persisted(i)
  PROVE  Accounts'
<1>. USE DEF Accounts, At, Recording
<1>f1. tasks[i].stage = "persist" /\ Release(i)
  BY DEF Persisted, At
<1>f2. phase' = phase /\ row' = row /\ total' = total /\ seen' = seen /\ submitted' = submitted
       /\ spent' = spent /\ repeated' = repeated /\ blocked' = blocked
  BY DEF Persisted, ledger, history
<1>f3. /\ tasks[i].sid \in Sessions /\ guard[tasks[i].sid].inFlight = TRUE
       /\ \A j \in Slots \ {i} : tasks[j].stage # "idle" => tasks[j].sid # tasks[i].sid
  BY <1>f1, Alone
<1>f4. /\ Moves(i) /\ tasks'[i].stage = "idle"
       /\ \A t \in Sessions \ {tasks[i].sid} : guard'[t] = guard[t]
       /\ guard'[tasks[i].sid].count = guard[tasks[i].sid].count
       /\ guard'[tasks[i].sid].lastAt = guard[tasks[i].sid].lastAt
       /\ guard'[tasks[i].sid].inFlight = FALSE
  BY <1>f1, TypeParts, ReleaseEffect
<1>1. Reserved'
  BY <1>f1, <1>f2, <1>f3, <1>f4, Numbers, IdleIsTask DEF Reserved, Moves, SameRequest
<1>2. Counted'
  BY <1>f1, <1>f2, <1>f3, <1>f4, Numbers, IdleIsTask DEF Counted, Moves, SameRequest
<1>3. Unblocked'
  BY <1>f1, <1>f2, <1>f3, <1>f4, Numbers, IdleIsTask DEF Unblocked, Moves, SameRequest
<1>4. FreshRows'
  BY <1>f1, <1>f2, <1>f3, <1>f4, Numbers, IdleIsTask DEF FreshRows, Moves, SameRequest
<1>5. Paid'
  BY <1>f1, <1>f2, <1>f3, <1>f4, Numbers, IdleIsTask DEF Paid, Moves, SameRequest
<1>. QED
  BY <1>1, <1>2, <1>3, <1>4, <1>5

\* The attempt is counted with the count that was read, which is still the count.
LEMMA CountKeeps ==
  ASSUME TypeOK, TypeOK', Serialized, Accounts, NEW i \in Slots, Count(i)
  PROVE  Accounts'
<1>. USE DEF Accounts, At, Recording
<1>f1. tasks[i].stage = "lookup" /\ Goes(i, "retrieve") /\ WithinBudget(tasks[i].sid)
  BY DEF Count, At
<1>f2. phase' = phase /\ blocked' = blocked /\ row' = row /\ total' = total /\ submitted' = submitted /\ spent' = spent
  BY DEF Count, ledger
<1>f3. /\ tasks[i].sid \in Sessions /\ guard[tasks[i].sid].inFlight = TRUE
       /\ \A j \in Slots \ {i} : tasks[j].stage # "idle" => tasks[j].sid # tasks[i].sid
  BY <1>f1, Alone
<1>f4. Moves(i) /\ SameRequest(i) /\ tasks'[i].stage = "retrieve"
  BY <1>f1, TypeParts, GoesEffect DEF Stage
<1>f5. guard'[tasks[i].sid] = [lastAt |-> tasks[i].at, count |-> tasks[i].count + 1, inFlight |-> TRUE]
       /\ \A t \in Sessions \ {tasks[i].sid} : guard'[t] = guard[t]
  BY TypeParts, CountEffect
<1>f6. guard'[tasks[i].sid].count = tasks[i].count + 1 /\ guard'[tasks[i].sid].inFlight = TRUE
  BY <1>f5
<1>f7. /\ tasks[i].req \in seen'[tasks[i].sid]
       /\ \A t \in Sessions : seen[t] \subseteq seen'[t]
       /\ repeated' = repeated \/ repeated' = repeated \cup {tasks[i].sid}
       /\ tasks[i].sid \notin repeated' => tasks[i].req \notin seen[tasks[i].sid] /\ repeated' = repeated
  BY <1>f3 DEF Count, TypeOK
<1>1. Reserved'
  BY <1>f1, <1>f2, <1>f3, <1>f4, <1>f5, <1>f6, <1>f7, Numbers, IdleIsTask DEF Reserved, Moves, SameRequest
<1>2. Counted'
  BY <1>f1, <1>f2, <1>f3, <1>f4, <1>f5, <1>f6, <1>f7, Numbers, IdleIsTask DEF Counted, Reserved, Moves, SameRequest
<1>3. Unblocked'
  BY <1>f1, <1>f2, <1>f3, <1>f4, <1>f5, <1>f6, <1>f7, Numbers, IdleIsTask DEF Unblocked, Moves, SameRequest
<1>4. FreshRows'
  BY <1>f1, <1>f2, <1>f3, <1>f4, <1>f5, <1>f6, <1>f7, Numbers, IdleIsTask DEF FreshRows, Moves, SameRequest
<1>5. Paid'
  BY <1>f1, <1>f2, <1>f3, <1>f4, <1>f5, <1>f6, <1>f7, Numbers, IdleIsTask DEF Paid, WithinBudget, Moves, SameRequest
<1>. QED
  BY <1>1, <1>2, <1>3, <1>4, <1>5

LEMMA SubmitKeeps ==
  ASSUME TypeOK, TypeOK', Serialized, Accounts, NEW i \in Slots, Submit(i)
  PROVE  Accounts'
<1>. USE DEF Accounts, At, Recording
<1>f1. tasks[i].stage = "retrieve" /\ Goes(i, "stream")
  BY DEF Submit, At
<1>f2. phase' = phase /\ guard' = guard /\ blocked' = blocked /\ row' = row /\ total' = total /\ seen' = seen /\ spent' = spent
       /\ repeated' = repeated
  BY DEF Submit, ledger
<1>f3. /\ tasks[i].sid \in Sessions /\ guard[tasks[i].sid].inFlight = TRUE
       /\ \A j \in Slots \ {i} : tasks[j].stage # "idle" => tasks[j].sid # tasks[i].sid
  BY <1>f1, Alone
<1>f4. Moves(i) /\ SameRequest(i) /\ tasks'[i].stage = "stream"
  BY <1>f1, TypeParts, GoesEffect DEF Stage
<1>f5. submitted'[tasks[i].sid] = submitted[tasks[i].sid] + 1
       /\ \A t \in Sessions \ {tasks[i].sid} : submitted'[t] = submitted[t]
  BY <1>f3 DEF Submit, TypeOK
<1>1. Reserved'
  BY <1>f1, <1>f2, <1>f3, <1>f4, <1>f5, Numbers, IdleIsTask DEF Reserved, Moves, SameRequest
<1>2. Counted'
  BY <1>f1, <1>f2, <1>f3, <1>f4, <1>f5, Numbers, IdleIsTask DEF Counted, Moves, SameRequest
<1>3. Unblocked'
  BY <1>f1, <1>f2, <1>f3, <1>f4, <1>f5, Numbers, IdleIsTask DEF Unblocked, Moves, SameRequest
<1>4. FreshRows'
  BY <1>f1, <1>f2, <1>f3, <1>f4, <1>f5, Numbers, IdleIsTask DEF FreshRows, Moves, SameRequest
<1>5. Paid'
  BY <1>f1, <1>f2, <1>f3, <1>f4, <1>f5, Numbers, IdleIsTask DEF Paid, Moves, SameRequest
<1>. QED
  BY <1>1, <1>2, <1>3, <1>4, <1>5

LEMMA TooLargeKeeps ==
  ASSUME TypeOK, TypeOK', Serialized, Accounts, NEW i \in Slots, TooLarge(i)
  PROVE  Accounts'
<1>. USE DEF Accounts, At, Recording
<1>f1. tasks[i].stage = "retrieve" /\ Record(i, "failed", RejectedCost)
  BY DEF TooLarge, At
<1>f2. phase' = phase /\ blocked' = blocked /\ row' = row /\ total' = total /\ seen' = seen
       /\ submitted' = submitted /\ spent' = spent /\ repeated' = repeated
  BY DEF TooLarge, ledger, history
<1>f3. /\ tasks[i].sid \in Sessions /\ guard[tasks[i].sid].inFlight = TRUE
       /\ \A j \in Slots \ {i} : tasks[j].stage # "idle" => tasks[j].sid # tasks[i].sid
  BY <1>f1, Alone
<1>f4. \/ /\ phase[tasks[i].sid] = "deleted"
          /\ Moves(i) /\ tasks'[i].stage = "idle"
          /\ \A t \in Sessions \ {tasks[i].sid} : guard'[t] = guard[t]
          /\ guard'[tasks[i].sid].count = guard[tasks[i].sid].count
          /\ guard'[tasks[i].sid].lastAt = guard[tasks[i].sid].lastAt
          /\ guard'[tasks[i].sid].inFlight = FALSE
       \/ /\ Moves(i) /\ SameRequest(i) /\ guard' = guard
          /\ tasks'[i].stage \in {"complete", "failed"} /\ tasks'[i].cost = RejectedCost
  BY <1>f1, TypeParts, RecordEffect, ReleaseEffect, Numbers
<1>1. Reserved'
  BY <1>f1, <1>f2, <1>f3, <1>f4, Numbers, IdleIsTask DEF Reserved, Moves, SameRequest
<1>2. Counted'
  BY <1>f1, <1>f2, <1>f3, <1>f4, Numbers, IdleIsTask DEF Counted, Moves, SameRequest
<1>3. Unblocked'
  BY <1>f1, <1>f2, <1>f3, <1>f4, Numbers, IdleIsTask DEF Unblocked, Moves, SameRequest
<1>4. FreshRows'
  BY <1>f1, <1>f2, <1>f3, <1>f4, Numbers, IdleIsTask DEF FreshRows, Moves, SameRequest
<1>5. Paid'
  BY <1>f1, <1>f2, <1>f3, <1>f4, Numbers, IdleIsTask DEF Paid, Moves, SameRequest
<1>. QED
  BY <1>1, <1>2, <1>3, <1>4, <1>5

\* The room for the worst case was kept since the request was counted.
LEMMA StreamEndsKeeps ==
  ASSUME TypeOK, TypeOK', Serialized, Accounts, NEW i \in Slots, NEW st \in {"complete", "failed"}, NEW c \in 0..MaxCost,
         StreamEnds(i, st, c)
  PROVE  Accounts'
<1>. USE DEF Accounts, At, Recording
<1>f1. tasks[i].stage = "stream" /\ Record(i, st, c) /\ c \in Nat /\ c <= MaxCost
  BY Numbers DEF StreamEnds, At
<1>f2. phase' = phase /\ blocked' = blocked /\ row' = row /\ total' = total /\ seen' = seen
       /\ submitted' = submitted /\ repeated' = repeated
  BY DEF StreamEnds, ledger
<1>f3. /\ tasks[i].sid \in Sessions /\ guard[tasks[i].sid].inFlight = TRUE
       /\ \A j \in Slots \ {i} : tasks[j].stage # "idle" => tasks[j].sid # tasks[i].sid
  BY <1>f1, Alone
<1>f4. \/ /\ phase[tasks[i].sid] = "deleted"
          /\ Moves(i) /\ tasks'[i].stage = "idle"
          /\ \A t \in Sessions \ {tasks[i].sid} : guard'[t] = guard[t]
          /\ guard'[tasks[i].sid].count = guard[tasks[i].sid].count
          /\ guard'[tasks[i].sid].lastAt = guard[tasks[i].sid].lastAt
          /\ guard'[tasks[i].sid].inFlight = FALSE
       \/ /\ Moves(i) /\ SameRequest(i) /\ guard' = guard
          /\ tasks'[i].stage \in {"complete", "failed"} /\ tasks'[i].cost = c
  BY <1>f1, TypeParts, RecordEffect, ReleaseEffect
<1>f5. spent'[tasks[i].sid] = spent[tasks[i].sid] + c
       /\ \A t \in Sessions \ {tasks[i].sid} : spent'[t] = spent[t]
  BY <1>f3 DEF StreamEnds, TypeOK
<1>1. Reserved'
  BY <1>f1, <1>f2, <1>f3, <1>f4, <1>f5, Numbers, IdleIsTask DEF Reserved, Moves, SameRequest
<1>2. Counted'
  BY <1>f1, <1>f2, <1>f3, <1>f4, <1>f5, Numbers, IdleIsTask DEF Counted, Moves, SameRequest
<1>3. Unblocked'
  BY <1>f1, <1>f2, <1>f3, <1>f4, <1>f5, Numbers, IdleIsTask DEF Unblocked, Moves, SameRequest
<1>4. FreshRows'
  BY <1>f1, <1>f2, <1>f3, <1>f4, <1>f5, Numbers, IdleIsTask DEF FreshRows, Moves, SameRequest
<1>5. Paid'
  BY <1>f1, <1>f2, <1>f3, <1>f4, <1>f5, Numbers, IdleIsTask DEF Paid, Moves, SameRequest
<1>. QED
  BY <1>1, <1>2, <1>3, <1>4, <1>5

\* The request had no row, so its cost is added to the total.
LEMMA RecordedKeeps ==
  ASSUME TypeOK, TypeOK', Serialized, Accounts, NEW i \in Slots, Recorded(i)
  PROVE  Accounts'
<1>. USE DEF Accounts, At, Recording
<1>f1. tasks[i].stage \in {"complete", "failed"} /\ Upsert(tasks[i].sid, tasks[i].req, tasks[i].cost)
  BY DEF Recorded, At, Recording
<1>f2. phase' = phase /\ blocked' = blocked /\ seen' = seen /\ submitted' = submitted /\ spent' = spent /\ repeated' = repeated
  BY DEF Recorded, history
<1>f3. /\ tasks[i].sid \in Sessions /\ guard[tasks[i].sid].inFlight = TRUE
       /\ \A j \in Slots \ {i} : tasks[j].stage # "idle" => tasks[j].sid # tasks[i].sid
  BY <1>f1, Alone
<1>f4. Release(i) \/ (Goes(i, "persist") /\ guard' = guard)
  BY DEF Recorded
<1>f5. \/ /\ Moves(i) /\ tasks'[i].stage = "idle"
          /\ \A t \in Sessions \ {tasks[i].sid} : guard'[t] = guard[t]
          /\ guard'[tasks[i].sid].count = guard[tasks[i].sid].count
          /\ guard'[tasks[i].sid].lastAt = guard[tasks[i].sid].lastAt
          /\ guard'[tasks[i].sid].inFlight = FALSE
       \/ /\ Moves(i) /\ SameRequest(i) /\ guard' = guard
          /\ tasks'[i].stage = "persist"
  BY <1>f1, <1>f4, TypeParts, GoesEffect, ReleaseEffect DEF Stage
<1>f6. /\ \A t \in Sessions \ {tasks[i].sid} : row'[t] = row[t] /\ total'[t] = total[t]
       /\ \A q \in Requests \ {tasks[i].req} : row'[tasks[i].sid][q] = row[tasks[i].sid][q]
       /\ total'[tasks[i].sid] = total[tasks[i].sid] - row[tasks[i].sid][tasks[i].req] + tasks[i].cost
  BY <1>f1, <1>f3, TypeParts, UpsertEffect, Numbers
<1>f7. tasks[i].req \in Requests /\ tasks[i].cost \in Nat /\ row[tasks[i].sid][tasks[i].req] \in Nat
  BY <1>f1, <1>f3, Numbers, TypeParts DEF LedgerOK
<1>1. Reserved'
  BY <1>f1, <1>f3, <1>f5, Numbers, IdleIsTask DEF Reserved, Moves, SameRequest
<1>2. Counted'
  BY <1>f1, <1>f2, <1>f3, <1>f4, <1>f5, <1>f6, <1>f7, Numbers, IdleIsTask DEF Counted, Moves, SameRequest
<1>3. Unblocked'
  BY <1>f1, <1>f2, <1>f3, <1>f4, <1>f5, <1>f6, <1>f7, Numbers, IdleIsTask DEF Unblocked, Moves, SameRequest
<1>4. FreshRows'
  BY <1>f1, <1>f2, <1>f3, <1>f4, <1>f5, <1>f6, <1>f7, Numbers, IdleIsTask DEF FreshRows, Moves, SameRequest
<1>5. Paid'
  BY <1>f1, <1>f2, <1>f3, <1>f4, <1>f5, <1>f6, <1>f7, Numbers, IdleIsTask DEF Paid, FreshRows, Moves, SameRequest
<1>. QED
  BY <1>1, <1>2, <1>3, <1>4, <1>5

LEMMA RecordFailsKeeps ==
  ASSUME TypeOK, TypeOK', Serialized, Accounts, NEW i \in Slots, RecordFails(i)
  PROVE  Accounts'
<1>. USE DEF Accounts, At, Recording
<1>f1. tasks[i].stage \in {"complete", "failed"} /\ Release(i)
  BY DEF RecordFails, At, Recording
<1>f2. phase' = phase /\ seen' = seen /\ submitted' = submitted /\ spent' = spent /\ repeated' = repeated
       /\ blocked' = blocked \cup {tasks[i].sid}
  BY DEF RecordFails, history
<1>f3. /\ tasks[i].sid \in Sessions /\ guard[tasks[i].sid].inFlight = TRUE
       /\ \A j \in Slots \ {i} : tasks[j].stage # "idle" => tasks[j].sid # tasks[i].sid
  BY <1>f1, Alone
<1>f4. /\ Moves(i) /\ tasks'[i].stage = "idle"
       /\ \A t \in Sessions \ {tasks[i].sid} : guard'[t] = guard[t]
       /\ guard'[tasks[i].sid].count = guard[tasks[i].sid].count
       /\ guard'[tasks[i].sid].lastAt = guard[tasks[i].sid].lastAt
       /\ guard'[tasks[i].sid].inFlight = FALSE
  BY <1>f1, TypeParts, ReleaseEffect
<1>f5. tasks[i].req \in Requests /\ tasks[i].cost \in Nat
  BY <1>f1, Numbers
<1>f6. Upsert(tasks[i].sid, tasks[i].req, tasks[i].cost) \/ (row' = row /\ total' = total)
  BY DEF RecordFails, ledger
<1>f7. /\ \A t \in Sessions \ {tasks[i].sid} : row'[t] = row[t] /\ total'[t] = total[t]
       /\ \A q \in Requests \ {tasks[i].req} : row'[tasks[i].sid][q] = row[tasks[i].sid][q]
  BY <1>f3, <1>f5, <1>f6, TypeParts, UpsertEffect
<1>1. Reserved'
  BY <1>f1, <1>f2, <1>f3, <1>f4, <1>f5, <1>f6, <1>f7, Numbers, IdleIsTask DEF Reserved, Moves, SameRequest
<1>2. Counted'
  BY <1>f1, <1>f2, <1>f3, <1>f4, <1>f5, <1>f6, <1>f7, Numbers, IdleIsTask DEF Counted, Moves, SameRequest
<1>3. Unblocked'
  BY <1>f1, <1>f2, <1>f3, <1>f4, <1>f5, <1>f6, <1>f7, Numbers, IdleIsTask DEF Unblocked, Moves, SameRequest
<1>4. FreshRows'
  BY <1>f1, <1>f2, <1>f3, <1>f4, <1>f5, <1>f6, <1>f7, Numbers, IdleIsTask DEF FreshRows, Moves, SameRequest
<1>5. Paid'
  BY <1>f1, <1>f2, <1>f3, <1>f4, <1>f5, <1>f6, <1>f7, Numbers, IdleIsTask DEF Paid, Moves, SameRequest
<1>. QED
  BY <1>1, <1>2, <1>3, <1>4, <1>5

-----------------------------------------------------------------------------
(* The properties *)

LEMMA AccountsInit == Init => Accounts
<1>. SUFFICES ASSUME Init PROVE Accounts
  OBVIOUS
<1>1. \A i \in Slots : tasks[i].stage = "idle"
  BY IdleIsTask DEF Init
<1>2. \A s \in Sessions : guard[s].count = 0 /\ submitted[s] = 0 /\ spent[s] = 0 /\ total[s] = 0
  BY DEF Init
<1>3. \A s \in Sessions, r \in Requests : row[s][r] = 0
  BY DEF Init
<1>4. MaxRequests \in Nat /\ Limit \in Nat
  BY SuggestionsAssumption
<1>. QED
  BY <1>1, <1>2, <1>3, <1>4
  DEF Accounts, Reserved, Counted, Unblocked, FreshRows, Paid, At, Recording

LEMMA AccountsStep ==
  ASSUME TypeOK, TypeOK', Serialized, Accounts, [Next]_vars
  PROVE  Accounts'
<1>1. CASE UNCHANGED vars
  BY <1>1 DEF vars, ledger, history, Accounts, Reserved, Counted, Unblocked, FreshRows, Paid, At,
              Recording
<1>2. ASSUME NEW i \in Slots, Continuation(i)
      PROVE  Accounts'
  BY <1>2, LookupFailsKeeps, RejectKeeps, CountKeeps, SubmitKeeps, TooLargeKeeps, StreamEndsKeeps,
     RecordedKeeps, RecordFailsKeeps, PersistedKeeps DEF Continuation
<1>. QED
  BY <1>1, <1>2, MoveKeeps, ClockKeeps, ReserveKeeps DEF Next

\* The bookkeeping that the properties rest on is inductive.
THEOREM AccountsHold == Spec => [](TypeOK /\ Serialized /\ Accounts)
<1>1. Init => TypeOK /\ Serialized /\ Accounts
  BY TypeInit, SerializedInit, AccountsInit
<1>2. TypeOK /\ Serialized /\ Accounts /\ [Next]_vars => (TypeOK /\ Serialized /\ Accounts)'
  BY TypeStep, SerializedStep, AccountsStep
<1>. QED
  BY <1>1, <1>2, PTL DEF Spec

\* The provider is called at most MaxRequests times for a session, whatever fails.
THEOREM RequestCapHolds == Spec => []RequestCap
<1>1. TypeOK /\ Accounts => RequestCap
  <2>. SUFFICES ASSUME TypeOK, Accounts, NEW s \in Sessions PROVE submitted[s] <= MaxRequests
    BY DEF RequestCap
  <2>1. submitted[s] <= guard[s].count /\ guard[s].count <= MaxRequests
    BY DEF Accounts, Counted, Reserved
  <2>. QED
    BY <2>1, Numbers
<1>. QED
  BY <1>1, AccountsHold, PTL

\* What was paid for a session whose request identifiers are new each time stays
\* within the limit, for every limit and every worst case.
THEOREM BudgetHoldsAlways == Spec => []BudgetHolds
<1>1. Accounts => BudgetHolds
  BY DEF Accounts, Paid, BudgetHolds
<1>. QED
  BY <1>1, AccountsHold, PTL

\* A session whose rows are short of what was paid is blocked or gone.
THEOREM ShortfallBlocksHolds == Spec => []ShortfallBlocks
<1>1. TypeOK /\ Accounts => ShortfallBlocks
  <2>. SUFFICES ASSUME TypeOK, Accounts, NEW s \in Sessions \ repeated,
                       spent[s] > total[s], ~guard[s].inFlight
                PROVE  s \in blocked \/ phase[s] = "deleted"
    BY DEF ShortfallBlocks
  <2>. QED
    BY Numbers DEF Accounts, Paid
<1>. QED
  BY <1>1, AccountsHold, PTL

\* No step starts provider work for a session whose accounting failed, and none
\* takes the block back.
THEOREM FailsClosedHolds == Spec => FailsClosed
<1>1. ASSUME TypeOK, Accounts, [Next]_vars, NEW s \in blocked
      PROVE  s \in blocked' /\ submitted'[s] = submitted[s]
  <2>1. ASSUME NEW i \in Slots, Submit(i)
        PROVE  s \in blocked' /\ submitted'[s] = submitted[s]
    <3>1. tasks[i].sid # s
      BY <1>1, <2>1 DEF Accounts, Unblocked, Submit, At
    <3>. QED
      BY <1>1, <2>1, <3>1 DEF Submit, TypeOK
  <2>2. ASSUME NEW i \in Slots, Continuation(i), ~Submit(i)
        PROVE  s \in blocked' /\ submitted'[s] = submitted[s]
    BY <1>1, <2>2 DEF Continuation, LookupFails, Reject, Count, TooLarge, StreamEnds, Recorded,
                      RecordFails, Persisted, history
  <2>. QED
    BY <1>1, <2>1, <2>2
    DEF Next, vars, SessionMoves, ClockMoves, Reserve, history
<1>2. TypeOK /\ Serialized /\ Accounts /\ [Next]_vars =>
        [\A s \in blocked : s \in blocked' /\ submitted'[s] = submitted[s]]_vars
  BY <1>1
<1>. QED
  BY <1>2, AccountsHold, PTL DEF FailsClosed, Spec

\* A step changes who is counted only by the request that was admitted, MinInterval
\* after the one before.
THEOREM DebouncedHolds == Spec => Debounced
<1>1. ASSUME TypeOK, Accounts, [Next]_vars, NEW s \in Sessions, guard'[s].count # guard[s].count
      PROVE  /\ guard'[s].count = guard[s].count + 1
             /\ guard[s].lastAt # None => guard'[s].lastAt >= guard[s].lastAt + MinInterval
  <2>. DEFINE Goal == /\ guard'[s].count = guard[s].count + 1
                      /\ guard[s].lastAt # None =>
                           guard'[s].lastAt >= guard[s].lastAt + MinInterval
  <2>1. ASSUME NEW i \in Slots, Count(i)
        PROVE  Goal
    <3>1. /\ guard'[tasks[i].sid] = [lastAt |-> tasks[i].at, count |-> tasks[i].count + 1,
                                    inFlight |-> TRUE]
          /\ \A t \in Sessions \ {tasks[i].sid} : guard'[t] = guard[t]
      BY <1>1, <2>1, TypeParts, CountEffect
    <3>2. s = tasks[i].sid
      BY <1>1, <3>1
    <3>3. guard'[s].count = tasks[i].count + 1 /\ guard'[s].lastAt = tasks[i].at
      BY <3>1, <3>2
    <3>. QED
      BY <1>1, <2>1, <3>2, <3>3 DEF Accounts, Reserved, Count, At
  <2>2. ASSUME NEW i \in Slots, tasks[i].stage # "idle", Release(i)
        PROVE  Goal
    BY <1>1, <2>2, TypeParts, ReleaseEffect
  <2>3. ASSUME NEW i \in Slots, Continuation(i), ~Count(i)
        PROVE  Goal
    BY <1>1, <2>2, <2>3 DEF Continuation, LookupFails, Reject, Submit, TooLarge, StreamEnds, Record,
                            Recorded, RecordFails, Persisted, At, Recording
  <2>4. ASSUME NEW i \in Slots, NEW t \in Sessions, NEW r \in Requests, Reserve(i, t, r)
        PROVE  Goal
    BY <1>1, <2>4, TypeParts, ReserveEffect
  <2>. QED
    BY <1>1, <2>1, <2>3, <2>4 DEF Next, vars, SessionMoves, ClockMoves
<1>2. TypeOK /\ Serialized /\ Accounts /\ [Next]_vars =>
        [\A s \in Sessions : guard'[s].count # guard[s].count =>
           /\ guard'[s].count = guard[s].count + 1
           /\ guard[s].lastAt # None => guard'[s].lastAt >= guard[s].lastAt + MinInterval]_vars
  BY <1>1
<1>. QED
  BY <1>2, AccountsHold, PTL DEF Debounced, Spec

-----------------------------------------------------------------------------
(* Refinement *)

\* The variables of SuggestionAdmission.
busyOf == {s \in Sessions : \E i \in Slots : Works(i, s) /\ ~At(i, "lookup")}
frozenOf == {s \in Sessions : s \in blocked \/ (phase[s] = "deleted" /\ ~guard[s].inFlight)}
startedOf == [s \in Sessions |-> guard[s].count]

\* A step that the admission does not see.
Unseen ==
  busyOf' = busyOf /\ frozenOf' = frozenOf /\ startedOf' = startedOf /\ spent' = spent
  /\ repeated' = repeated

\* Steps in the terms of SuggestionAdmission.
Starts(s) ==
  /\ s \notin busyOf /\ s \notin frozenOf /\ startedOf[s] < MaxRequests
  /\ s \in repeated' \/ spent[s] + MaxCost <= Limit
  /\ busyOf' = busyOf \cup {s}
  /\ startedOf' = [startedOf EXCEPT ![s] = @ + 1]
  /\ repeated' \in {repeated, repeated \cup {s}}
  /\ spent' = spent /\ frozenOf' = frozenOf

Settles(s) ==
  /\ s \in busyOf
  /\ \E c \in 0..MaxCost : spent' = [spent EXCEPT ![s] = @ + c]
  /\ s \in repeated \/ spent'[s] <= Limit
  /\ busyOf' \in {busyOf, busyOf \ {s}}
  /\ frozenOf' \in {frozenOf, frozenOf \cup {s}}
  /\ startedOf' = startedOf /\ repeated' = repeated

Freezes(s) ==
  /\ frozenOf' = frozenOf \cup {s}
  /\ busyOf' = busyOf /\ startedOf' = startedOf /\ spent' = spent /\ repeated' = repeated

LEMMA AdmissionStepMaps ==
  ASSUME Unseen \/ \E s \in Sessions : Starts(s) \/ Settles(s) \/ Freezes(s)
  PROVE  [Admission!Next]_(Admission!vars)
<1>1. ASSUME Unseen PROVE UNCHANGED Admission!vars
  BY <1>1 DEF Unseen, busyOf, frozenOf, startedOf, Admission!vars
<1>2. ASSUME NEW s \in Sessions, Starts(s) PROVE Admission!Start(s)
  BY <1>2 DEF Starts, busyOf, frozenOf, startedOf, Admission!Start
<1>3. ASSUME NEW s \in Sessions, Settles(s) PROVE Admission!Settle(s)
  BY <1>3 DEF Settles, busyOf, frozenOf, startedOf, Admission!Settle
<1>4. ASSUME NEW s \in Sessions, Freezes(s) PROVE Admission!Freeze(s)
  BY <1>4 DEF Freezes, busyOf, frozenOf, startedOf, Admission!Freeze
<1>. QED
  BY <1>1, <1>2, <1>3, <1>4 DEF Admission!Next

\* What handler i's step does to the two sets, when it keeps its session.
LEMMA StaysKeeps ==
  ASSUME TypeOK, Serialized, NEW i \in Slots, Stays(i), phase' = phase, blocked' = blocked,
         tasks[i].stage # "lookup", tasks'[i].stage # "lookup"
  PROVE  busyOf' = busyOf /\ frozenOf' = frozenOf /\ tasks[i].sid \in busyOf
<1>1. tasks[i].sid \in Sessions /\ guard[tasks[i].sid].inFlight = TRUE
  BY Alone DEF Stays
<1>2. busyOf' = busyOf /\ tasks[i].sid \in busyOf
  BY <1>1 DEF Stays, Moves, SameRequest, busyOf, Works, At
<1>3. \A t \in Sessions : guard'[t] = guard[t] \/ (t = tasks[i].sid /\ guard'[t].inFlight = TRUE)
  BY DEF Stays
<1>4. \A t \in Sessions : guard[t].inFlight = TRUE <=> guard'[t].inFlight = TRUE
  BY <1>1, <1>3
<1>. QED
  BY <1>1, <1>2, <1>3 DEF frozenOf

\* ... and when it is done.
LEMMA StopsFrees ==
  ASSUME TypeOK, Serialized, Accounts, NEW i \in Slots, Stops(i), phase' = phase,
         blocked' = blocked \/ blocked' = blocked \cup {tasks[i].sid}
  PROVE  /\ tasks[i].sid \in Sessions
         /\ busyOf' = busyOf \ {tasks[i].sid}
         /\ tasks[i].stage = "lookup" => tasks[i].sid \notin busyOf
         /\ tasks[i].stage # "lookup" => tasks[i].sid \in busyOf
         /\ frozenOf' \in {frozenOf, frozenOf \cup {tasks[i].sid}}
         /\ tasks[i].sid \notin frozenOf
<1>1. /\ tasks[i].sid \in Sessions /\ guard[tasks[i].sid].inFlight = TRUE
      /\ \A j \in Slots \ {i} : tasks[j].stage # "idle" => tasks[j].sid # tasks[i].sid
  BY Alone DEF Stops
<1>2. tasks'[i].stage = "idle" /\ \A j \in Slots \ {i} : tasks'[j] = tasks[j]
  BY IdleIsTask DEF Stops, Moves
<1>3. /\ busyOf' = busyOf \ {tasks[i].sid}
      /\ tasks[i].stage = "lookup" => tasks[i].sid \notin busyOf
      /\ tasks[i].stage # "lookup" => tasks[i].sid \in busyOf
  BY <1>1, <1>2 DEF Stops, busyOf, Works, At
<1>4. tasks[i].sid \notin blocked
  BY DEF Stops, Accounts, Unblocked, At
<1>5. tasks[i].sid \notin frozenOf
  BY <1>1, <1>4 DEF frozenOf
<1>6. \A t \in Sessions \ {tasks[i].sid} : t \in frozenOf' <=> t \in frozenOf
  BY <1>1 DEF Stops, frozenOf
<1>7. frozenOf' \in {frozenOf, frozenOf \cup {tasks[i].sid}}
  BY <1>1, <1>5, <1>6 DEF frozenOf
<1>. QED
  BY <1>1, <1>3, <1>5, <1>7

\* A handler that stops after provider work settles its request, at no further cost.
LEMMA StopSettles ==
  ASSUME TypeOK, Serialized, Accounts, NEW i \in Slots, Release(i),
         tasks[i].stage \notin {"idle", "lookup"}, phase' = phase,
         blocked' = blocked \/ blocked' = blocked \cup {tasks[i].sid},
         spent' = spent, repeated' = repeated
  PROVE  Settles(tasks[i].sid)
<1>. DEFINE s == tasks[i].sid
<1>1. Stops(i)
  BY TypeParts, ReleaseEffect DEF Stops
<1>2. /\ s \in Sessions /\ busyOf' = busyOf \ {s} /\ s \in busyOf
      /\ frozenOf' \in {frozenOf, frozenOf \cup {s}}
  BY <1>1, StopsFrees
<1>3. startedOf' = startedOf
  BY TypeParts, ReleaseEffect DEF startedOf
<1>4. 0 \in 0..MaxCost /\ spent[s] + 0 = spent[s] /\ spent \in [Sessions -> Nat]
  BY <1>2, Numbers DEF TypeOK
<1>5. spent' = [spent EXCEPT ![s] = @ + 0]
  BY <1>2, <1>4
<1>6. s \in repeated \/ spent'[s] <= Limit
  BY <1>2 DEF Accounts, Paid
<1>. QED
  BY <1>2, <1>3, <1>4, <1>5, <1>6 DEF Settles

LEMMA AdmissionStep ==
  ASSUME TypeOK, TypeOK', Serialized, Accounts, Accounts', [Next]_vars
  PROVE  [Admission!Next]_(Admission!vars)
<1>. DEFINE Seen == Unseen \/ \E s \in Sessions : Starts(s) \/ Settles(s) \/ Freezes(s)
<1>1. ASSUME UNCHANGED vars PROVE Seen
  BY <1>1 DEF vars, ledger, history, Unseen, busyOf, frozenOf, startedOf, Works, At
<1>2. ASSUME NEW t \in 0..MaxTime, ClockMoves(t) PROVE Seen
  BY <1>2 DEF ClockMoves, ledger, history, Unseen, busyOf, frozenOf, startedOf, Works, At
<1>3. ASSUME NEW s \in Sessions, NEW p \in Phase, SessionMoves(s, p) PROVE Seen
  <2>1. /\ UNCHANGED <<tasks, guard, blocked, spent, repeated>>
        /\ busyOf' = busyOf /\ startedOf' = startedOf
    BY <1>3 DEF SessionMoves, history, busyOf, startedOf, Works, At
  <2>2. /\ \A t \in Sessions \ {s} : phase'[t] = phase[t]
        /\ phase[s] # "deleted"
    BY <1>3 DEF SessionMoves, TypeOK
  <2>3. \A t \in Sessions \ {s} : t \in frozenOf' <=> t \in frozenOf
    BY <2>1, <2>2 DEF frozenOf
  <2>4. s \in frozenOf => s \in frozenOf'
    BY <2>1, <2>2 DEF frozenOf
  <2>5. frozenOf' = frozenOf \/ frozenOf' = frozenOf \cup {s}
    BY <2>3, <2>4 DEF frozenOf
  <2>. QED
    BY <2>1, <2>5 DEF Unseen, Freezes
<1>4. ASSUME NEW i \in Slots, NEW s \in Sessions, NEW r \in Requests, Reserve(i, s, r) PROVE Seen
  <2>1. UNCHANGED <<phase, blocked, spent, repeated>>
    BY <1>4 DEF Reserve, history
  <2>2. /\ Moves(i) /\ tasks[i].stage = "idle" /\ tasks'[i].stage = "lookup"
        /\ \A t \in Sessions \ {s} : guard'[t] = guard[t]
        /\ guard'[s].count = guard[s].count
    BY <1>4, TypeParts, ReserveEffect
  <2>3. phase[s] # "deleted"
    BY <1>4 DEF Reserve, Admissible
  <2>4. busyOf' = busyOf
    BY <2>2 DEF Moves, busyOf, Works, At
  <2>5. frozenOf' = frozenOf
    BY <2>1, <2>2, <2>3 DEF frozenOf
  <2>6. startedOf' = startedOf
    BY <2>2 DEF startedOf
  <2>. QED
    BY <2>1, <2>4, <2>5, <2>6 DEF Unseen
<1>5. ASSUME NEW i \in Slots, tasks[i].stage = "lookup", Release(i), phase' = phase,
             blocked' = blocked \/ blocked' = blocked \cup {tasks[i].sid},
             spent' = spent, repeated' = repeated
      PROVE  Seen
  <2>1. Stops(i)
    BY <1>5, TypeParts, ReleaseEffect DEF Stops
  <2>2. startedOf' = startedOf
    BY <1>5, TypeParts, ReleaseEffect DEF startedOf
  <2>3. /\ tasks[i].sid \in Sessions /\ busyOf' = busyOf
        /\ frozenOf' \in {frozenOf, frozenOf \cup {tasks[i].sid}}
    BY <1>5, <2>1, StopsFrees
  <2>. QED
    BY <1>5, <2>2, <2>3 DEF Unseen, Freezes
<1>6. ASSUME NEW i \in Slots, Release(i), tasks[i].stage \notin {"idle", "lookup"}, phase' = phase,
             blocked' = blocked \/ blocked' = blocked \cup {tasks[i].sid},
             spent' = spent, repeated' = repeated
      PROVE  Seen
  BY <1>6, StopSettles, Alone
<1>7. ASSUME NEW i \in Slots, Stays(i), phase' = phase, blocked' = blocked,
             tasks[i].stage # "lookup", tasks'[i].stage # "lookup", guard' = guard,
             spent' = spent, repeated' = repeated
      PROVE  Seen
  BY <1>7, StaysKeeps DEF Unseen, startedOf
<1>8. ASSUME NEW i \in Slots, Count(i) PROVE Seen
  <2>. DEFINE s == tasks[i].sid
  <2>1. tasks[i].stage = "lookup" /\ Goes(i, "retrieve") /\ WithinBudget(s)
    BY <1>8 DEF Count, At
  <2>2. UNCHANGED <<phase, blocked, spent>>
    BY <1>8 DEF Count
  <2>3. /\ s \in Sessions /\ guard[s].inFlight = TRUE
        /\ \A j \in Slots \ {i} : tasks[j].stage # "idle" => tasks[j].sid # s
    BY <2>1, Alone
  <2>4. Moves(i) /\ SameRequest(i) /\ tasks'[i].stage = "retrieve"
    BY <2>1, TypeParts, GoesEffect DEF Stage
  <2>5. /\ guard'[s] = [lastAt |-> tasks[i].at, count |-> tasks[i].count + 1, inFlight |-> TRUE]
        /\ \A t \in Sessions \ {s} : guard'[t] = guard[t]
    BY <1>8, TypeParts, CountEffect
  <2>6. guard'[s].count = tasks[i].count + 1 /\ guard'[s].inFlight = TRUE
    BY <2>5
  <2>7. tasks[i].count = guard[s].count /\ guard[s].count < MaxRequests
    BY <2>1 DEF Accounts, Reserved, At
  <2>8. s \notin blocked
    BY <2>1 DEF Accounts, Unblocked, At
  <2>9. s \notin frozenOf /\ frozenOf' = frozenOf
    BY <2>2, <2>3, <2>5, <2>6, <2>8 DEF frozenOf
  <2>10. s \notin busyOf /\ busyOf' = busyOf \cup {s}
    BY <2>1, <2>3, <2>4 DEF Moves, SameRequest, busyOf, Works, At
  <2>11. startedOf' = [startedOf EXCEPT ![s] = @ + 1]
    BY <2>3, <2>5, <2>6, <2>7 DEF startedOf
  <2>12. repeated' \in {repeated, repeated \cup {s}} /\ startedOf[s] < MaxRequests
    BY <1>8, <2>3, <2>7 DEF Count, startedOf
  <2>13. s \in repeated' \/ spent[s] + MaxCost <= Limit
    <3>1. s \notin repeated => spent[s] <= total[s]
      BY <2>1, <2>3 DEF Accounts, Paid, At
    <3>2. total[s] + MaxCost <= Limit
      BY <2>1 DEF WithinBudget
    <3>. QED
      BY <2>3, <2>12, <3>1, <3>2, Numbers
  <2>14. Starts(s)
    BY <2>2, <2>9, <2>10, <2>11, <2>12, <2>13 DEF Starts
  <2>. QED
    BY <2>3, <2>14
<1>9. ASSUME NEW i \in Slots, Submit(i) PROVE Seen
  <2>1. /\ tasks[i].stage = "retrieve" /\ Goes(i, "stream")
        /\ UNCHANGED <<phase, guard, blocked, spent, repeated>>
    BY <1>9 DEF Submit, At
  <2>2. Stays(i) /\ tasks'[i].stage = "stream"
    BY <2>1, TypeParts, GoesEffect DEF Stays, Stage
  <2>. QED
    BY <1>7, <2>1, <2>2
<1>10. ASSUME NEW i \in Slots, TooLarge(i) PROVE Seen
  <2>1. /\ tasks[i].stage = "retrieve" /\ Record(i, "failed", RejectedCost) /\ RejectedCost \in Nat
        /\ UNCHANGED <<phase, blocked, spent, repeated>>
    BY <1>10, Numbers DEF TooLarge, At, history
  <2>2. Release(i) \/ (Stays(i) /\ tasks'[i].stage = "failed" /\ guard' = guard)
    BY <2>1, TypeParts, RecordEffect DEF Stays
  <2>. QED
    BY <1>6, <1>7, <2>1, <2>2
<1>11. ASSUME NEW i \in Slots, NEW st \in {"complete", "failed"}, NEW c \in 0..MaxCost,
              StreamEnds(i, st, c)
       PROVE  Seen
  <2>. DEFINE s == tasks[i].sid
  <2>1. /\ tasks[i].stage = "stream" /\ Record(i, st, c) /\ c \in Nat
        /\ UNCHANGED <<phase, blocked, repeated>> /\ spent' = [spent EXCEPT ![s] = @ + c]
    BY <1>11, Numbers DEF StreamEnds, At
  <2>2. s \in Sessions
    BY <2>1, Alone
  <2>3. s \in repeated \/ spent'[s] <= Limit
    BY <2>1, <2>2 DEF Accounts, Paid
  <2>4. CASE Release(i)
    <3>1. Stops(i) /\ startedOf' = startedOf
      BY <2>1, <2>4, TypeParts, ReleaseEffect DEF Stops, startedOf
    <3>2. /\ busyOf' = busyOf \ {s} /\ s \in busyOf /\ frozenOf' \in {frozenOf, frozenOf \cup {s}}
      BY <2>1, <3>1, StopsFrees
    <3>. QED
      BY <2>1, <2>2, <2>3, <3>1, <3>2 DEF Settles
  <2>5. CASE Stays(i) /\ tasks'[i].stage = st /\ guard' = guard
    <3>1. busyOf' = busyOf /\ frozenOf' = frozenOf /\ s \in busyOf /\ startedOf' = startedOf
      BY <2>1, <2>5, StaysKeeps DEF startedOf
    <3>. QED
      BY <2>1, <2>2, <2>3, <3>1 DEF Settles
  <2>. QED
    BY <2>1, <2>4, <2>5, TypeParts, RecordEffect DEF Stays
<1>12. ASSUME NEW i \in Slots, Recorded(i) PROVE Seen
  <2>1. /\ tasks[i].stage \in {"complete", "failed"}
        /\ Release(i) \/ (Goes(i, "persist") /\ guard' = guard)
        /\ UNCHANGED <<phase, blocked, spent, repeated>>
    BY <1>12 DEF Recorded, Recording, At, history
  <2>2. Release(i) \/ (Stays(i) /\ tasks'[i].stage = "persist" /\ guard' = guard)
    BY <2>1, TypeParts, GoesEffect DEF Stays, Stage
  <2>. QED
    BY <1>6, <1>7, <2>1, <2>2
<1>13. ASSUME NEW i \in Slots, LookupFails(i) \/ Reject(i) PROVE Seen
  BY <1>5, <1>13 DEF LookupFails, Reject, At, history
<1>14. ASSUME NEW i \in Slots, RecordFails(i) \/ Persisted(i) PROVE Seen
  BY <1>6, <1>14 DEF RecordFails, Persisted, Recording, At, history
<1>15. Seen
  BY <1>1, <1>2, <1>3, <1>4, <1>8, <1>9, <1>10, <1>11, <1>12, <1>13, <1>14 DEF Next, Continuation
<1>. QED
  BY <1>15, AdmissionStepMaps

\* Everything the suggestion handlers do, on all connections and with every failure
\* of the ledger, is a behaviour of the atomic admission.
THEOREM ImplementsAdmission == Spec => AdmissionSpec
<1>1. Init => Admission!Init
  <2>. SUFFICES ASSUME Init PROVE Admission!Init
    OBVIOUS
  <2>1. \A i \in Slots : tasks[i].stage = "idle"
    BY IdleIsTask DEF Init
  <2>2. \A s \in Sessions : phase[s] = "unused" /\ guard[s].count = 0
    BY DEF Init
  <2>. QED
    BY <2>1, <2>2 DEF Init, Admission!Init, Works
<1>2. TypeOK /\ TypeOK' /\ Serialized /\ Accounts /\ Accounts' /\ [Next]_vars
        => [Admission!Next]_(Admission!vars)
  BY AdmissionStep
<1>. QED
  BY <1>1, <1>2, AccountsHold, PTL DEF Spec, AdmissionSpec, Admission!Spec
=============================================================================
