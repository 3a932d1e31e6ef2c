------------------------ MODULE SuggestionAdmission ------------------------
(***************************************************************************)
(* What the realtime service promises about live suggestions, without the  *)
(* waiting handlers: a session works on one request at a time, starts at   *)
(* most MaxRequests of them, and starts one only while its cost is known   *)
(* and leaves room for the worst case.                                     *)
(***************************************************************************)
EXTENDS Naturals

CONSTANTS Sessions, MaxRequests, MaxCost, Limit

VARIABLES
  busy,       \* sessions with a request that is worked on
  started,    \* how many requests of a session were started
  spent,      \* what the provider was paid for the session
  frozen,     \* sessions whose cost is no longer known
  lapsed      \* sessions whose client repeats request identifiers

vars == <<busy, started, spent, frozen, lapsed>>

Init ==
  /\ busy = {}
  /\ started = [s \in Sessions |-> 0]
  /\ spent = [s \in Sessions |-> 0]
  /\ frozen = {}
  /\ lapsed = {}

\* A request is started with room for the worst case, unless the client repeats an
\* identifier, after which nothing is promised about the cost of its session.
Start(s) ==
  /\ s \notin busy
  /\ s \notin frozen
  /\ started[s] < MaxRequests
  /\ s \in lapsed' \/ spent[s] + MaxCost <= Limit
  /\ busy' = busy \cup {s}
  /\ started' = [started EXCEPT ![s] = @ + 1]
  /\ lapsed' \in {lapsed, lapsed \cup {s}}
  /\ UNCHANGED <<spent, frozen>>

\* Work on the request costs at most the worst case; when it is over, its cost is
\* known or nothing is started any more.
Settle(s) ==
  /\ s \in busy
  /\ \E c \in 0..MaxCost : spent' = [spent EXCEPT ![s] = @ + c]
  /\ s \in lapsed \/ spent'[s] <= Limit
  /\ busy' \in {busy, busy \ {s}}
  /\ frozen' \in {frozen, frozen \cup {s}}
  /\ UNCHANGED <<started, lapsed>>

\* The session is over, or its cost cannot be read.
Freeze(s) ==
  /\ frozen' = frozen \cup {s}
  /\ UNCHANGED <<busy, started, spent, lapsed>>

Next == \E s \in Sessions : Start(s) \/ Settle(s) \/ Freeze(s)

Spec == Init /\ [][Next]_vars
=============================================================================
