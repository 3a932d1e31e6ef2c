---------------------------- MODULE SessionLease ----------------------------
(***************************************************************************)
(* What the realtime service promises about attaching to meeting sessions, *)
(* without sockets, sequence numbers or waiting handlers: a session is     *)
(* held by one connection at a time, belongs to one principal for life,    *)
(* and is over once and for all.                                           *)
(***************************************************************************)
CONSTANTS Connections, Sessions, Principals, None

VARIABLES
  phase,      \* free until issued, then live, then over
  holder,     \* the connection attached to the session
  principal   \* the user and workspace it was opened for, while it is not over

vars == <<phase, holder, principal>>

Init ==
  /\ phase = [s \in Sessions |-> "free"]
  /\ holder = [s \in Sessions |-> None]
  /\ principal = [s \in Sessions |-> None]

Open(s, c, p) ==
  /\ phase[s] = "free"
  /\ \A t \in Sessions : holder[t] # c
  /\ phase' = [phase EXCEPT ![s] = "live"]
  /\ holder' = [holder EXCEPT ![s] = c]
  /\ principal' = [principal EXCEPT ![s] = p]

Detach(s) ==
  /\ holder' = [holder EXCEPT ![s] = None]
  /\ UNCHANGED <<phase, principal>>

\* A connection may take over a live session only from the strength of a
\* session it already holds for the same principal, which it gives up.
TakeOver(s, t, c) ==
  /\ phase[s] = "live"
  /\ holder[t] = c
  /\ principal[t] = principal[s]
  /\ phase' = [x \in Sessions |-> IF x = t /\ t # s THEN "over" ELSE phase[x]]
  /\ holder' = [x \in Sessions |->
                  IF x = s THEN c ELSE IF x = t THEN None ELSE holder[x]]
  /\ principal' = [x \in Sessions |-> IF x = t /\ t # s THEN None ELSE principal[x]]

Finish(s) ==
  /\ phase[s] = "live"
  /\ phase' = [phase EXCEPT ![s] = "over"]
  /\ holder' = [holder EXCEPT ![s] = None]
  /\ principal' = [principal EXCEPT ![s] = None]

Next ==
  \E s \in Sessions :
    \/ \E c \in Connections, p \in Principals : Open(s, c, p)
    \/ \E t \in Sessions, c \in Connections : TakeOver(s, t, c)
    \/ Detach(s)
    \/ Finish(s)

Spec == Init /\ [][Next]_vars

-----------------------------------------------------------------------------
\* A connection holds at most one session, and only a live one.
Exclusive ==
  /\ \A s, t \in Sessions : holder[s] # None /\ holder[s] = holder[t] => s = t
  /\ \A s \in Sessions : holder[s] # None => phase[s] = "live"
=============================================================================
