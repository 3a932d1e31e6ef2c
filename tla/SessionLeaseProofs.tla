------------------------ MODULE SessionLeaseProofs ------------------------
(* The lease is exclusive, for every set of connections and sessions. *)
EXTENDS SessionLease, TLAPS

TypeOK ==
  /\ phase \in [Sessions -> {"free", "live", "over"}]
  /\ holder \in [Sessions -> Connections \cup {None}]
  /\ principal \in [Sessions -> Principals \cup {None}]

IInv == TypeOK /\ Exclusive

LEMMA LeaseStep ==
  ASSUME IInv, [Next]_vars
  PROVE  IInv'
<1>. USE DEF IInv, TypeOK, Exclusive
<1>1. ASSUME NEW s \in Sessions, NEW c \in Connections, NEW p \in Principals, Open(s, c, p)
      PROVE  IInv'
  BY <1>1 DEF Open
<1>2. ASSUME NEW s \in Sessions, NEW t \in Sessions, NEW c \in Connections, TakeOver(s, t, c)
      PROVE  IInv'
  BY <1>2 DEF TakeOver
<1>3. ASSUME NEW s \in Sessions, Detach(s)
      PROVE  IInv'
  BY <1>3 DEF Detach
<1>4. ASSUME NEW s \in Sessions, Finish(s)
      PROVE  IInv'
  BY <1>4 DEF Finish
<1>5. CASE UNCHANGED vars
  BY <1>5 DEF vars
<1>. QED
  BY <1>1, <1>2, <1>3, <1>4, <1>5 DEF Next

\* A connection holds one session at most, and only a live one: what a client of
\* the realtime service may rely on for each of its sockets.
THEOREM LeaseIsExclusive == Spec => []Exclusive
<1>1. Init => IInv
  BY DEF Init, IInv, TypeOK, Exclusive
<1>2. IInv /\ [Next]_vars => IInv'
  BY LeaseStep
<1>3. IInv => Exclusive
  BY DEF IInv
<1>. QED
  BY <1>1, <1>2, <1>3, PTL DEF Spec
=============================================================================
