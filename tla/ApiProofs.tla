------------------------------ MODULE ApiProofs ------------------------------
(***************************************************************************)
(* Proofs about the three parts of the API: Memberships, MeetingRecords    *)
(* and ApiServer.                                                          *)
(*                                                                         *)
(* Members: a mutation that has locked a row knows its role                *)
(* (LockedIsCurrent), and it locks the rows of all owners before it takes  *)
(* one away, so that an owner is left.                                     *)
(*                                                                         *)
(* Meetings: a row that a write is about to update is there, unless its    *)
(* meeting was removed (UpdatesItsRow), and once a meeting is settled, so  *)
(* that nothing will create it, it remains so (Final).                     *)
(*                                                                         *)
(* Server: a caller that was refused was promised the end of its window    *)
(* (PromiseCoversWindow), nothing waits in a server that has closed        *)
(* (ClosedIsQuiet), and the pools end after that (PoolsLast).              *)
(***************************************************************************)
EXTENDS Memberships, MeetingRecords, ApiServer, FiniteSetTheorems, TLAPS

-----------------------------------------------------------------------------
(* Members *)

\* A row has a role, and only a row.
RowsOK ==
  /\ rows \in [Users -> [role : Roles \cup {"none"}, by : 0..MaxMutations]]
  /\ \A u \in Users : rows[u].role = "none" => rows[u] = NoRow

MutationsOK == mutations \in Seq(Mutation) /\ Len(mutations) <= MaxMutations

\* Nothing happens in the workspace before its founder has signed in.
NothingBefore ==
  Founder \notin signedUp =>
    /\ \A u \in Users : rows[u] = NoRow /\ claims[u] = "none"
    /\ mutations = <<>>

\* A row that a transaction has locked is as it was read.
LockedIsCurrent == \A r \in 1..Len(mutations), u \in Users :
                     Locks(r, u) => rows[u].role = mutations[r].found[u]

\* What is still to be locked has not been read.
UnreadBeforeLocked ==
  \A r \in 1..Len(mutations) : Active(r) =>
    \A u \in mutations[r].toLock : mutations[r].found[u] = "none"

\* An audited mutation is over.
Finished == {r \in 1..Len(mutations) : mutations[r].step = "over"}

AuditsOK == audits \in Nat /\ audits <= Cardinality(Finished)

MembershipInv ==
  /\ RowsOK /\ MutationsOK /\ signedUp \subseteq Users
  /\ claims \in [Users -> Roles \cup {"none"}]
  /\ overlooked \in BOOLEAN
  /\ NothingBefore /\ LockedIsCurrent /\ UnreadBeforeLocked /\ AuditsOK /\ LastOwner

LEMMA OverIsMutation == Over \in Mutation /\ Over.step = "over"
BY MembershipAssumption DEF Over, Mutation, Users, NoRow, Row

LEMMA FinishedFinite ==
  ASSUME MutationsOK
  PROVE  /\ IsFiniteSet(Finished) /\ Cardinality(Finished) \in Nat
         /\ Cardinality(Finished) <= Len(mutations)
<1>. DEFINE n == Len(mutations)
<1>1. n \in Nat
  BY DEF MutationsOK
<1>2. IsFiniteSet(1..n) /\ Cardinality(1..n) = IF 1 > n THEN 0 ELSE n - 1 + 1
  <2>. HIDE DEF n
  <2>1. 1 \in Int /\ n \in Int
    BY <1>1
  <2>. QED
    BY <2>1, FS_Interval, Zenon
<1>3. Cardinality(1..n) = n
  BY <1>1, <1>2
<1>. QED
  BY <1>2, <1>3, FS_Subset, FS_CardinalityType DEF Finished

LEMMA MutationFields ==
  ASSUME MutationsOK, NEW r \in 1..Len(mutations)
  PROVE  /\ mutations[r] \in Mutation
         /\ mutations[r].actor \in Users /\ mutations[r].target \in Users
         /\ mutations[r].role \in Roles \cup {"none"}
<1>1. mutations[r] \in Mutation
  BY DEF MutationsOK
<1>. QED
  BY <1>1 DEF Mutation

\* Mutation r is over, and the others are as they were.
LEMMA OverEffect ==
  ASSUME MutationsOK, NEW r \in 1..MaxMutations, Active(r),
         mutations' = [mutations EXCEPT ![r] = Over]
  PROVE  /\ MutationsOK' /\ Len(mutations') = Len(mutations) /\ r \in 1..Len(mutations)
         /\ mutations'[r].step = "over"
         /\ \A k \in 1..Len(mutations) \ {r} : mutations'[k] = mutations[k]
         /\ IsFiniteSet(Finished') /\ Cardinality(Finished') = Cardinality(Finished) + 1
<1>1. r \in 1..Len(mutations) /\ mutations[r].step = "locking"
  BY DEF Active
<1>2. /\ MutationsOK' /\ Len(mutations') = Len(mutations)
      /\ mutations'[r] = Over
      /\ \A k \in 1..Len(mutations) \ {r} : mutations'[k] = mutations[k]
  BY <1>1, OverIsMutation DEF MutationsOK
<1>3. Finished' = Finished \cup {r} /\ r \notin Finished
  BY <1>1, <1>2, OverIsMutation DEF Finished
<1>. QED
  BY <1>1, <1>2, <1>3, OverIsMutation, FinishedFinite, FS_AddElement

\* The next row of a SELECT ... FOR UPDATE.
LEMMA LockEffect ==
  ASSUME MutationsOK, RowsOK, NEW r \in 1..MaxMutations, NEW u \in Users, LockRow(r, u)
  PROVE  /\ MutationsOK' /\ Len(mutations') = Len(mutations) /\ r \in 1..Len(mutations)
         /\ mutations'[r].step = mutations[r].step
         /\ \A k \in 1..Len(mutations) \ {r} : mutations'[k] = mutations[k]
         /\ mutations'[r].toLock = mutations[r].toLock \ {u}
         /\ \A v \in Users \ {u} : mutations'[r].found[v] = mutations[r].found[v]
         /\ mutations'[r].found[u] \in {mutations[r].found[u], rows[u].role}
         /\ Finished' = Finished
<1>1. r \in 1..Len(mutations) /\ mutations[r] \in Mutation
  BY DEF LockRow, Active, MutationsOK
<1>. DEFINE m == mutations[r]
            locked == [[m EXCEPT !.toLock = @ \ {u}] EXCEPT !.found[u] = rows[u].role]
            passed == [m EXCEPT !.toLock = @ \ {u}]
<1>2. rows[u].role \in Roles \cup {"none"}
  BY DEF RowsOK
<1>3. /\ locked \in Mutation /\ locked.step = m.step /\ locked.toLock = m.toLock \ {u}
      /\ locked.found[u] = rows[u].role
      /\ \A v \in Users \ {u} : locked.found[v] = m.found[v]
  BY <1>1, <1>2 DEF Mutation
<1>4. /\ passed \in Mutation /\ passed.step = m.step /\ passed.toLock = m.toLock \ {u}
      /\ passed.found = m.found
  BY <1>1 DEF Mutation
<1>5. \/ mutations' = [mutations EXCEPT ![r] = locked]
      \/ mutations' = [mutations EXCEPT ![r] = passed]
  BY DEF LockRow, Reread
<1>6. /\ MutationsOK' /\ Len(mutations') = Len(mutations)
      /\ mutations'[r] \in {locked, passed}
      /\ \A k \in 1..Len(mutations) \ {r} : mutations'[k] = mutations[k]
  <2>. HIDE DEF locked, passed
  <2>. QED
    BY <1>1, <1>3, <1>4, <1>5 DEF MutationsOK
<1>7. mutations'[r].step = m.step
  BY <1>3, <1>4, <1>6
<1>8. Finished' = Finished
  BY <1>6, <1>7 DEF Finished
<1>. QED
  BY <1>1, <1>3, <1>4, <1>6, <1>7, <1>8

\* What a mutation that commits has found of its actor, its target and another owner
\* is still so.
LEMMA FoundIsCurrent ==
  ASSUME LockedIsCurrent, NEW r, Active(r), mutations[r].toLock = {},
         NEW u \in Users, mutations[r].found[u] # "none"
  PROVE  rows[u].role = mutations[r].found[u]
BY DEF LockedIsCurrent, Locks, Active

LEMMA CommitStep ==
  ASSUME MembershipInv, NEW r \in 1..MaxMutations, Commits(r),
         NEW new \in [role : Roles \cup {"none"}, by : 0..MaxMutations],
         new.role = mutations[r].role, new.role = "none" => new = NoRow,
         rows' = [rows EXCEPT ![mutations[r].target] = new],
         audits' \in {audits, audits + 1}
  PROVE  MembershipInv'
<1>. DEFINE m == mutations[r]
            t == m.target
<1>1. /\ Active(r) /\ m.toLock = {} /\ Allowed(m) /\ ~LockedAgainst(r, t)
      /\ overlooked' = (overlooked \/ (rows[t] # NoRow /\ m.found[t] = "none"))
      /\ mutations' = [mutations EXCEPT ![r] = Over]
      /\ signedUp' = signedUp /\ claims' = claims
  BY DEF Commits
<1>2. /\ MutationsOK' /\ Len(mutations') = Len(mutations) /\ r \in 1..Len(mutations)
      /\ mutations'[r].step = "over"
      /\ \A k \in 1..Len(mutations) \ {r} : mutations'[k] = mutations[k]
      /\ Cardinality(Finished') = Cardinality(Finished) + 1
  BY <1>1, OverEffect DEF MembershipInv
<1>3. m \in Mutation /\ t \in Users
  BY <1>2, MutationFields DEF MembershipInv
<1>4. /\ rows'[t] = new
      /\ \A u \in Users \ {t} : rows'[u] = rows[u]
      /\ RowsOK'
  BY <1>3 DEF MembershipInv, RowsOK
<1>5. NothingBefore'
  BY <1>1, <1>2 DEF MembershipInv, NothingBefore, MutationsOK
<1>6. LockedIsCurrent'
  <2>. SUFFICES ASSUME NEW k \in 1..Len(mutations'), NEW u \in Users, Locks(k, u)'
                PROVE  rows'[u].role = mutations'[k].found[u]
    BY DEF LockedIsCurrent
  <2>1. k # r /\ k \in 1..Len(mutations) \ {r} /\ mutations'[k] = mutations[k]
    BY <1>2 DEF Locks, Active
  <2>2. Locks(k, u)
    BY <2>1 DEF Locks, Active
  <2>3. u # t
    BY <1>1, <2>1, <2>2 DEF LockedAgainst
  <2>. QED
    BY <1>4, <2>1, <2>2, <2>3 DEF MembershipInv, LockedIsCurrent
<1>a. UnreadBeforeLocked'
  BY <1>2 DEF MembershipInv, UnreadBeforeLocked, Active
<1>7. AuditsOK'
  BY <1>2, FinishedFinite DEF MembershipInv, AuditsOK
<1>8. LastOwner'
  <2>. SUFFICES ASSUME Founder \in signedUp, ~overlooked'
                PROVE  \E u \in Users : rows'[u].role = "owner"
    BY <1>1 DEF LastOwner, Owners
  <2>1. PICK o \in Users : rows[o].role = "owner"
    BY <1>1 DEF MembershipInv, LastOwner, Owners
  <2>2. CASE o # t
    BY <1>4, <2>1, <2>2
  <2>3. CASE new.role = "owner"
    BY <1>3, <1>4, <2>3
  <2>4. CASE o = t /\ new.role # "owner"
    <3>1. rows[t] # NoRow
      BY <2>1, <2>4 DEF NoRow, Row
    <3>2. m.found[t] = "owner"
      BY <1>1, <1>3, <2>1, <2>4, <3>1, FoundIsCurrent DEF MembershipInv
    <3>3. PICK u \in Users \ {t} : m.found[u] = "owner"
      BY <1>1, <2>4, <3>2 DEF Allowed
    <3>4. rows[u].role = "owner"
      BY <1>1, <3>3, FoundIsCurrent DEF MembershipInv
    <3>. QED
      BY <1>4, <3>3, <3>4
  <2>. QED
    BY <2>2, <2>3, <2>4
<1>. QED
  BY <1>1, <1>2, <1>4, <1>5, <1>6, <1>a, <1>7, <1>8 DEF MembershipInv

LEMMA MembershipStep ==
  ASSUME MembershipInv, [MembershipNext]_memberVars
  PROVE  MembershipInv'
<1>1. ASSUME NEW u \in Users, SignIn(u)
      PROVE  MembershipInv'
  <2>1. /\ mutations' = mutations /\ audits' = audits /\ overlooked' = overlooked
        /\ signedUp' = signedUp \cup {u}
        /\ claims' = [claims EXCEPT ![u] = rows'[u].role]
    BY <1>1 DEF SignIn
  <2>2. \/ rows' = rows /\ (u = Founder => u \in signedUp \/ rows[u] # NoRow)
        \/ /\ u = Founder /\ rows[u] = NoRow
           /\ rows' = [rows EXCEPT ![u] = Row("owner", 0)]
    BY <1>1 DEF SignIn
  <2>3. RowsOK'
    BY <2>2 DEF MembershipInv, RowsOK, Row, NoRow, Roles
  <2>4. claims' \in [Users -> Roles \cup {"none"}]
    BY <2>1, <2>3 DEF MembershipInv, RowsOK
  <2>5. NothingBefore'
    <3>. SUFFICES ASSUME Founder \notin signedUp'
                  PROVE  /\ \A v \in Users : rows'[v] = NoRow /\ claims'[v] = "none"
                         /\ mutations' = <<>>
      BY DEF NothingBefore
    <3>1. Founder \notin signedUp /\ u # Founder
      BY <2>1
    <3>2. rows' = rows
      BY <2>2, <3>1
    <3>. QED
      BY <2>1, <3>1, <3>2 DEF MembershipInv, NothingBefore, NoRow, Row
  <2>6. LockedIsCurrent'
    <3>. SUFFICES ASSUME NEW r \in 1..Len(mutations), NEW v \in Users, Locks(r, v)
                  PROVE  rows'[v].role = mutations[r].found[v]
      BY <2>1 DEF LockedIsCurrent, Locks, Active
    <3>1. rows[v].role = mutations[r].found[v] /\ rows[v].role # "none"
      BY DEF MembershipInv, LockedIsCurrent, Locks
    <3>2. rows[v] # NoRow
      BY <3>1 DEF NoRow, Row
    <3>. QED
      BY <2>2, <3>1, <3>2 DEF MembershipInv, RowsOK
  <2>a. UnreadBeforeLocked'
    BY <2>1 DEF MembershipInv, UnreadBeforeLocked, Active
  <2>7. AuditsOK'
    BY <2>1 DEF MembershipInv, AuditsOK, Finished
  <2>8. LastOwner'
    <3>1. CASE rows' = [rows EXCEPT ![Founder] = Row("owner", 0)]
      BY <3>1, MembershipAssumption DEF MembershipInv, RowsOK, LastOwner, Owners, Row, Users
    <3>2. CASE rows' = rows /\ (u = Founder => u \in signedUp \/ rows[u] # NoRow)
      <4>1. Founder \in signedUp' => Founder \in signedUp
        BY <2>1, <3>2, MembershipAssumption DEF MembershipInv, NothingBefore, Users
      <4>. QED
        BY <2>1, <3>2, <4>1 DEF MembershipInv, LastOwner, Owners
    <3>. QED
      BY <2>2, <3>1, <3>2
  <2>. QED
    BY <2>1, <2>3, <2>4, <2>5, <2>6, <2>a, <2>7, <2>8 DEF MembershipInv, MutationsOK
<1>2. ASSUME NEW actor \in Users, NEW target \in Users, NEW role \in Roles \cup {"none"},
             Request(actor, target, role)
      PROVE  MembershipInv'
  <2>. DEFINE m == [step |-> "locking", actor |-> actor, target |-> target, role |-> role,
                    seen |-> rows, toLock |-> {u \in Users : rows[u] # NoRow},
                    found |-> [u \in Users |-> "none"]]
  <2>1. /\ Len(mutations) < MaxMutations /\ claims[actor] \in Managers
        /\ mutations' = Append(mutations, m)
        /\ UNCHANGED <<rows, signedUp, claims, audits, overlooked>>
    BY <1>2 DEF Request
  <2>2. m \in Mutation
    BY MembershipAssumption DEF MembershipInv, RowsOK, Mutation
  <2>3. /\ MutationsOK' /\ Len(mutations') = Len(mutations) + 1
        /\ mutations'[Len(mutations) + 1] = m
        /\ \A k \in 1..Len(mutations) : mutations'[k] = mutations[k]
    BY <2>1, <2>2, MembershipAssumption DEF MembershipInv, MutationsOK
  <2>4. Finished' = Finished
    BY <2>3 DEF Finished, MembershipInv, MutationsOK
  <2>5. Founder \in signedUp
    BY <2>1 DEF MembershipInv, NothingBefore, Managers
  <2>6. LockedIsCurrent'
    <3>. SUFFICES ASSUME NEW k \in 1..Len(mutations'), NEW u \in Users, Locks(k, u)'
                  PROVE  k \in 1..Len(mutations) /\ Locks(k, u)
      BY <2>1, <2>3 DEF LockedIsCurrent, MembershipInv
    <3>1. k # Len(mutations) + 1
      BY <2>3 DEF Locks
    <3>2. k \in 1..Len(mutations)
      BY <2>3, <3>1 DEF MembershipInv, MutationsOK
    <3>. QED
      BY <2>3, <3>2 DEF Locks, Active
  <2>7. UnreadBeforeLocked'
    <3>. SUFFICES ASSUME NEW k \in 1..Len(mutations'), Active(k)', NEW u \in mutations'[k].toLock
                  PROVE  mutations'[k].found[u] = "none"
      BY DEF UnreadBeforeLocked
    <3>1. CASE k = Len(mutations) + 1
      BY <2>3, <3>1
    <3>2. CASE k \in 1..Len(mutations)
      BY <2>3, <3>2 DEF MembershipInv, UnreadBeforeLocked, Active
    <3>. QED
      BY <2>3, <3>1, <3>2 DEF MembershipInv, MutationsOK
  <2>. QED
    BY <2>1, <2>3, <2>4, <2>5, <2>6, <2>7
    DEF MembershipInv, RowsOK, NothingBefore, AuditsOK, LastOwner, Owners
<1>3. ASSUME NEW r \in 1..MaxMutations, NEW u \in Users, LockRow(r, u)
      PROVE  MembershipInv'
  <2>1. /\ MutationsOK' /\ Len(mutations') = Len(mutations) /\ r \in 1..Len(mutations)
        /\ mutations'[r].step = mutations[r].step
        /\ \A k \in 1..Len(mutations) \ {r} : mutations'[k] = mutations[k]
        /\ mutations'[r].toLock = mutations[r].toLock \ {u}
        /\ \A v \in Users \ {u} : mutations'[r].found[v] = mutations[r].found[v]
        /\ mutations'[r].found[u] \in {mutations[r].found[u], rows[u].role}
        /\ Finished' = Finished
    BY <1>3, LockEffect DEF MembershipInv
  <2>2. UNCHANGED <<rows, signedUp, claims, audits, overlooked>>
    BY <1>3 DEF LockRow
  <2>3. u \in mutations[r].toLock /\ Active(r)
    BY <1>3 DEF LockRow
  <2>4. LockedIsCurrent'
    <3>. SUFFICES ASSUME NEW k \in 1..Len(mutations), NEW v \in Users, Locks(k, v)'
                  PROVE  rows[v].role = mutations'[k].found[v]
      BY <2>1, <2>2 DEF LockedIsCurrent
    <3>1. CASE k # r
      BY <2>1, <3>1 DEF MembershipInv, LockedIsCurrent, Locks, Active
    <3>2. CASE k = r /\ v # u
      BY <2>1, <3>2 DEF MembershipInv, LockedIsCurrent, Locks, Active
    <3>3. CASE k = r /\ v = u
      <4>1. mutations[r].found[u] = "none"
        BY <2>1, <2>3 DEF MembershipInv, UnreadBeforeLocked
      <4>2. mutations'[r].found[u] # "none"
        BY <3>3 DEF Locks
      <4>. QED
        BY <2>1, <3>3, <4>1, <4>2
    <3>. QED
      BY <3>1, <3>2, <3>3
  <2>6. UnreadBeforeLocked'
    <3>. SUFFICES ASSUME NEW k \in 1..Len(mutations), Active(k)', NEW v \in mutations'[k].toLock
                  PROVE  mutations'[k].found[v] = "none"
      BY <2>1 DEF UnreadBeforeLocked
    <3>1. CASE k # r
      BY <2>1, <3>1 DEF MembershipInv, UnreadBeforeLocked, Active
    <3>2. CASE k = r
      <4>1. v \in mutations[r].toLock /\ v # u
        BY <2>1, <3>2
      <4>2. v \in Users
        BY <2>1, <4>1, MutationFields DEF MembershipInv, Mutation
      <4>3. mutations[r].found[v] = "none"
        BY <2>1, <2>3, <4>1 DEF MembershipInv, UnreadBeforeLocked
      <4>. QED
        BY <2>1, <3>2, <4>1, <4>2, <4>3
    <3>. QED
      BY <3>1, <3>2
  <2>5. NothingBefore'
    BY <2>1, <2>2 DEF MembershipInv, NothingBefore, MutationsOK
  <2>. QED
    BY <2>1, <2>2, <2>4, <2>5, <2>6
    DEF MembershipInv, RowsOK, AuditsOK, LastOwner, Owners
<1>4. ASSUME NEW r \in 1..MaxMutations, UpsertMembership(r)
      PROVE  MembershipInv'
  <2>. DEFINE m == mutations[r]
              new == Row(m.role, IF rows[m.target] = NoRow THEN r ELSE rows[m.target].by)
  <2>1. Commits(r) /\ m.role # "none" /\ audits' = audits + 1 /\ Active(r)
    BY <1>4 DEF UpsertMembership, Commits
  <2>2. m \in Mutation
    BY <2>1 DEF MembershipInv, MutationsOK, Active
  <2>3. rows' = [rows EXCEPT ![m.target] = new]
    BY <1>4, <2>2 DEF UpsertMembership, MembershipInv, RowsOK, Mutation
  <2>4. /\ new \in [role : Roles \cup {"none"}, by : 0..MaxMutations]
        /\ new.role = m.role
    BY <2>2, MembershipAssumption DEF Row, MembershipInv, RowsOK, Mutation
  <2>5. new.role = "none" => new = NoRow
    BY <2>1, <2>4
  <2>6. audits' \in {audits, audits + 1}
    BY <2>1
  <2>. HIDE DEF new
  <2>. QED
    BY <2>1, <2>3, <2>4, <2>5, <2>6, CommitStep
<1>5. ASSUME NEW r \in 1..MaxMutations, DeleteMembership(r)
      PROVE  MembershipInv'
  <2>1. /\ Commits(r) /\ mutations[r].role = "none" /\ audits' \in {audits, audits + 1}
        /\ rows' = [rows EXCEPT ![mutations[r].target] = NoRow]
    BY <1>5 DEF DeleteMembership
  <2>2. NoRow \in [role : Roles \cup {"none"}, by : 0..MaxMutations] /\ NoRow.role = "none"
    BY MembershipAssumption DEF NoRow, Row
  <2>. QED
    BY <2>1, <2>2, CommitStep
<1>6. ASSUME NEW r \in 1..MaxMutations, Refuse(r)
      PROVE  MembershipInv'
  <2>1. /\ Active(r) /\ mutations' = [mutations EXCEPT ![r] = Over]
        /\ UNCHANGED <<rows, signedUp, claims, audits, overlooked>>
    BY <1>6 DEF Refuse
  <2>2. /\ MutationsOK' /\ Len(mutations') = Len(mutations) /\ r \in 1..Len(mutations)
        /\ mutations'[r].step = "over"
        /\ \A k \in 1..Len(mutations) \ {r} : mutations'[k] = mutations[k]
        /\ Cardinality(Finished') = Cardinality(Finished) + 1
    BY <2>1, OverEffect DEF MembershipInv
  <2>3. LockedIsCurrent'
    BY <2>1, <2>2 DEF MembershipInv, LockedIsCurrent, Locks, Active
  <2>4. NothingBefore'
    BY <2>1, <2>2 DEF MembershipInv, NothingBefore, MutationsOK
  <2>5. AuditsOK'
    BY <2>1, <2>2, FinishedFinite DEF MembershipInv, AuditsOK
  <2>6. UnreadBeforeLocked'
    BY <2>2 DEF MembershipInv, UnreadBeforeLocked, Active
  <2>. QED
    BY <2>1, <2>2, <2>3, <2>4, <2>5, <2>6 DEF MembershipInv, RowsOK, LastOwner, Owners
<1>7. CASE UNCHANGED memberVars
  BY <1>7 DEF memberVars, MembershipInv, RowsOK, MutationsOK, NothingBefore, LockedIsCurrent,
              UnreadBeforeLocked, Locks, Active, AuditsOK, Finished, LastOwner, Owners
<1>. QED
  BY <1>1, <1>2, <1>3, <1>4, <1>5, <1>6, <1>7 DEF MembershipNext

\* The initial states satisfy the invariant.
LEMMA MembershipStart == ASSUME MembershipInit PROVE MembershipInv
<1>. USE MembershipAssumption DEF MembershipInit, MembershipInv
<1>1. RowsOK
  BY DEF RowsOK, NoRow, Row
<1>2. MutationsOK
  BY DEF MutationsOK
<1>3. AuditsOK
  BY <1>2, FinishedFinite DEF AuditsOK
<1>4. LockedIsCurrent /\ UnreadBeforeLocked
  BY DEF LockedIsCurrent, UnreadBeforeLocked
<1>5. NothingBefore /\ LastOwner
  BY DEF NothingBefore, LastOwner
<1>. QED
  BY <1>1, <1>2, <1>3, <1>4, <1>5

LEMMA MembershipInductive == MembershipSpec => []MembershipInv
BY MembershipStart, MembershipStep, PTL DEF MembershipSpec

\* The invariant says the range of every variable.
LEMMA MembershipTyped == ASSUME MembershipInv PROVE MembershipTypeOK
<1>1. MutationsOK /\ Len(mutations) \in Nat
  BY DEF MembershipInv, MutationsOK
<1>2. audits \in 0..Len(mutations)
  BY <1>1, FinishedFinite DEF MembershipInv, AuditsOK
<1>. QED
  BY <1>1, <1>2 DEF MembershipInv, MembershipTypeOK, RowsOK, MutationsOK

\* Every variable of the memberships stays in its range, and each audit record is of a
\* transaction of its own.
THEOREM MembershipTypeCorrect == MembershipSpec => []MembershipTypeOK
BY MembershipInductive, MembershipTyped, PTL

\* The workspace keeps an owner, for any number of users and of competing mutations.
THEOREM LastOwnerHolds == MembershipSpec => []LastOwner
<1>1. MembershipInv => LastOwner
  BY DEF MembershipInv
<1>. QED
  BY <1>1, MembershipInductive, PTL

LEMMA AuthorizedStep ==
  ASSUME MembershipInv, [MembershipNext]_memberVars,
         NEW r \in 1..Len(mutations), audits' # audits,
         mutations[r].step = "locking", mutations'[r].step = "over"
  PROVE  LET m == mutations[r] IN
         /\ rows[m.actor].role \in Managers
         /\ "owner" \in {rows[m.target].role, m.role} /\ ~overlooked'
            => rows[m.actor].role = "owner"
<1>. DEFINE m == mutations[r]
<1>1. PICK k \in 1..MaxMutations : UpsertMembership(k) \/ DeleteMembership(k)
  BY DEF MembershipNext, memberVars, SignIn, Request, LockRow, Refuse
<1>2. Commits(k)
  BY <1>1 DEF UpsertMembership, DeleteMembership
<1>3. /\ Active(k) /\ mutations[k].toLock = {} /\ Allowed(mutations[k])
      /\ overlooked' = (overlooked \/ (rows[mutations[k].target] # NoRow
                                       /\ mutations[k].found[mutations[k].target] = "none"))
      /\ mutations' = [mutations EXCEPT ![k] = Over]
  BY <1>2 DEF Commits
<1>4. r = k
  BY <1>3, OverEffect DEF MembershipInv
<1>5. m \in Mutation /\ m.actor \in Users /\ m.target \in Users
  BY MutationFields DEF MembershipInv
<1>6. rows[m.actor].role = m.found[m.actor] /\ m.found[m.actor] \in Managers
  BY <1>3, <1>4, <1>5, FoundIsCurrent DEF MembershipInv, Allowed, Managers
<1>7. ASSUME rows[m.target].role = "owner", ~overlooked'
      PROVE  m.found[m.target] = "owner"
  <2>1. rows[m.target] # NoRow
    BY <1>7 DEF NoRow, Row
  <2>. QED
    BY <1>3, <1>4, <1>5, <1>7, <2>1, FoundIsCurrent DEF MembershipInv
<1>. QED
  BY <1>3, <1>4, <1>6, <1>7 DEF Allowed

\* Who changes a membership manages the workspace at the commit, and is an owner where
\* an owner is needed.
THEOREM AuthorizedNowHolds == MembershipSpec => AuthorizedNow
<1>1. MembershipInv /\ [MembershipNext]_memberVars =>
        [\A r \in 1..Len(mutations) :
           audits' # audits /\ mutations[r].step = "locking" /\ mutations'[r].step = "over"
           => LET m == mutations[r] IN
              /\ rows[m.actor].role \in Managers
              /\ "owner" \in {rows[m.target].role, m.role} /\ ~overlooked'
                 => rows[m.actor].role = "owner"]_memberVars
  BY AuthorizedStep
<1>. QED
  BY <1>1, MembershipInductive, PTL DEF MembershipSpec, AuthorizedNow

-----------------------------------------------------------------------------
(* Meetings *)

Write == [step : {"write"}, meeting : Meetings, note : Notes, exists : BOOLEAN]

WritesOK == writes \in Seq(Write \cup {Written}) /\ Len(writes) <= MaxWrites

RowsTyped ==
  /\ policy \in Modes \cup {"none"}
  /\ running \subseteq Meetings
  /\ known \in [Meetings -> Modes \cup {Nobody}]
  /\ meeting \in [Meetings -> {"none", "active", "ended", "old"}]
  /\ kind \in [Notes -> {"segment", "suggestion"} \cup Meetings]
  /\ owner \in [Notes -> Meetings \cup {Nobody}]
  /\ removal \in [step : {"none", "select", "delete"}, ids : SUBSET Meetings, mode : Modes]
  /\ stored \subseteq Meetings \X Notes

StartsTyped ==
  /\ persisted \subseteq running
  /\ creating \in [Meetings -> 0..MaxCreates]
  /\ removed \in [Meetings -> {"no", "once", "final"}]

\* The foreign key: a note belongs to a meeting with a row.
Referenced == \A n \in Notes : owner[n] # Nobody => meeting[owner[n]] # "none"

\* Whatever has, had or will lose its row has started.
StartedFirst ==
  \A m \in Meetings :
    meeting[m] # "none" \/ m \in removal.ids \/ creating[m] > 0 \/ m \in running =>
      known[m] # Nobody

\* A meeting that was settled when it was deleted has started, and is settled.
Final == \A m \in Meetings : removed[m] = "final" => known[m] # Nobody /\ Settled(m)

\* The row that a write is about to update is there, unless its meeting was removed.
UpdatesItsRow ==
  \A i \in 1..Len(writes) : writes[i].step = "write" /\ writes[i].exists =>
    removed[writes[i].meeting] # "no" \/ owner[writes[i].note] = writes[i].meeting

RecordsInv ==
  RowsTyped /\ StartsTyped /\ WritesOK /\ Referenced /\ StartedFirst /\ Final /\ UpdatesItsRow
    /\ ReviewIsComplete

-----------------------------------------------------------------------------
LEMMA WriteFields ==
  ASSUME WritesOK, NEW i \in 1..Len(writes), writes[i].step = "write"
  PROVE  writes[i].meeting \in Meetings /\ writes[i].note \in Notes /\ writes[i].exists \in BOOLEAN
<1>1. writes[i] \in Write \cup {Written}
  BY DEF WritesOK
<1>2. Written.step = "over"
  BY DEF Written
<1>. QED
  BY <1>1, <1>2 DEF Write

\* A write is over, and the others are as they were.
LEMMA WrittenEffect ==
  ASSUME WritesOK, NEW i \in 1..Len(writes), writes' = [writes EXCEPT ![i] = Written]
  PROVE  /\ WritesOK' /\ Len(writes') = Len(writes)
         /\ writes'[i].step = "over"
         /\ \A k \in 1..Len(writes) \ {i} : writes'[k] = writes[k]
<1>1. Written.step = "over"
  BY DEF Written
<1>. QED
  BY <1>1 DEF WritesOK

LEMMA ResolvedIsMode == ASSUME RowsTyped PROVE Resolved \in Modes /\ Nobody \notin Modes
BY RecordAssumption DEF RowsTyped, Resolved

\* Which meetings have a row, and the notes, are as they were.
LEMMA ReviewStays ==
  ASSUME ReviewIsComplete, UNCHANGED <<owner, stored, removed>>,
         \A m \in Meetings : meeting'[m] = "none" <=> meeting[m] = "none"
  PROVE  ReviewIsComplete'
<1>1. \A m \in Meetings : Review(m)' = Review(m)
  BY DEF Review
<1>. QED
  BY <1>1 DEF ReviewIsComplete

\* Nothing starts.
LEMMA FinalStays ==
  ASSUME Final, UNCHANGED <<removed, known, creating, running, persisted>>
  PROVE  Final'
BY DEF Final, Settled

LEMMA RecordsStep ==
  ASSUME RecordsInv, [RecordsNext]_recordVars
  PROVE  RecordsInv'
<1>. USE DEF RecordsInv
<1>w. ASSUME writes' = writes
      PROVE  WritesOK'
  BY <1>w DEF WritesOK
<1>u. ASSUME writes' = writes, owner' = owner, removed' = removed
      PROVE  UpdatesItsRow'
  BY <1>u DEF UpdatesItsRow
<1>1. ASSUME NEW p \in Modes, SetPolicy(p)
      PROVE  RecordsInv'
  <2>1. /\ policy' \in {p, "none"}
        /\ UNCHANGED <<kind, running, creating, persisted, known, meeting, owner, writes, removal,
                       stored, removed>>
    BY <1>1 DEF SetPolicy, notes
  <2>2. RowsTyped' /\ StartsTyped' /\ Referenced' /\ StartedFirst'
    BY <2>1 DEF RowsTyped, StartsTyped, Referenced, StartedFirst
  <2>. QED
    BY <2>1, <2>2, <1>w, <1>u, ReviewStays, FinalStays
<1>2. ASSUME NEW m \in Meetings, Ages(m)
      PROVE  RecordsInv'
  <2>1. /\ meeting[m] = "ended" /\ meeting' = [meeting EXCEPT ![m] = "old"]
        /\ UNCHANGED <<kind, policy, running, creating, persisted, known, owner, writes, removal,
                       stored, removed>>
    BY <1>2 DEF Ages, notes
  <2>2. RowsTyped' /\ Referenced'
    BY <2>1 DEF RowsTyped, Referenced
  <2>3. StartsTyped'
    BY <2>1 DEF StartsTyped
  <2>4. StartedFirst' /\ \A k \in Meetings : meeting'[k] = "none" <=> meeting[k] = "none"
    BY <2>1 DEF RowsTyped, StartedFirst
  <2>. QED
    BY <2>1, <2>2, <2>3, <2>4, <1>w, <1>u, ReviewStays, FinalStays
<1>3. ASSUME NEW m \in Meetings, BeginDelete(m)
      PROVE  RecordsInv'
  <2>1. /\ meeting[m] # "none"
        /\ removal' = [step |-> "delete", ids |-> {m}, mode |-> Default]
        /\ UNCHANGED <<kind, policy, running, creating, persisted, known, meeting, owner, writes,
                       stored, removed>>
    BY <1>3 DEF BeginDelete, NoRemoval, notes
  <2>2. RowsTyped' /\ Referenced'
    BY <2>1, RecordAssumption DEF RowsTyped, Referenced
  <2>3. StartsTyped' /\ StartedFirst'
    BY <2>1 DEF StartsTyped, StartedFirst
  <2>. QED
    BY <2>1, <2>2, <2>3, <1>w, <1>u, ReviewStays, FinalStays
<1>4. ASSUME NEW m \in Meetings, StartMeeting(m)
      PROVE  RecordsInv'
  <2>1. /\ known[m] = Nobody \/ m \in running \ persisted
        /\ creating[m] < MaxCreates
        /\ running' = running \cup {m}
        /\ creating' = [creating EXCEPT ![m] = @ + 1]
        /\ known' = [known EXCEPT ![m] = IF @ = Nobody THEN Resolved ELSE @]
        /\ UNCHANGED <<kind, policy, persisted, meeting, owner, writes, removal, stored, removed>>
    BY <1>4 DEF StartMeeting, notes
  <2>2. RowsTyped' /\ Referenced'
    BY <2>1, ResolvedIsMode DEF RowsTyped, Referenced
  <2>3. StartsTyped'
    BY <2>1, RecordAssumption DEF StartsTyped
  <2>4. known' \in [Meetings -> Modes \cup {Nobody}] /\ known'[m] # Nobody
        /\ \A k \in Meetings : k # m => known'[k] = known[k] /\ creating'[k] = creating[k]
    BY <2>1, ResolvedIsMode DEF RowsTyped, StartsTyped
  <2>5. StartedFirst'
    BY <2>1, <2>4 DEF StartedFirst
  <2>6. removed[m] # "final"
    BY <2>1 DEF Final, Settled
  <2>7. Final'
    BY <2>1, <2>4, <2>6 DEF Final, Settled
  <2>. QED
    BY <2>1, <2>2, <2>3, <2>5, <2>7, <1>w, <1>u, ReviewStays
<1>5. ASSUME NEW m \in Meetings, CreateMeeting(m)
      PROVE  RecordsInv'
  <2>1. /\ creating[m] > 0 /\ creating' = [creating EXCEPT ![m] = @ - 1]
        /\ \/ meeting[m] = "none" /\ meeting' = [meeting EXCEPT ![m] = "active"]
           \/ meeting' = meeting
        /\ persisted' \in {persisted, persisted \cup ({m} \cap running)}
        /\ UNCHANGED <<kind, policy, running, known, owner, writes, removal, stored, removed>>
    BY <1>5 DEF CreateMeeting, notes
  <2>2. RowsTyped' /\ Referenced'
    BY <2>1 DEF RowsTyped, Referenced
  <2>3. StartsTyped' /\ \A k \in Meetings : k # m => creating'[k] = creating[k]
    BY <2>1, RecordAssumption DEF StartsTyped
  <2>4. known[m] # Nobody /\ removed[m] # "final"
    BY <2>1 DEF StartedFirst, Final, Settled
  <2>5. \A k \in Meetings : k # m => meeting'[k] = meeting[k]
    BY <2>1 DEF RowsTyped
  <2>6. StartedFirst' /\ Final'
    BY <2>1, <2>3, <2>4, <2>5 DEF StartedFirst, Final, Settled
  <2>7. ReviewIsComplete'
    <3>1. \A k \in Meetings : Review(k)' = Review(k)
      BY <2>1 DEF Review
    <3>2. meeting[m] # "none" => meeting'[m] # "none"
      BY <2>1
    <3>. QED
      BY <2>1, <2>4, <2>5, <3>1, <3>2 DEF ReviewIsComplete
  <2>. QED
    BY <2>1, <2>2, <2>3, <2>6, <2>7, <1>w, <1>u
<1>6. ASSUME NEW m \in Meetings, ResumeMeeting(m)
      PROVE  RecordsInv'
  <2>1. /\ m \in running /\ known' = [known EXCEPT ![m] = Resolved]
        /\ persisted' = persisted \cup {m}
        /\ UNCHANGED <<kind, policy, running, creating, meeting, owner, writes, removal, stored,
                       removed>>
    BY <1>6 DEF ResumeMeeting, notes
  <2>2. RowsTyped' /\ Referenced'
    BY <2>1, ResolvedIsMode DEF RowsTyped, Referenced
  <2>3. StartsTyped'
    BY <2>1 DEF StartsTyped
  <2>4. \A k \in Meetings : known'[k] = known[k] \/ known'[k] # Nobody
    BY <2>1, ResolvedIsMode DEF RowsTyped
  <2>5. StartedFirst' /\ Final'
    BY <2>1, <2>4 DEF StartedFirst, Final, Settled
  <2>. QED
    BY <2>1, <2>2, <2>3, <2>5, <1>w, <1>u, ReviewStays
<1>7. ASSUME NEW m \in Meetings, EndMeeting(m)
      PROVE  RecordsInv'
  <2>1. /\ m \in running /\ running' = running \ {m} /\ persisted' = persisted \ {m}
        /\ meeting' \in {meeting, EndUpdated(m)}
        /\ known' = [known EXCEPT ![m] = Default]
        /\ UNCHANGED <<kind, policy, creating, owner, writes, removal, stored, removed>>
    BY <1>7 DEF EndMeeting, notes
  <2>2. RowsTyped' /\ Referenced' /\ \A k \in Meetings : meeting'[k] = "none" <=> meeting[k] = "none"
    BY <2>1, RecordAssumption DEF RowsTyped, Referenced, EndUpdated
  <2>3. StartsTyped'
    BY <2>1 DEF StartsTyped
  <2>4. \A k \in Meetings : known'[k] = known[k] \/ known'[k] # Nobody
    BY <2>1, RecordAssumption DEF RowsTyped
  <2>5. StartedFirst' /\ Final'
    BY <2>1, <2>2, <2>4 DEF StartedFirst, Final, Settled
  <2>. QED
    BY <2>1, <2>2, <2>3, <2>5, <1>w, <1>u, ReviewStays
<1>8. ASSUME NEW m \in Meetings, NEW n \in Notes, BeginWrite(m, n)
      PROVE  RecordsInv'
  <2>. DEFINE w == [step |-> "write", meeting |-> m, note |-> n, exists |-> owner[n] = m]
  <2>1. /\ writes' = Append(writes, w) /\ Len(writes) < MaxWrites
        /\ UNCHANGED <<kind, policy, running, creating, persisted, known, meeting, owner, removal,
                       stored, removed>>
    BY <1>8 DEF BeginWrite
  <2>2. w \in Write
    BY DEF Write
  <2>3. /\ WritesOK' /\ Len(writes') = Len(writes) + 1
        /\ writes'[Len(writes) + 1] = w
        /\ \A k \in 1..Len(writes) : writes'[k] = writes[k]
    BY <2>1, <2>2, RecordAssumption DEF WritesOK
  <2>w. w.step = "write" /\ w.meeting = m /\ w.note = n /\ (w.exists => owner[n] = m)
    OBVIOUS
  <2>. HIDE DEF w
  <2>4. UpdatesItsRow'
    <3>. SUFFICES ASSUME NEW i \in 1..Len(writes'), writes'[i].step = "write", writes'[i].exists
                  PROVE  \/ removed[writes'[i].meeting] # "no"
                         \/ owner[writes'[i].note] = writes'[i].meeting
      BY <2>1 DEF UpdatesItsRow
    <3>1. CASE i = Len(writes) + 1
      BY <2>3, <2>w, <3>1
    <3>2. CASE i \in 1..Len(writes)
      BY <2>3, <3>2 DEF UpdatesItsRow
    <3>. QED
      BY <2>3, <3>1, <3>2 DEF WritesOK
  <2>5. RowsTyped' /\ StartsTyped' /\ Referenced' /\ StartedFirst'
    BY <2>1 DEF RowsTyped, StartsTyped, Referenced, StartedFirst
  <2>. QED
    BY <2>1, <2>3, <2>4, <2>5, ReviewStays, FinalStays
<1>9. ASSUME NEW i \in 1..MaxWrites, FinishWrite(i)
      PROVE  RecordsInv'
  <2>. DEFINE w == writes[i]
  <2>1. /\ i \in 1..Len(writes) /\ w.step = "write"
        /\ ~w.exists => meeting[w.meeting] # "none" /\ owner[w.note] = Nobody
        /\ owner' = IF w.exists THEN owner ELSE [owner EXCEPT ![w.note] = w.meeting]
        /\ stored' = stored \cup {<<w.meeting, w.note>>}
        /\ writes' = [writes EXCEPT ![i] = Written]
        /\ UNCHANGED <<kind, policy, running, creating, persisted, known, meeting, removal, removed>>
    BY <1>9 DEF FinishWrite
  <2>2. w.meeting \in Meetings /\ w.note \in Notes /\ w.exists \in BOOLEAN
    BY <2>1, WriteFields
  <2>3. /\ WritesOK' /\ Len(writes') = Len(writes)
        /\ writes'[i].step = "over"
        /\ \A k \in 1..Len(writes) \ {i} : writes'[k] = writes[k]
    BY <2>1, WrittenEffect
  <2>. HIDE DEF w
  <2>4. RowsTyped'
    BY <2>1, <2>2 DEF RowsTyped
  <2>5. StartsTyped' /\ Referenced' /\ StartedFirst' /\ Final'
    BY <2>1, <2>2, FinalStays DEF RowsTyped, StartsTyped, Referenced, StartedFirst
  <2>6. \A n \in Notes : owner[n] # Nobody => owner'[n] = owner[n]
    BY <2>1, <2>2 DEF RowsTyped
  <2>7. UpdatesItsRow'
    <3>. SUFFICES ASSUME NEW k \in 1..Len(writes), writes'[k].step = "write", writes'[k].exists
                  PROVE  \/ removed[writes'[k].meeting] # "no"
                         \/ owner'[writes'[k].note] = writes'[k].meeting
      BY <2>1, <2>3 DEF UpdatesItsRow
    <3>1. k # i /\ writes'[k] = writes[k]
      BY <2>3
    <3>2. writes[k].meeting \in Meetings /\ writes[k].note \in Notes
      BY <3>1, WriteFields
    <3>3. removed[writes[k].meeting] # "no" \/ owner[writes[k].note] = writes[k].meeting
      BY <3>1 DEF UpdatesItsRow
    <3>. QED
      BY <2>6, <3>1, <3>2, <3>3, RecordAssumption
  <2>8. removed[w.meeting] # "no" \/ (owner'[w.note] = w.meeting /\ meeting[w.meeting] # "none")
    <3>1. CASE w.exists
      <4>1. removed[w.meeting] # "no" \/ owner[w.note] = w.meeting
        BY <2>1, <3>1 DEF UpdatesItsRow, w
      <4>. QED
        BY <2>1, <2>2, <3>1, <4>1, RecordAssumption DEF Referenced
    <3>2. CASE ~w.exists
      BY <2>1, <2>2, <3>2 DEF RowsTyped
    <3>. QED
      BY <2>2, <3>1, <3>2
  <2>9. ReviewIsComplete'
    <3>1. ASSUME NEW m \in Meetings, removed[m] = "final"
          PROVE  meeting[m] = "none" /\ Review(m)' = {}
      <4>1. meeting[m] = "none" /\ Review(m) = {}
        BY <3>1 DEF ReviewIsComplete
      <4>2. ASSUME NEW n \in Notes, owner'[n] = m
            PROVE  FALSE
        <5>1. owner[n] # m
          BY <4>1 DEF Review
        <5>2. ~w.exists /\ n = w.note /\ m = w.meeting
          BY <2>1, <2>2, <4>2, <5>1 DEF RowsTyped
        <5>. QED
          BY <2>1, <4>1, <5>2
      <4>. QED
        BY <4>1, <4>2 DEF Review
    <3>2. ASSUME NEW m \in Meetings, removed[m] = "no", NEW n \in Notes, <<m, n>> \in stored'
          PROVE  meeting[m] # "none" /\ n \in Review(m)'
      <4>1. CASE <<m, n>> \in stored
        <5>1. meeting[m] # "none" /\ owner[n] = m
          BY <3>2, <4>1 DEF ReviewIsComplete, Review
        <5>. QED
          BY <2>6, <5>1, RecordAssumption DEF Review
      <4>2. CASE m = w.meeting /\ n = w.note
        BY <2>8, <3>2, <4>2 DEF Review
      <4>. QED
        BY <2>1, <3>2, <4>1, <4>2
    <3>. QED
      BY <2>1, <3>1, <3>2 DEF ReviewIsComplete
  <2>. QED
    BY <2>3, <2>4, <2>5, <2>7, <2>9
<1>10. ASSUME NEW i \in 1..MaxWrites, WriteError(i)
       PROVE  RecordsInv'
  <2>1. /\ i \in 1..Len(writes) /\ writes' = [writes EXCEPT ![i] = Written]
        /\ UNCHANGED <<kind, policy, running, creating, persisted, known, meeting, owner, removal,
                       stored, removed>>
    BY <1>10 DEF WriteError
  <2>2. /\ WritesOK' /\ Len(writes') = Len(writes)
        /\ writes'[i].step = "over"
        /\ \A k \in 1..Len(writes) \ {i} : writes'[k] = writes[k]
    BY <2>1, WrittenEffect
  <2>3. UpdatesItsRow'
    BY <2>1, <2>2 DEF UpdatesItsRow
  <2>4. RowsTyped' /\ StartsTyped' /\ Referenced' /\ StartedFirst'
    BY <2>1 DEF RowsTyped, StartsTyped, Referenced, StartedFirst
  <2>. QED
    BY <2>1, <2>2, <2>3, <2>4, ReviewStays, FinalStays
<1>11. CASE BeginCleanup
  <2>1. /\ removal' = [step |-> "select", ids |-> {}, mode |-> Resolved]
        /\ UNCHANGED <<kind, policy, running, creating, persisted, known, meeting, owner, writes,
                       stored, removed>>
    BY <1>11 DEF BeginCleanup, NoRemoval, notes
  <2>2. RowsTyped' /\ StartsTyped' /\ Referenced' /\ StartedFirst'
    BY <2>1, ResolvedIsMode DEF RowsTyped, StartsTyped, Referenced, StartedFirst
  <2>. QED
    BY <2>1, <2>2, <1>w, <1>u, ReviewStays, FinalStays
<1>12. CASE SelectExpired
  <2>. DEFINE ids == {m \in Meetings : Expired(m, removal.mode)}
  <2>1. /\ \/ removal' = [step |-> "delete", ids |-> ids, mode |-> Default]
           \/ removal' = [step |-> "none", ids |-> {}, mode |-> Default]
        /\ UNCHANGED <<kind, policy, running, creating, persisted, known, meeting, owner, writes,
                       stored, removed>>
    BY <1>12 DEF SelectExpired, NoRemoval, notes
  <2>2. \A m \in ids : meeting[m] # "none"
    BY DEF Expired
  <2>. HIDE DEF ids
  <2>3. ids \subseteq Meetings
    BY DEF ids
  <2>4. RowsTyped'
    <3>1. removal' \in [step : {"none", "select", "delete"}, ids : SUBSET Meetings, mode : Modes]
      BY <2>1, <2>3, RecordAssumption
    <3>. QED
      BY <2>1, <3>1 DEF RowsTyped
  <2>5. removal'.ids \subseteq ids
    BY <2>1
  <2>6. StartedFirst'
    BY <2>1, <2>2, <2>3, <2>5 DEF StartedFirst
  <2>7. StartsTyped' /\ Referenced'
    BY <2>1 DEF StartsTyped, Referenced
  <2>. QED
    BY <2>1, <2>4, <2>6, <2>7, <1>w, <1>u, ReviewStays, FinalStays
<1>13. CASE Delete
  <2>1. /\ meeting' = [m \in Meetings |-> IF m \in removal.ids THEN "none" ELSE meeting[m]]
        /\ owner' = [n \in Notes |-> IF owner[n] \in removal.ids THEN Nobody ELSE owner[n]]
        /\ removed' = [m \in Meetings |-> IF m \notin removal.ids THEN removed[m]
                                         ELSE IF Settled(m) THEN "final" ELSE "once"]
        /\ removal' = [step |-> "none", ids |-> {}, mode |-> Default]
        /\ UNCHANGED <<kind, policy, running, creating, persisted, known, writes, stored>>
    BY <1>13 DEF Delete, NoRemoval
  <2>2. RowsTyped' /\ StartsTyped'
    BY <2>1, RecordAssumption DEF RowsTyped, StartsTyped
  <2>3. Referenced' /\ StartedFirst'
    BY <2>1, RecordAssumption DEF RowsTyped, Referenced, StartedFirst
  <2>4. UpdatesItsRow'
    <3>. SUFFICES ASSUME NEW k \in 1..Len(writes), writes[k].step = "write", writes[k].exists
                  PROVE  \/ removed'[writes[k].meeting] # "no"
                         \/ owner'[writes[k].note] = writes[k].meeting
      BY <2>1 DEF UpdatesItsRow
    <3>1. writes[k].meeting \in Meetings /\ writes[k].note \in Notes
      BY WriteFields
    <3>. QED
      BY <2>1, <3>1 DEF UpdatesItsRow, RowsTyped
  <2>5. \A m \in Meetings : Settled(m)' = Settled(m)
    BY <2>1 DEF Settled
  <2>6. Final'
    BY <2>1, <2>5 DEF RowsTyped, StartsTyped, StartedFirst, Final
  <2>7. ReviewIsComplete'
    <3>1. ASSUME NEW m \in Meetings, m \in removal.ids
          PROVE  removed'[m] # "no" /\ meeting'[m] = "none" /\ Review(m)' = {}
      BY <2>1, <3>1, RecordAssumption DEF Review
    <3>2. ASSUME NEW m \in Meetings, m \notin removal.ids
          PROVE  /\ removed'[m] = removed[m] /\ meeting'[m] = meeting[m]
                 /\ Review(m)' = Review(m)
      <4>1. removed'[m] = removed[m] /\ meeting'[m] = meeting[m]
        BY <2>1, <3>2
      <4>2. \A n \in Notes : owner'[n] = m <=> owner[n] = m
        BY <2>1, <3>2, RecordAssumption DEF RowsTyped
      <4>. QED
        BY <4>1, <4>2 DEF Review
    <3>3. ASSUME NEW m \in Meetings
          PROVE  /\ removed'[m] = "final" => meeting'[m] = "none" /\ Review(m)' = {}
                 /\ removed'[m] = "no" => \A n \in Notes : <<m, n>> \in stored =>
                                            meeting'[m] # "none" /\ n \in Review(m)'
      BY <3>1, <3>2, <3>3 DEF ReviewIsComplete
    <3>. QED
      BY <2>1, <3>3 DEF ReviewIsComplete
  <2>. QED
    BY <2>1, <2>2, <2>3, <2>4, <2>6, <2>7, <1>w
<1>14. CASE UNCHANGED recordVars
  BY <1>14, <1>w, <1>u, ReviewStays, FinalStays
  DEF recordVars, RowsTyped, StartsTyped, Referenced, StartedFirst
<1>. QED
  BY <1>1, <1>2, <1>3, <1>4, <1>5, <1>6, <1>7, <1>8, <1>9, <1>10, <1>11, <1>12, <1>13, <1>14
  DEF RecordsNext, RecordTranscriptEvent, RecordGap, RecordSuggestion

\* The initial states satisfy the invariant.
LEMMA RecordsStart == ASSUME RecordsInit PROVE RecordsInv
<1>1. RowsTyped /\ StartsTyped
  BY RecordAssumption DEF RecordsInit, RowsTyped, StartsTyped, NoRemoval
<1>2. WritesOK /\ UpdatesItsRow
  BY RecordAssumption DEF RecordsInit, WritesOK, UpdatesItsRow
<1>3. Referenced /\ StartedFirst /\ Final /\ ReviewIsComplete
  BY DEF RecordsInit, Referenced, StartedFirst, Final, ReviewIsComplete, NoRemoval
<1>. QED
  BY <1>1, <1>2, <1>3 DEF RecordsInv

LEMMA RecordsInductive == RecordsSpec => []RecordsInv
BY RecordsStart, RecordsStep, PTL DEF RecordsSpec

\* The invariant says the range of every variable.
LEMMA RecordsTyped == ASSUME RecordsInv PROVE RecordsTypeOK
BY DEF RecordsInv, RowsTyped, StartsTyped, WritesOK, RecordsTypeOK

\* The rows of the meetings stay in their ranges.
THEOREM RecordsTypeCorrect == RecordsSpec => []RecordsTypeOK
BY RecordsInductive, RecordsTyped, PTL

\* A review is complete until its meeting is removed, and empty from then on if no create
\* was under way or could be repeated, for any number of meetings, creates, notes and writes.
THEOREM ReviewIsCompleteHolds == RecordsSpec => []ReviewIsComplete
<1>1. RecordsInv => ReviewIsComplete
  BY DEF RecordsInv
<1>. QED
  BY <1>1, RecordsInductive, PTL

-----------------------------------------------------------------------------
(* The server *)

\* Requests that have arrived.
Arrived == {r \in Requests : step[r] # "none"}

BucketsOK ==
  /\ now \in 0..MaxClock
  /\ buckets \in [Callers -> [start : 0..MaxClock, count : Nat]]
  /\ promised \in [Callers -> Nat]
  /\ \A c \in Callers : buckets[c].start <= now /\ buckets[c].count <= Cardinality(Arrived)

\* A caller that was refused is told to wait for the end of its window.
PromiseCoversWindow ==
  \A c \in Callers :
    promised[c] # 0 /\ HasBucket(c) => promised[c] >= buckets[c].start + RateWindow

LimiterInv == BucketsOK /\ PromiseCoversWindow

RequestsOK ==
  /\ step \in [Requests -> {"none", "check", "body", "verify", "repository", "answered"}]
  /\ route \in [Requests -> Routes]
  /\ gone \subseteq Requests /\ turnedAway \subseteq gone
  /\ answers \in [Requests -> 0..1]

\* A request is answered once, unless its client left before.
AnsweredOnce ==
  \A r \in Requests :
    IF step[r] = "answered" THEN r \in gone \/ answers[r] = 1 ELSE answers[r] = 0

\* The server closes when no client waits for an answer.
ClosedIsQuiet == listener = "closed" => NoConnections

\* The pools end after the server has closed.
PoolsLast == pool = "ending" => listener = "closed"

ServerOK ==
  /\ pool \in {"none", "open", "ending"}
  /\ listener \in {"open", "closing", "closed"}
  /\ exit \in {"no", "clean", "failed"}

\* So does the process, unless it fails.
ExitLast == exit = "clean" => listener = "closed"

RequestsInv ==
  RequestsOK /\ AnsweredOnce /\ ClosedIsQuiet /\ PoolsLast /\ ExitLast /\ ServerOK

ApiInv == LimiterInv /\ RequestsInv

-----------------------------------------------------------------------------
LEMMA ArrivedFinite ==
  /\ IsFiniteSet(Arrived) /\ Cardinality(Arrived) \in Nat
  /\ Cardinality(Arrived) <= Cardinality(Requests)
<1>1. Arrived \in SUBSET Requests
  BY DEF Arrived
<1>. QED
  BY <1>1, ApiAssumption, FS_Subset, FS_CardinalityType

\* A number of whole seconds, rounded up, is enough.
LEMMA RoundedUp ==
  ASSUME NEW a \in Nat, NEW d \in Nat \ {0}
  PROVE  /\ (a + d - 1) \div d \in Nat
         /\ ((a + d - 1) \div d) * d >= a
OBVIOUS

\* What happens to request r, whoever waits for it.
Moves(r) ==
  /\ Answer(r) \/ \E what \in {"check", "body", "verify", "repository"} : WaitFor(r, what)
  /\ step[r] # "answered"
  /\ step[r] = "none" => listener # "closed"
  /\ route' \in [Requests -> Routes]
  /\ turnedAway' = turnedAway \/ (pool = "ending" /\ turnedAway' = turnedAway \cup {r})
  /\ listener' = listener /\ exit' = exit

LEMMA RequestMoves ==
  ASSUME RequestsInv, NEW r \in Requests, Moves(r), pool' \in {pool, Managed}
  PROVE  /\ RequestsInv'
         /\ Arrived' = Arrived \cup {r}
<1>. USE DEF RequestsInv
<1>1. /\ gone' = gone
      /\ \A q \in Requests \ {r} : step'[q] = step[q] /\ answers'[q] = answers[q]
      /\ \/ /\ step'[r] = "answered"
            /\ answers'[r] = IF r \in gone THEN answers[r] ELSE answers[r] + 1
         \/ /\ step'[r] \in {"check", "body", "verify", "repository"}
            /\ answers'[r] = answers[r]
      /\ step' \in [Requests -> {"none", "check", "body", "verify", "repository", "answered"}]
      /\ answers' \in [Requests -> Nat]
  BY DEF Moves, Answer, WaitFor, RequestsOK
<1>2. answers[r] = 0 /\ AnsweredOnce'
  BY <1>1 DEF Moves, RequestsOK, AnsweredOnce
<1>3. RequestsOK'
  <2>1. pool = "ending" => r \in gone
    BY DEF Moves, RequestsOK, PoolsLast, ClosedIsQuiet, NoConnections, Waiting
  <2>2. turnedAway' \subseteq gone'
    BY <1>1, <2>1 DEF Moves, RequestsOK
  <2>. QED
    BY <1>1, <1>2, <2>2 DEF Moves, RequestsOK
<1>4. ClosedIsQuiet'
  BY <1>1 DEF Moves, RequestsOK, ClosedIsQuiet, NoConnections, Waiting
<1>5. ServerOK' /\ PoolsLast' /\ ExitLast'
  BY DEF Moves, ServerOK, PoolsLast, ExitLast, Managed
<1>6. Arrived' = Arrived \cup {r}
  BY <1>1 DEF Arrived
<1>. QED
  BY <1>2, <1>3, <1>4, <1>5, <1>6

\* The limiter is left alone.
LEMMA LimiterStays ==
  ASSUME LimiterInv, UNCHANGED limiter, Cardinality(Arrived') >= Cardinality(Arrived),
         Cardinality(Arrived') \in Nat
  PROVE  LimiterInv'
BY ArrivedFinite DEF LimiterInv, BucketsOK, PromiseCoversWindow, HasBucket, limiter

LEMMA ArrivedGrows ==
  ASSUME NEW r \in Requests, Arrived' = Arrived \cup {r}
  PROVE  /\ Cardinality(Arrived') \in Nat /\ Cardinality(Arrived') >= Cardinality(Arrived)
         /\ r \notin Arrived => Cardinality(Arrived') = Cardinality(Arrived) + 1
BY ArrivedFinite, FS_AddElement

\* consumeRateLimit, for a request that arrives.
LEMMA ConsumeEffect ==
  ASSUME BucketsOK, NEW c \in Callers, buckets' = Consumed(c)
  PROVE  /\ buckets' \in [Callers -> [start : 0..MaxClock, count : Nat]]
         /\ \A d \in Callers \ {c} : buckets'[d] \in {buckets[d], NoBucket}
         /\ HasBucket(c) /\ ~WindowOver(c) =>
              buckets'[c].start = buckets[c].start /\ buckets'[c].count = buckets[c].count + 1
         /\ ~(HasBucket(c) /\ ~WindowOver(c)) =>
              buckets'[c].start = now /\ buckets'[c].count = 1
<1>. DEFINE B == [start : 0..MaxClock, count : Nat]
            again == [start |-> Purged[c].start, count |-> Purged[c].count + 1]
<1>1. NoBucket \in B
  BY ApiAssumption DEF NoBucket
<1>2. Purged \in [Callers -> B] /\ \A d \in Callers : Purged[d] \in {buckets[d], NoBucket}
  BY <1>1 DEF BucketsOK, Purged
<1>3. HasBucket(c) /\ ~WindowOver(c) => Purged[c] = buckets[c]
  BY DEF Purged, BucketsOK
<1>4. [start |-> now, count |-> 1] \in B
  BY DEF BucketsOK
<1>5. again \in B
  BY <1>2
<1>6. buckets' = [Purged EXCEPT ![c] = IF ~HasBucket(c) \/ WindowOver(c)
                                       THEN [start |-> now, count |-> 1]
                                       ELSE again]
  BY DEF Consumed
<1>7. /\ buckets' \in [Callers -> B]
      /\ \A d \in Callers \ {c} : buckets'[d] = Purged[d]
      /\ buckets'[c] = IF ~HasBucket(c) \/ WindowOver(c)
                       THEN [start |-> now, count |-> 1]
                       ELSE again
  BY <1>2, <1>4, <1>5, <1>6
<1>8. HasBucket(c) /\ ~WindowOver(c) =>
        /\ again.start = buckets[c].start
        /\ again.count = buckets[c].count + 1
  BY <1>3 DEF BucketsOK
<1>. QED
  BY <1>2, <1>7, <1>8

LEMMA ConsumeKeeps ==
  ASSUME LimiterInv, NEW c \in Callers, buckets' = Consumed(c), now' = now,
         Cardinality(Arrived') = Cardinality(Arrived) + 1,
         NEW p \in Nat, promised' = [promised EXCEPT ![c] = p],
         p # 0 => HasBucket(c) /\ ~WindowOver(c) /\ p >= buckets[c].start + RateWindow
  PROVE  LimiterInv'
<1>1. BucketsOK'
  <2>1. \A d \in Callers :
          buckets'[d].start <= now /\ buckets'[d].count <= Cardinality(Arrived')
    <3>. TAKE d \in Callers
    <3>1. buckets[d].start \in Nat /\ now \in Nat /\ buckets[d].count \in Nat
      BY DEF LimiterInv, BucketsOK
    <3>2. CASE d = c
      BY <3>1, <3>2, ConsumeEffect, ArrivedFinite DEF LimiterInv, BucketsOK
    <3>3. CASE d # c
      BY <3>1, <3>3, ConsumeEffect, ArrivedFinite DEF LimiterInv, BucketsOK, NoBucket
    <3>. QED
      BY <3>2, <3>3
  <2>2. promised' \in [Callers -> Nat]
    BY DEF LimiterInv, BucketsOK
  <2>. QED
    BY <2>1, <2>2, ConsumeEffect DEF LimiterInv, BucketsOK
<1>2. PromiseCoversWindow'
  <2>. SUFFICES ASSUME NEW d \in Callers, promised'[d] # 0, buckets'[d].count > 0
                PROVE  promised'[d] >= buckets'[d].start + RateWindow
    BY DEF PromiseCoversWindow, HasBucket
  <2>1. CASE d = c
    BY <2>1, ConsumeEffect DEF LimiterInv, BucketsOK
  <2>2. CASE d # c
    <3>1. buckets'[d] = buckets[d] /\ promised'[d] = promised[d]
      BY <2>2, ConsumeEffect DEF LimiterInv, BucketsOK, NoBucket
    <3>. QED
      BY <3>1 DEF LimiterInv, PromiseCoversWindow, HasBucket
  <2>. QED
    BY <2>1, <2>2
<1>. QED
  BY <1>1, <1>2 DEF LimiterInv

\* Retry-After reaches to the end of the window.
LEMMA RetryAfterCovers ==
  ASSUME BucketsOK, NEW c \in Callers, ~WindowOver(c)
  PROVE  /\ now + RetryAfter(c) * Second \in Nat
         /\ now + RetryAfter(c) * Second >= buckets[c].start + RateWindow
<1>. DEFINE left == RateWindow - (now - buckets[c].start)
            seconds == (left + Second - 1) \div Second
<1>1. now \in Nat /\ buckets[c].start \in Nat /\ Second \in Nat \ {0} /\ RateWindow \in Nat
  BY ApiAssumption DEF BucketsOK
<1>2. left \in Nat
  BY <1>1 DEF WindowOver
<1>3. seconds \in Nat /\ seconds * Second >= left
  <2>. HIDE DEF left
  <2>. QED
    BY <1>1, <1>2, RoundedUp
<1>4. RetryAfter(c) = IF seconds > 1 THEN seconds ELSE 1
  BY DEF RetryAfter
<1>5. /\ RetryAfter(c) * Second \in Nat
      /\ RetryAfter(c) * Second >= left
  <2>. HIDE DEF seconds, left
  <2>1. CASE seconds > 1
    BY <1>1, <1>2, <1>3, <1>4, <2>1
  <2>2. CASE seconds \in {0, 1}
    <3>1. seconds * Second <= Second
      BY <1>1, <2>2
    <3>. QED
      BY <1>1, <1>2, <1>3, <1>4, <2>2, <3>1
  <2>. QED
    BY <1>3, <2>1, <2>2
<1>. QED
  BY <1>1, <1>5

-----------------------------------------------------------------------------
\* A request arrives and is admitted.
LEMMA AdmittedStep ==
  ASSUME ApiInv, NEW r \in Requests, NEW c \in Callers, NEW taken \in Routes,
         Arrives(r, taken), Limited(c), pool' \in {pool, Managed}, UNCHANGED <<listener, exit>>,
         Answer(r) \/ \E what \in {"check", "body", "verify", "repository"} : WaitFor(r, what)
  PROVE  ApiInv'
<1>1. Moves(r)
  BY DEF Arrives, Moves, ApiInv, RequestsInv, RequestsOK
<1>2. RequestsInv' /\ Arrived' = Arrived \cup {r} /\ r \notin Arrived
  BY <1>1, RequestMoves DEF ApiInv, Arrives, Arrived
<1>3. Cardinality(Arrived') = Cardinality(Arrived) + 1
  BY <1>2, ArrivedGrows
<1>4. LimiterInv'
  BY <1>3, ConsumeKeeps DEF ApiInv, Limited
<1>. QED
  BY <1>2, <1>4 DEF ApiInv

LEMMA ApiStep ==
  ASSUME ApiInv, [ApiNext]_apiVars
  PROVE  ApiInv'
<1>. DEFINE Waits == {"check", "body", "verify", "repository"}
<1>a. ASSUME NEW r \in Requests, Moves(r), pool' \in {pool, Managed}, UNCHANGED limiter
      PROVE  ApiInv'
  BY <1>a, RequestMoves, ArrivedGrows, LimiterStays DEF ApiInv
<1>b. ASSUME UNCHANGED limiter, UNCHANGED step, RequestsInv'
      PROVE  ApiInv'
  <2>1. Arrived' = Arrived
    BY <1>b DEF Arrived
  <2>. QED
    BY <1>b, <2>1, LimiterStays, ArrivedFinite DEF ApiInv
<1>1. CASE Tick
  <2>1. /\ now \in Nat /\ now' = now + 1 /\ now' \in 0..MaxClock
        /\ UNCHANGED <<buckets, promised, requests, server>>
    BY <1>1, ApiAssumption DEF Tick, ApiInv, LimiterInv, BucketsOK
  <2>2. Arrived' = Arrived
    BY <2>1 DEF Arrived, requests
  <2>3. LimiterInv'
    BY <2>1, <2>2 DEF ApiInv, LimiterInv, BucketsOK, PromiseCoversWindow, HasBucket
  <2>4. RequestsInv'
    BY <2>1 DEF ApiInv, RequestsInv, RequestsOK, AnsweredOnce, ClosedIsQuiet, NoConnections,
                Waiting, PoolsLast, ExitLast, ServerOK, requests, server
  <2>. QED
    BY <2>3, <2>4 DEF ApiInv
<1>2. CASE Signal
  <2>1. RequestsInv'
    BY <1>2 DEF Signal, ApiInv, RequestsInv, RequestsOK, AnsweredOnce, ClosedIsQuiet,
                NoConnections, Waiting, PoolsLast, ExitLast, ServerOK, requests
  <2>. QED
    BY <1>2, <2>1, <1>b DEF Signal, requests
<1>3. CASE ListenerCloses
  <2>1. RequestsInv'
    BY <1>3 DEF ListenerCloses, ApiInv, RequestsInv, RequestsOK, AnsweredOnce, ClosedIsQuiet,
                NoConnections, Waiting, PoolsLast, ExitLast, ServerOK, requests
  <2>. QED
    BY <1>3, <2>1, <1>b DEF ListenerCloses, requests
<1>4. CASE ExitsCleanly
  <2>1. RequestsInv'
    BY <1>4 DEF ExitsCleanly, ApiInv, RequestsInv, RequestsOK, AnsweredOnce, ClosedIsQuiet,
                NoConnections, Waiting, PoolsLast, ExitLast, ServerOK, requests
  <2>. QED
    BY <1>4, <2>1, <1>b DEF ExitsCleanly, requests
<1>5. ASSUME NEW r \in Requests, ImmediateRoute(r) \/ ReadyRoute(r)
      PROVE  ApiInv'
  <2>1. Moves(r) /\ pool' = pool /\ UNCHANGED limiter
    BY <1>5 DEF ImmediateRoute, ReadyRoute, Arrives, Moves, Routes, server, ApiInv, RequestsInv,
                RequestsOK
  <2>. QED
    BY <2>1, <1>a
<1>6. ASSUME NEW r \in Requests, BodyEnds(r) \/ Verified(r) \/ Settles(r)
      PROVE  ApiInv'
  <2>1. Moves(r) /\ pool' \in {pool, Managed} /\ UNCHANGED limiter
    BY <1>6 DEF BodyEnds, Verified, Settles, Moves, server, ApiInv, RequestsInv, RequestsOK
  <2>. QED
    BY <2>1, <1>a
<1>7. ASSUME NEW r \in Requests, ClientLeaves(r)
      PROVE  ApiInv'
  <2>1. RequestsInv'
    BY <1>7 DEF ClientLeaves, ApiInv, RequestsInv, RequestsOK, AnsweredOnce, ClosedIsQuiet,
                NoConnections, Waiting, PoolsLast, ExitLast, ServerOK, server
  <2>. QED
    BY <1>7, <2>1, <1>b DEF ClientLeaves
<1>8. ASSUME NEW r \in Requests, NEW c \in Callers, RefuseLimited(r, c)
      PROVE  ApiInv'
  <2>1. /\ Arrives(r, "health") /\ "health" \in Routes /\ ~Admits(c) /\ Answer(r)
        /\ buckets' = Consumed(c)
        /\ promised' = [promised EXCEPT ![c] = now + RetryAfter(c) * Second]
        /\ now' = now /\ pool' = pool /\ listener' = listener /\ exit' = exit
    BY <1>8 DEF RefuseLimited, server, Routes
  <2>2. Moves(r)
    BY <2>1 DEF Arrives, Moves, ApiInv, RequestsInv, RequestsOK
  <2>3. RequestsInv' /\ Arrived' = Arrived \cup {r} /\ r \notin Arrived
    BY <2>1, <2>2, RequestMoves DEF ApiInv, Arrives, Arrived
  <2>4. Cardinality(Arrived') = Cardinality(Arrived) + 1
    BY <2>3, ArrivedGrows
  <2>5. HasBucket(c) /\ ~WindowOver(c)
    BY <2>1 DEF Admits
  <2>6. /\ now + RetryAfter(c) * Second \in Nat
        /\ now + RetryAfter(c) * Second >= buckets[c].start + RateWindow
    BY <2>5, RetryAfterCovers DEF ApiInv, LimiterInv
  <2>7. LimiterInv'
    BY <2>1, <2>4, <2>5, <2>6, ConsumeKeeps DEF ApiInv
  <2>. QED
    BY <2>3, <2>7 DEF ApiInv
<1>9. ASSUME NEW r \in Requests, NEW c \in Callers,
             \/ TokenRoute(r, c) \/ DevTokenRoute(r, c) \/ RealtimeTokenRoute(r, c)
             \/ ExchangeRoute(r, c)
      PROVE  ApiInv'
  <2>1. PICK taken \in Routes : Arrives(r, taken)
    BY <1>9 DEF TokenRoute, DevTokenRoute, RealtimeTokenRoute, ExchangeRoute, Routes
  <2>2. /\ Limited(c) /\ pool' = pool /\ UNCHANGED <<listener, exit>>
        /\ Answer(r) \/ \E what \in Waits : WaitFor(r, what)
    BY <1>9 DEF TokenRoute, DevTokenRoute, RealtimeTokenRoute, ExchangeRoute, server
  <2>. QED
    BY <2>1, <2>2, AdmittedStep
<1>10. ASSUME NEW r \in Requests, NEW c \in Callers,
              MembershipRoute(r, c) \/ KnowledgeRoute(r, c) \/ MeetingRoute(r, c)
       PROVE  ApiInv'
  <2>1. PICK taken \in Routes : Arrives(r, taken)
    BY <1>10 DEF MembershipRoute, KnowledgeRoute, MeetingRoute, Routes
  <2>2. /\ Limited(c) /\ pool' = Managed /\ UNCHANGED <<listener, exit>>
        /\ Answer(r) \/ \E what \in Waits : WaitFor(r, what)
    BY <1>10 DEF MembershipRoute, KnowledgeRoute, MeetingRoute
  <2>. QED
    BY <2>1, <2>2, AdmittedStep
<1>11. CASE UNCHANGED apiVars
  <2>1. RequestsInv'
    BY <1>11 DEF apiVars, ApiInv, RequestsInv, RequestsOK, AnsweredOnce, ClosedIsQuiet,
                 NoConnections, Waiting, PoolsLast, ExitLast, ServerOK
  <2>. QED
    BY <1>11, <2>1, <1>b DEF apiVars, limiter
<1>. QED
  BY <1>1, <1>2, <1>3, <1>4, <1>5, <1>6, <1>7, <1>8, <1>9, <1>10, <1>11 DEF ApiNext

\* The initial states satisfy the invariant.
LEMMA ApiStart == ASSUME ApiInit PROVE ApiInv
<1>1. LimiterInv
  BY ArrivedFinite, ApiAssumption
  DEF ApiInit, LimiterInv, BucketsOK, PromiseCoversWindow, NoBucket
<1>2. RequestsInv
  BY DEF ApiInit, RequestsInv, RequestsOK, AnsweredOnce, ClosedIsQuiet, PoolsLast,
         ExitLast, ServerOK, Routes
<1>. QED
  BY <1>1, <1>2 DEF ApiInv

LEMMA ApiInductive == ApiSpec => []ApiInv
BY ApiStart, ApiStep, PTL DEF ApiSpec

\* The invariant says the range of every variable.
LEMMA ApiTyped == ASSUME ApiInv PROVE ApiTypeOK
<1>1. buckets \in [Callers -> [start : 0..MaxClock, count : 0..Cardinality(Requests)]]
  <2>. SUFFICES ASSUME NEW c \in Callers
                PROVE  buckets[c] \in [start : 0..MaxClock, count : 0..Cardinality(Requests)]
    BY DEF ApiInv, LimiterInv, BucketsOK
  <2>1. Cardinality(Requests) \in Nat
    BY ApiAssumption, FS_CardinalityType
  <2>2. buckets[c].count \in 0..Cardinality(Requests)
    BY <2>1, ArrivedFinite DEF ApiInv, LimiterInv, BucketsOK
  <2>. QED
    BY <2>2 DEF ApiInv, LimiterInv, BucketsOK
<1>. QED
  BY <1>1 DEF ApiInv, LimiterInv, BucketsOK, RequestsInv, RequestsOK, ServerOK, ApiTypeOK

\* Every variable of the HTTP server stays in its range: no request is answered twice, and
\* no caller has consumed more of its limit than it has sent requests.
THEOREM ApiTypeCorrect == ApiSpec => []ApiTypeOK
BY ApiInductive, ApiTyped, PTL

\* Who waits as long as Retry-After said is admitted, for every window and limit.
THEOREM RetryAfterHolds == ApiSpec => []RetryAfterHonoured
<1>1. ApiInv => RetryAfterHonoured
  <2>. SUFFICES ASSUME ApiInv, NEW c \in Callers, promised[c] # 0, now >= promised[c]
                PROVE  Admits(c)
    BY DEF RetryAfterHonoured
  <2>1. HasBucket(c) => promised[c] >= buckets[c].start + RateWindow
    BY DEF ApiInv, LimiterInv, PromiseCoversWindow
  <2>2. promised[c] \in Nat /\ now \in Nat /\ buckets[c].start \in Nat /\ RateWindow \in Nat
    BY ApiAssumption DEF ApiInv, LimiterInv, BucketsOK
  <2>. QED
    BY <2>1, <2>2 DEF Admits, WindowOver
<1>. QED
  BY <1>1, ApiInductive, PTL

\* No client that waits is refused because the pools end, for any number of requests and
\* wherever between their awaits the signal falls: only what a client has left behind is.
\* The process ends without an error only after the others were answered.
THEOREM NoneTurnedAwayHolds == ApiSpec => []NoneTurnedAway
<1>1. ApiInv => NoneTurnedAway
  BY DEF ApiInv, RequestsInv, RequestsOK, ClosedIsQuiet, NoConnections, ExitLast, Waiting,
         NoneTurnedAway
<1>. QED
  BY <1>1, ApiInductive, PTL
=============================================================================
