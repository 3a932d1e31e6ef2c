----------------------------- MODULE Memberships -----------------------------
(***************************************************************************)
(* The members of one workspace: provider sign-in and the membership       *)
(* routes of services/api, over PgIdentityRepository.                      *)
(*                                                                         *)
(* Each mutation is a PostgreSQL transaction at READ COMMITTED.  Its       *)
(* SELECT ... ORDER BY user_id FOR UPDATE sees the rows that were committed*)
(* when it began, locks them one at a time in the order of their users,    *)
(* waits for whoever holds a row, and then reads the row as it is by now,  *)
(* or passes over it if it was deleted.  A row that was inserted since is  *)
(* not seen, and nothing says who gets a row that two wait for.  Aborts at *)
(* any time stand for deadlocks and lost connections.                      *)
(*                                                                         *)
(* The in-memory repository takes the same decision in one step.           *)
(***************************************************************************)
EXTENDS Naturals, Sequences

CONSTANTS
  MaxUser,       \* users, ordered like their identifiers
  Founder,       \* the user whose first sign-in creates the workspace
  MaxMutations   \* bound: mutations that are requested

ASSUME MembershipAssumption ==
  /\ MaxUser \in Nat /\ MaxMutations \in Nat
  /\ Founder \in 1..MaxUser

Users == 1..MaxUser

Roles == {"member", "admin", "owner"}

Managers == {"admin", "owner"}

VARIABLES
  rows,       \* workspace_memberships: the row of each user
  signedUp,   \* users with a row in user_provider_identities
  claims,     \* the role in the API token of each user
  mutations,  \* the transactions, in the order they began
  audits,     \* rows of audit_logs
  overlooked  \* history: a mutation changed a row that it had not seen

memberVars == <<rows, signedUp, claims, mutations, audits, overlooked>>

\* by: the mutation that inserted the row, 0 for a first sign-in.
Row(role, by) == [role |-> role, by |-> by]

NoRow == Row("none", 0)

\* role: the role to set, or none to delete the membership.
Mutation == [step : {"locking", "over"}, actor : Users, target : Users, role : Roles \cup {"none"},
             seen : [Users -> [role : Roles \cup {"none"}, by : Nat]],
             toLock : SUBSET Users, found : [Users -> Roles \cup {"none"}]]

MembershipInit ==
  /\ rows = [u \in Users |-> NoRow]
  /\ signedUp = {}
  /\ claims = [u \in Users |-> "none"]
  /\ mutations = <<>>
  /\ audits = 0
  /\ overlooked = FALSE

-----------------------------------------------------------------------------
\* /v1/auth/provider/exchange: resolveProviderIdentity, and a token with the roles of
\* the moment.  Whoever signs in for the first time becomes the owner of a workspace,
\* which is this one for the founder; a second first sign-in at the same time fails on
\* the identity that the other inserted.
SignIn(u) ==
  /\ rows' = IF u = Founder /\ u \notin signedUp /\ rows[u] = NoRow
             THEN [rows EXCEPT ![u] = Row("owner", 0)]
             ELSE rows
  /\ signedUp' = signedUp \cup {u}
  /\ claims' = [claims EXCEPT ![u] = rows'[u].role]
  /\ UNCHANGED <<mutations, audits, overlooked>>

\* The route admits a token that says admin or owner, and the transaction's SELECT begins.
Request(actor, target, role) ==
  /\ Len(mutations) < MaxMutations
  /\ claims[actor] \in Managers
  /\ mutations' = Append(mutations,
       [step |-> "locking", actor |-> actor, target |-> target, role |-> role,
        seen |-> rows, toLock |-> {u \in Users : rows[u] # NoRow},
        found |-> [u \in Users |-> "none"]])
  /\ UNCHANGED <<rows, signedUp, claims, audits, overlooked>>

Active(r) == r \in 1..Len(mutations) /\ mutations[r].step = "locking"

Locks(r, u) ==
  /\ Active(r) /\ u \notin mutations[r].toLock
  /\ mutations[r].found[u] # "none"

\* Mutant: SELECT without FOR UPDATE.
NeverLocked(r, u) == FALSE

\* Another transaction holds the row of u.
LockedAgainst(r, u) == \E other \in 1..Len(mutations) \ {r} : Locks(other, u)

\* A row that was waited for is read again.
Reread(r, u) == rows[u].role

\* The next row of the SELECT.
LockRow(r, u) ==
  /\ Active(r)
  /\ u \in mutations[r].toLock
  /\ \A other \in mutations[r].toLock : u <= other
  /\ IF rows[u] # NoRow /\ rows[u].by = mutations[r].seen[u].by
     THEN /\ ~LockedAgainst(r, u)
          /\ mutations' = [mutations EXCEPT ![r].toLock = @ \ {u}, ![r].found[u] = Reread(r, u)]
     ELSE mutations' = [mutations EXCEPT ![r].toLock = @ \ {u}]
  /\ UNCHANGED <<rows, signedUp, claims, audits, overlooked>>

\* Mutant: one owner may be too few.
AllowedLastOwner(m) ==
  /\ m.found[m.actor] \in Managers
  /\ "owner" \in {m.found[m.target], m.role} => m.found[m.actor] = "owner"

\* assertMembershipMutationAllowed
Allowed(m) ==
  /\ m.found[m.actor] \in Managers
  /\ "owner" \in {m.found[m.target], m.role} => m.found[m.actor] = "owner"
  /\ m.found[m.target] = "owner" /\ m.role # "owner"
     => \E u \in Users \ {m.target} : m.found[u] = "owner"

Over == [step |-> "over", actor |-> Founder, target |-> Founder, role |-> "none",
         seen |-> [u \in Users |-> NoRow], toLock |-> {}, found |-> [u \in Users |-> "none"]]

\* What both mutations do before they write, and the commit.
Commits(r) ==
  /\ Active(r)
  /\ LET m == mutations[r] IN
       /\ m.toLock = {}
       /\ Allowed(m)
       /\ ~LockedAgainst(r, m.target)
       /\ overlooked' = (overlooked \/ (rows[m.target] # NoRow /\ m.found[m.target] = "none"))
  /\ mutations' = [mutations EXCEPT ![r] = Over]
  /\ UNCHANGED <<signedUp, claims>>

\* INSERT ... ON CONFLICT DO UPDATE, and the audit record.
UpsertMembership(r) ==
  /\ Commits(r)
  /\ LET m == mutations[r] IN
       /\ m.role # "none"
       /\ rows' = [rows EXCEPT ![m.target] = Row(m.role, IF @ = NoRow THEN r ELSE @.by)]
  /\ audits' = audits + 1

\* A DELETE that finds no row is not audited.
DeleteMembership(r) ==
  /\ Commits(r)
  /\ LET m == mutations[r] IN
       /\ m.role = "none"
       /\ rows' = [rows EXCEPT ![m.target] = NoRow]
       /\ audits' = IF rows[m.target] = NoRow THEN audits ELSE audits + 1

\* MembershipMutationError, or an abort.
Refuse(r) ==
  /\ Active(r)
  /\ mutations' = [mutations EXCEPT ![r] = Over]
  /\ UNCHANGED <<rows, signedUp, claims, audits, overlooked>>

-----------------------------------------------------------------------------
MembershipNext ==
  \/ \E u \in Users : SignIn(u)
  \/ \E actor, target \in Users, role \in Roles \cup {"none"} : Request(actor, target, role)
  \/ \E r \in 1..MaxMutations :
       \/ \E u \in Users : LockRow(r, u)
       \/ UpsertMembership(r) \/ DeleteMembership(r) \/ Refuse(r)

MembershipSpec == MembershipInit /\ [][MembershipNext]_memberVars

-----------------------------------------------------------------------------
(* Properties *)

Owners == {u \in Users : rows[u].role = "owner"}

\* Every variable stays in its range.
MembershipTypeOK ==
  /\ rows \in [Users -> [role : Roles \cup {"none"}, by : 0..MaxMutations]]
  /\ signedUp \subseteq Users
  /\ claims \in [Users -> Roles \cup {"none"}]
  /\ Len(mutations) <= MaxMutations
  /\ \A r \in 1..Len(mutations) : mutations[r] \in Mutation
  /\ audits \in 0..Len(mutations)
  /\ overlooked \in BOOLEAN

\* Whoever changes a membership manages the workspace at the commit, whatever the token
\* says and whatever others did while the transaction waited for its rows; and is an
\* owner if the membership is or becomes an owner's, unless it was added meanwhile.
AuthorizedNow ==
  [][\A r \in 1..Len(mutations) :
       audits' # audits /\ mutations[r].step = "locking" /\ mutations'[r].step = "over"
       => LET m == mutations[r] IN
          /\ rows[m.actor].role \in Managers
          /\ "owner" \in {rows[m.target].role, m.role} /\ ~overlooked'
             => rows[m.actor].role = "owner"]_memberVars

\* The workspace keeps an owner, through competing demotions, removals and departures,
\* as long as no transaction changes a membership that was added while it waited.
LastOwner == Founder \in signedUp /\ ~overlooked => Owners # {}
=============================================================================
