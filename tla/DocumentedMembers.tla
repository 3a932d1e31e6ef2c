-------------------------- MODULE DocumentedMembers --------------------------
(***************************************************************************)
(* What docs/testing/property-catalogs/membership-mutations.md says of the *)
(* members of a workspace, and the PostgreSQL repository does not keep.    *)
(***************************************************************************)
EXTENDS Memberships

\* "An accepted mutation never reduces the workspace owner count below one": once the
\* founder signed in, the workspace has an owner.  A transaction that waits for its rows
\* does not see a membership that was inserted meanwhile, and overwrites it.
OwnerRemains == Founder \in signedUp => Owners # {}
=============================================================================
