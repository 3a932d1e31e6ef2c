------------------------ MODULE MCRealtimeSessions ------------------------
(* Instances of RealtimeSessions for TLC. *)
EXTENDS RealtimeSessions, TLC

CONSTANTS c1, c2, s1, s2, u1, u2, w1, w2, i1, i2

\* Two users share a workspace; the first is also a member of another one.
MCMembers == {<<u1, w1>>, <<u2, w1>>, <<u1, w2>>}
OneMember == {<<u1, w1>>}

TwoByTwo == Permutations({c1, c2}) \cup Permutations({s1, s2}) \cup Permutations({i1, i2})
=============================================================================
