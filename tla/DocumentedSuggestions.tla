------------------------ MODULE DocumentedSuggestions ------------------------
(* What the property catalog of live suggestions says of the session limit,  *)
(* where the ledger of usage-ledger.ts does otherwise.                       *)
EXTENDS MCLiveSuggestions

\* "A priced request cannot start when current session cost plus its worst-case
\* cost exceeds the hard limit": what the provider was paid so far leaves room for
\* the worst case whenever it is called.
StartsWithinLimit ==
  [][\A s \in Sessions : submitted'[s] > submitted[s] => spent[s] + MaxCost <= Limit]_vars
=============================================================================
