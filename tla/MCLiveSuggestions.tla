-------------------------- MODULE MCLiveSuggestions --------------------------
(* An instance of LiveSuggestions for TLC. *)
EXTENDS LiveSuggestions

CONSTANTS s1, r1, r2, r3, w1, w2
=============================================================================
