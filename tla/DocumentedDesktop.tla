-------------------------- MODULE DocumentedDesktop --------------------------
(* What the documents say of the desktop. *)
EXTENDS DesktopSession

\* "Retry with exponential backoff: 1s, 2s, 4s, 8s, up to 30s.": a client that has lost its
\* connection does not give up a session that the server would resume for it.
DropIsRetried ==
  status = "closed" /\ resuming
    => ~(session.state \in {"active", "disconnected"} /\ session.owner = own)
=============================================================================
