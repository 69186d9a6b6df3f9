--------------------------- MODULE MCConnections ---------------------------
(* Connections on small sets of interchangeable requests. *)
EXTENDS Connections, TLC

\* No action tells one nonce, callback request, call, mailbox or key from
\* another.
Symmetry ==
  Permutations(Nonces) \cup Permutations(Callbacks)
    \cup Permutations(Calls) \cup Permutations(Emails)
    \cup Permutations(Keys)
=============================================================================
