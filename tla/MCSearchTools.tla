--------------------------- MODULE MCSearchTools ---------------------------
(* SearchTools with a mailbox of two chunks and one of a single message,   *)
(* and perhaps a snapshot that has the first of them.                      *)
EXTENDS SearchTools

CONSTANTS alice, bob, m1, m2, m3, m4, k1

TwoMailboxes == [m \in {m1, m2, m3, m4} |-> IF m = m4 THEN bob ELSE alice]

OneOrNone ==
  {Absent, [e \in Emails |->
              IF e = alice THEN [key |-> k1, token |-> [owner |-> e, id |-> 1]] ELSE NoAccount]}
=============================================================================
