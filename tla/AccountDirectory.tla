-------------------------- MODULE AccountDirectory --------------------------
(***************************************************************************)
(* What connecting accounts promises to the tools: a directory from        *)
(* mailbox addresses to consents that only the two admin operations        *)
(* change and that outlives the server, and calls that serve the mailbox   *)
(* under the consent that was in force when they began.  Nothing is said   *)
(* of nonces, caches, files, processes or awaits.  A copy can be taken of  *)
(* the directory, and where the directory can be lost, which is a          *)
(* parameter, the copy takes its place as a whole.                         *)
(***************************************************************************)
EXTENDS Naturals

CONSTANTS
  Emails, Calls, Consents, NoConsent,
  Losable  \* the directory may be lost

VARIABLES
  directory,  \* the consent in force for each address
  copy,       \* the copy last taken of it, empty if there is none
  spent,      \* consents that have been entered in it
  serving     \* the consent each tool call works under

vars == <<directory, copy, spent, serving>>

Nobody == [e \in Emails |-> NoConsent]

Init ==
  /\ directory = Nobody
  /\ copy = Nobody
  /\ spent = {}
  /\ serving = [c \in Calls |-> NoConsent]

\* A consent is entered for its owner's address, and only once.
Connect(e, t) ==
  /\ t.owner = e
  /\ t \notin spent
  /\ directory' = [directory EXCEPT ![e] = t]
  /\ spent' = spent \cup {t}
  /\ UNCHANGED <<copy, serving>>

Disconnect(e) ==
  /\ directory[e] # NoConsent
  /\ directory' = [directory EXCEPT ![e] = NoConsent]
  /\ UNCHANGED <<copy, spent, serving>>

\* The copy is taken again, or thrown away.
Copy ==
  /\ copy' \in {directory, Nobody}
  /\ UNCHANGED <<directory, spent, serving>>

Acquire(c, e) ==
  /\ serving[c] = NoConsent
  /\ directory[e] # NoConsent
  /\ serving' = [serving EXCEPT ![c] = directory[e]]
  /\ UNCHANGED <<directory, copy, spent>>

Release(c) ==
  /\ serving[c] # NoConsent
  /\ serving' = [serving EXCEPT ![c] = NoConsent]
  /\ UNCHANGED <<directory, copy, spent>>

\* The server stops: its calls end, the directory stays.
Stop ==
  /\ serving' = [c \in Calls |-> NoConsent]
  /\ UNCHANGED <<directory, copy, spent>>

\* It stops and loses the directory: the copy is what is left, all of it.
Lose ==
  /\ Losable
  /\ directory' = copy
  /\ serving' = [c \in Calls |-> NoConsent]
  /\ UNCHANGED <<copy, spent>>

Next ==
  \/ \E e \in Emails, t \in Consents : Connect(e, t)
  \/ \E e \in Emails : Disconnect(e)
  \/ Copy
  \/ \E c \in Calls, e \in Emails : Acquire(c, e)
  \/ \E c \in Calls : Release(c)
  \/ Stop
  \/ Lose

Spec == Init /\ [][Next]_vars
=============================================================================
