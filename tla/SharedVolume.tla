---------------------------- MODULE SharedVolume ----------------------------
(***************************************************************************)
(* Several server processes over one DATA_DIR, the README's "Horizontal    *)
(* scaling only needs a shared data/ volume".  Each process is a           *)
(* TokenStore: it reads accounts.json once, in its constructor, and writes *)
(* its whole map over the file on every change.  The disk and the keys are *)
(* sound here; the faults of one store are TokenStore's subject.           *)
(***************************************************************************)
EXTENDS Naturals

CONSTANTS
  Replicas,   \* server processes, each served any request
  Emails,     \* mailbox addresses
  NoAccount,  \* no entry
  MaxGrants   \* bound: consents given

VARIABLES
  up,        \* per replica: it is running
  accounts,  \* per replica: TokenStore.accounts, consent numbers by address
  file,      \* the shared accounts.json
  grants,    \* consents given so far
  wanted     \* history: the accounts as the admins' requests, in order, left them

vars == <<up, accounts, file, grants, wanted>>

Book == [Emails -> (1 .. MaxGrants) \cup {NoAccount}]
EmptyBook == [e \in Emails |-> NoAccount]

Init ==
  /\ up = [r \in Replicas |-> FALSE]
  /\ accounts = [r \in Replicas |-> EmptyBook]
  /\ file = EmptyBook
  /\ grants = 0
  /\ wanted = EmptyBook

-----------------------------------------------------------------------------
\* A file that is absent loads like an empty one.
Start(r) ==
  /\ ~up[r]
  /\ up' = [up EXCEPT ![r] = TRUE]
  /\ accounts' = [accounts EXCEPT ![r] = file]
  /\ UNCHANGED <<file, grants, wanted>>

Stop(r) ==
  /\ up[r]
  /\ up' = [up EXCEPT ![r] = FALSE]
  /\ accounts' = [accounts EXCEPT ![r] = EmptyBook]
  /\ UNCHANGED <<file, grants, wanted>>

addAccount(r, e) ==
  /\ up[r]
  /\ grants < MaxGrants
  /\ grants' = grants + 1
  /\ accounts' = [accounts EXCEPT ![r][e] = grants + 1]
  /\ file' = accounts'[r]
  /\ wanted' = [wanted EXCEPT ![e] = grants + 1]
  /\ UNCHANGED up

removeAccount(r, e) ==
  /\ up[r]
  /\ accounts[r][e] # NoAccount
  /\ accounts' = [accounts EXCEPT ![r][e] = NoAccount]
  /\ file' = accounts'[r]
  /\ wanted' = [wanted EXCEPT ![e] = NoAccount]
  /\ UNCHANGED <<up, grants>>

Next ==
  \/ \E r \in Replicas : Start(r) \/ Stop(r)
  \/ \E r \in Replicas, e \in Emails : addAccount(r, e) \/ removeAccount(r, e)

Spec == Init /\ [][Next]_vars

-----------------------------------------------------------------------------
\* The README: "Horizontal scaling only needs a shared data/ volume."  The
\* volume then holds what the admins' requests made of it, whichever replica
\* served them.  It does not: a replica writes back a map it read before the
\* other's change.
VolumeIsWhatAdminsWanted == file = wanted

=============================================================================
