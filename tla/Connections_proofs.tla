------------------------- MODULE Connections_proofs -------------------------
(***************************************************************************)
(* The client cache is coherent, mailboxes are isolated, a nonce is single *)
(* use and a consent has one client, for any number of mailboxes, nonces,  *)
(* callbacks and calls, any keys and disk faults; and on a disk that does  *)
(* what it is told the system implements AccountDirectory.                 *)
(***************************************************************************)
EXTENDS Connections, TokenStore_proofs, TLAPS

-----------------------------------------------------------------------------
(* Type correctness.  A callback past getToken holds a token. *)

TokenHeld == \A b \in Callbacks : cb[b].pc = "userinfo" => cb[b].token # NoToken

TypeInv == TypeOK /\ TokenHeld

LEMMA TypeInit == Init => TypeInv
<1> SUFFICES ASSUME Init PROVE TypeInv
  OBVIOUS
<1> USE DEF Init
<1>1. StoreTypeOK
  BY EmptyBookIsBook DEF StoreInit, StoreTypeOK
<1>2. Never \in Nat
  BY NaturalBounds DEF Never
<1>3. cb \in [Callbacks -> [pc : {"idle", "getToken", "userinfo"},
                            nonce : Nonces \cup {NoNonce},
                            token : Token \cup {NoToken}]]
  BY DEF IdleCallback
<1>4. call \in [Calls -> [pc : {"idle", "getAccessToken", "gmail"},
                          email : Emails \cup {NoAccount},
                          token : Token \cup {NoToken}]]
  BY DEF IdleCall
<1>5. now \in 0 .. MaxTime /\ grants \in 0 .. MaxGrants /\ snapshot \in Book \cup {Absent}
  BY NaturalBounds, MaxGrantsIsNat
<1>6. /\ pending \in [Nonces -> Nat] /\ issued \in [Nonces -> Nat]
      /\ accepted \in [Nonces -> Nat] /\ built \in [Grants -> Nat]
      /\ clients \in [Emails -> Token \cup {NoToken}] /\ stored \subseteq Token
  BY <1>2
<1> QED BY <1>1, <1>3, <1>4, <1>5, <1>6 DEF TypeInv, TypeOK, TokenHeld, IdleCallback

LEMMA ForgetRequestsType ==
  ASSUME TypeInv, ForgetRequests, StoreTypeOK'
  PROVE  TypeInv'
<1>1. Never \in Nat
  BY NaturalBounds DEF Never
<1> QED BY <1>1 DEF TypeInv, TypeOK, TokenHeld, ForgetRequests, IdleCallback, IdleCall

LEMMA TypeStep == TypeInv /\ [Next]_vars => TypeInv'
<1> SUFFICES ASSUME TypeInv, [Next]_vars PROVE TypeInv'
  OBVIOUS
<1> USE DEF TypeInv, TypeOK, TokenHeld, flowVars, callVars
<1>0. Never \in Nat /\ now \in Nat /\ grants \in Nat
  BY NaturalBounds DEF Never
<1>s. ASSUME UNCHANGED storeVars PROVE StoreTypeOK'
  BY <1>s DEF storeVars, StoreTypeOK
<1>1. CASE UNCHANGED vars
  BY <1>1, <1>s DEF vars
<1>2. ASSUME NEW n \in Nonces, OAuthStart(n) PROVE TypeInv'
  <2>1. pending' \in [Nonces -> Nat] /\ issued' \in [Nonces -> Nat]
    BY <1>0, <1>2, NaturalBounds DEF OAuthStart
  <2> QED BY <1>2, <1>s, <2>1 DEF OAuthStart
<1>3. ASSUME NEW n \in Nonces, WasteNonce(n) PROVE TypeInv'
  BY <1>0, <1>3, <1>s DEF WasteNonce
<1>4. ASSUME NEW b \in Callbacks, NEW n \in Nonces, AcceptCallback(b, n) PROVE TypeInv'
  BY <1>0, <1>4, <1>s DEF AcceptCallback
<1>5. ASSUME NEW b \in Callbacks, NEW e \in Emails, TokenReceived(b, e) PROVE TypeInv'
  <2>1. grants + 1 \in Grants /\ grants' \in 0 .. MaxGrants
    BY <1>5, MaxGrantsIsNat DEF TokenReceived, Grants
  <2>2. [owner |-> e, id |-> grants + 1] \in Token
    BY <2>1 DEF Token, Grants
  <2>3. NoToken \notin Token
    BY SentinelsApart DEF Token, Grants
  <2>4. /\ cb' \in [Callbacks -> [pc : {"idle", "getToken", "userinfo"},
                                 nonce : Nonces \cup {NoNonce},
                                 token : Token \cup {NoToken}]]
        /\ TokenHeld'
    BY <1>5, <2>2, <2>3 DEF TokenReceived
  <2> QED BY <1>5, <1>s, <2>1, <2>4 DEF TokenReceived
<1>6. ASSUME NEW b \in Callbacks, StoreAccount(b) PROVE TypeInv'
  <2>1. cb[b].token \in Token
    BY <1>6 DEF StoreAccount
  <2>2. cb[b].token \in Token /\ cb[b].token.owner \in Emails
    BY <2>1 DEF Token, Grants
  <2>3. StoreTypeOK'
    BY <1>6, <2>2, AddAccountType DEF StoreAccount
  <2>4. cb' \in [Callbacks -> [pc : {"idle", "getToken", "userinfo"},
                               nonce : Nonces \cup {NoNonce},
                               token : Token \cup {NoToken}]] /\ TokenHeld'
    BY <1>6 DEF StoreAccount, IdleCallback
  <2> QED BY <1>6, <2>1, <2>3, <2>4 DEF StoreAccount
<1>7. ASSUME NEW b \in Callbacks, CallbackFails(b) PROVE TypeInv'
  BY <1>7, <1>s DEF CallbackFails, IdleCallback
<1>8. ASSUME NEW e \in Emails, RemoveAccount(e) PROVE TypeInv'
  BY <1>8, RemoveAccountType DEF RemoveAccount
<1>9. ASSUME NEW c \in Calls, NEW e \in Emails, getGmailService(c, e) PROVE TypeInv'
  <2>1. getRefreshToken(e) \in Token
    BY <1>9, RefreshTokenType DEF getGmailService
  <2>2. clients' \in [Emails -> Token \cup {NoToken}] /\ clients'[e] \in Token
    BY <1>9, <2>1 DEF getGmailService
  <2>3. built' \in [Grants -> Nat]
    BY <1>9 DEF getGmailService
  <2>4. call' \in [Calls -> [pc : {"idle", "getAccessToken", "gmail"},
                            email : Emails \cup {NoAccount},
                            token : Token \cup {NoToken}]]
    BY <1>9, <2>2 DEF getGmailService
  <2> QED BY <1>9, <1>s, <2>2, <2>3, <2>4 DEF getGmailService
<1>10. ASSUME NEW c \in Calls, AccessTokenReceived(c) \/ CallEnds(c) PROVE TypeInv'
  <2>1. call' \in [Calls -> [pc : {"idle", "getAccessToken", "gmail"},
                            email : Emails \cup {NoAccount},
                            token : Token \cup {NoToken}]]
    BY <1>10 DEF AccessTokenReceived, CallEnds, IdleCall
  <2>2. UNCHANGED <<storeVars, flowVars, clients, built, now, snapshot, grants, stored>>
    BY <1>10 DEF AccessTokenReceived, CallEnds
  <2> QED BY <1>s, <2>1, <2>2
<1>11. CASE Tick
  BY <1>11, <1>s, NaturalBounds DEF Tick
<1>12. CASE Crash \/ CrashInSave
  BY <1>12, CrashType, ForgetRequestsType DEF Crash, CrashInSave
<1>13. ASSUME NEW k \in Keys, Restart(k) PROVE TypeInv'
  <2>1. snapshot \in Book \cup {Absent, Corrupt}
    OBVIOUS
  <2>2. StoreTypeOK'
    BY <1>13, <2>1, StartType DEF Restart
  <2> QED BY <1>13, <2>2 DEF Restart
<1>14. CASE SetTokensData
  BY <1>14, <1>s DEF SetTokensData, StoreTypeOK
<1>15. CASE LoseVolume
  BY <1>15 DEF LoseVolume, loseVolume, StoreTypeOK
<1> QED
  BY <1>1, <1>2, <1>3, <1>4, <1>5, <1>6, <1>7, <1>8, <1>9, <1>10, <1>11, <1>12, <1>13,
     <1>14, <1>15
  DEF Next

\* Type correctness.
THEOREM TypeCorrect == Spec => []TypeOK
<1>1. TypeInv => TypeOK
  BY DEF TypeInv
<1> QED BY <1>1, TypeInit, TypeStep, PTL DEF Spec

-----------------------------------------------------------------------------
(* The store under the flow: every step of a request, of a tool call or of *)
(* the process is an operation of the store or leaves it alone.            *)

LEMMA StoreStep == TypeInv /\ [Next]_vars => [StoreNext]_storeVars
<1> SUFFICES ASSUME TypeInv, [Next]_vars, ~UNCHANGED storeVars PROVE StoreNext
  OBVIOUS
<1>1. ASSUME NEW b \in Callbacks, StoreAccount(b) PROVE StoreNext
  <2>1. cb[b].token \in Token
    BY <1>1 DEF StoreAccount, TypeInv, TypeOK, TokenHeld
  <2> QED BY <1>1, <2>1 DEF StoreAccount, StoreNext
<1>2. ASSUME NEW e \in Emails, RemoveAccount(e) PROVE StoreNext
  BY <1>2 DEF RemoveAccount, StoreNext
<1>3. CASE Crash \/ CrashInSave
  BY <1>3 DEF Crash, CrashInSave, StoreNext
<1>4. ASSUME NEW k \in Keys, Restart(k) PROVE StoreNext
  <2>1. snapshot \in Book \cup {Absent, Corrupt}
    BY DEF TypeInv, TypeOK
  <2> QED BY <1>4, <2>1 DEF Restart, StoreNext
<1>5. CASE LoseVolume
  BY <1>5 DEF LoseVolume, StoreNext
<1> QED
  BY <1>1, <1>2, <1>3, <1>4, <1>5
  DEF Next, vars, storeVars, SetTokensData, OAuthStart, WasteNonce, AcceptCallback, TokenReceived, CallbackFails,
      getGmailService, AccessTokenReceived, CallEnds, Tick

\* The consent flow, the setup page, the tool calls and the life of the process
\* use the store as StoreSpec says it is used.
THEOREM ImplementsStore == Spec => StoreSpec
<1>1. Init => StoreInit
  BY DEF Init
<1> QED BY <1>1, TypeInit, TypeStep, StoreStep, PTL DEF Spec, StoreSpec

\* So what a start would load is the map of the last operation under them too,
\* and a restart in the middle of any request brings the accounts back.
THEOREM AccountsAreRecoverable == Spec => []SavedIsRecoverable /\ RestartKeepsAccounts
BY ImplementsStore, Recoverable, RestartSafe

-----------------------------------------------------------------------------
(* The cache.  A start loads other accounts, so coherence is inductive only *)
(* together with the cache of a dead process being empty.                   *)

DeadCacheEmpty == ~up => \A e \in Emails : clients[e] = NoToken

CacheInv == CacheCoherent /\ DeadCacheEmpty

\* What is cached for an address depends on its own entry and the key only.
LEMMA SameEntry ==
  ASSUME NEW e \in Emails, key' = key, accounts'[e] = accounts[e]
  PROVE  getRefreshToken(e)' = getRefreshToken(e)
BY DEF getRefreshToken, hasAccount

LEMMA CacheStep == TypeInv /\ CacheInv /\ [Next]_vars => CacheInv'
<1> SUFFICES ASSUME TypeInv, CacheInv, [Next]_vars PROVE CacheInv'
  OBVIOUS
<1> USE DEF CacheInv, CacheCoherent, DeadCacheEmpty
<1>s. ASSUME UNCHANGED storeVars, UNCHANGED clients PROVE CacheInv'
  BY <1>s, SameEntry DEF storeVars
<1>1. CASE UNCHANGED vars
  BY <1>1, <1>s DEF vars, callVars
<1>2. ASSUME NEW n \in Nonces, OAuthStart(n) \/ WasteNonce(n) PROVE CacheInv'
  BY <1>2, <1>s DEF OAuthStart, WasteNonce, callVars
<1>3. ASSUME NEW b \in Callbacks, NEW n \in Nonces, AcceptCallback(b, n) PROVE CacheInv'
  BY <1>3, <1>s DEF AcceptCallback, callVars
<1>4. ASSUME NEW b \in Callbacks, NEW e \in Emails, TokenReceived(b, e) PROVE CacheInv'
  BY <1>4, <1>s DEF TokenReceived, callVars
<1>5. ASSUME NEW b \in Callbacks, CallbackFails(b) PROVE CacheInv'
  BY <1>5, <1>s DEF CallbackFails, callVars
<1>6. ASSUME NEW b \in Callbacks, StoreAccount(b) PROVE CacheInv'
  <2> DEFINE owner == cb[b].token.owner
  <2>1. /\ up' = up /\ up /\ key' = key
        /\ accounts' = [accounts EXCEPT ![owner] = encrypt(cb[b].token)]
        /\ clients' = [clients EXCEPT ![owner] = NoToken]
    BY <1>6 DEF StoreAccount, addAccount
  <2>2. ASSUME NEW e \in Emails, e # owner
        PROVE  accounts'[e] = accounts[e] /\ clients'[e] = clients[e]
    BY <2>1, <2>2 DEF TypeInv, TypeOK, StoreTypeOK, Book
  <2>3. owner \in Emails => clients'[owner] = NoToken
    BY <2>1 DEF TypeInv, TypeOK
  <2> QED BY <2>1, <2>2, <2>3, SameEntry
<1>7. ASSUME NEW x \in Emails, RemoveAccount(x) PROVE CacheInv'
  <2>1. /\ up' = up /\ up /\ key' = key
        /\ accounts' = [accounts EXCEPT ![x] = NoAccount]
        /\ clients' = [clients EXCEPT ![x] = NoToken]
    BY <1>7 DEF RemoveAccount, removeAccount
  <2>2. ASSUME NEW e \in Emails, e # x
        PROVE  accounts'[e] = accounts[e] /\ clients'[e] = clients[e]
    BY <2>1, <2>2 DEF TypeInv, TypeOK, StoreTypeOK, Book
  <2>3. clients'[x] = NoToken
    BY <2>1 DEF TypeInv, TypeOK
  <2> QED BY <2>1, <2>2, <2>3, SameEntry
<1>8. ASSUME NEW c \in Calls, NEW x \in Emails, getGmailService(c, x) PROVE CacheInv'
  <2>1. /\ up /\ UNCHANGED storeVars
        /\ \/ clients' = clients
           \/ clients' = [clients EXCEPT ![x] = getRefreshToken(x)]
    BY <1>8 DEF getGmailService
  <2>2. \A e \in Emails : getRefreshToken(e)' = getRefreshToken(e)
    BY <2>1, SameEntry DEF storeVars
  <2> QED BY <2>1, <2>2 DEF TypeInv, TypeOK, storeVars
<1>9. ASSUME NEW c \in Calls, AccessTokenReceived(c) \/ CallEnds(c) PROVE CacheInv'
  BY <1>9, <1>s DEF AccessTokenReceived, CallEnds
<1>10. CASE Tick
  BY <1>10, <1>s DEF Tick, callVars
<1>11. CASE Crash \/ CrashInSave
  BY <1>11 DEF Crash, CrashInSave, ForgetRequests
<1>12. ASSUME NEW k \in Keys, Restart(k) PROVE CacheInv'
  BY <1>12 DEF Restart, start, callVars
<1>13. CASE SetTokensData
  BY <1>13, <1>s DEF SetTokensData, callVars
<1>14. CASE LoseVolume
  BY <1>14, SameEntry DEF LoseVolume, loseVolume, callVars
<1> QED
  BY <1>1, <1>2, <1>3, <1>4, <1>5, <1>6, <1>7, <1>8, <1>9, <1>10, <1>11, <1>12, <1>13, <1>14
  DEF Next

\* A cached client was always made from the refresh token the store returns now:
\* no interleaving of callbacks, removals, calls, deaths and starts leaves the
\* client of a removed or replaced consent in the cache.
THEOREM CacheIsCoherent == Spec => []CacheCoherent
<1>1. Init => CacheInv
  BY DEF Init, CacheInv, CacheCoherent, DeadCacheEmpty
<1>2. CacheInv => CacheCoherent
  BY DEF CacheInv
<1> QED BY <1>1, <1>2, TypeInit, TypeStep, CacheStep, PTL DEF Spec

-----------------------------------------------------------------------------
(* Isolation: the calls in progress work for the mailbox they were made for. *)

CallsOwned ==
  \A c \in Calls : call[c].pc # "idle" => call[c].token.owner = call[c].email

AllOwned == OwnersKept /\ OwnerKept(snapshot)

LEMMA OwnersStep == TypeInv /\ AllOwned /\ [Next]_vars => AllOwned'
<1> SUFFICES ASSUME TypeInv, AllOwned, [Next]_vars PROVE AllOwned'
  OBVIOUS
<1> USE DEF AllOwned
<1>t. StoreTypeOK
  BY DEF TypeInv, TypeOK
<1>1. CASE UNCHANGED <<storeVars, snapshot>>
  BY <1>1 DEF storeVars, OwnersKept, OwnerKept
<1>2. ASSUME NEW b \in Callbacks, StoreAccount(b) PROVE AllOwned'
  BY <1>2, <1>t, AddAccountOwners DEF StoreAccount, OwnerKept
<1>3. ASSUME NEW e \in Emails, RemoveAccount(e) PROVE AllOwned'
  BY <1>3, <1>t, RemoveAccountOwners DEF RemoveAccount, OwnerKept
<1>4. CASE Crash \/ CrashInSave
  BY <1>4, CrashOwners DEF Crash, CrashInSave, ForgetRequests, OwnerKept
<1>5. ASSUME NEW k \in Keys, Restart(k) PROVE AllOwned'
  BY <1>5, StartOwners DEF Restart, OwnerKept
<1>6. CASE SetTokensData
  BY <1>6, SentinelsApart DEF SetTokensData, storeVars, OwnersKept, OwnerKept
<1>7. CASE LoseVolume
  BY <1>7, SentinelsApart DEF LoseVolume, loseVolume, OwnersKept, OwnerKept
<1> QED
  BY <1>1, <1>2, <1>3, <1>4, <1>5, <1>6, <1>7
  DEF Next, vars, OAuthStart, WasteNonce, AcceptCallback, TokenReceived, CallbackFails,
      getGmailService, AccessTokenReceived, CallEnds, Tick

LEMMA CallsOwnedStep ==
  TypeInv /\ TypeInv' /\ OwnersKept /\ CacheInv' /\ CallsOwned /\ [Next]_vars
    => CallsOwned'
<1> SUFFICES ASSUME TypeInv, TypeInv', OwnersKept, CacheInv', CallsOwned, [Next]_vars
             PROVE  CallsOwned'
  OBVIOUS
<1> USE DEF CallsOwned
<1>1. ASSUME NEW c \in Calls, NEW e \in Emails, getGmailService(c, e) PROVE CallsOwned'
  <2>1. /\ call' = [call EXCEPT ![c] = [pc |-> "getAccessToken", email |-> e,
                                        token |-> clients'[e]]]
        /\ clients'[e] = getRefreshToken(e) /\ getRefreshToken(e) # NoToken
    BY <1>1 DEF getGmailService, TypeInv, TypeOK
  <2>2. clients'[e].owner = e
    BY <2>1, OwnerOfRefreshToken DEF TypeInv, TypeOK
  <2> QED BY <2>1, <2>2 DEF TypeInv, TypeOK
<1>2. ASSUME NEW c \in Calls, AccessTokenReceived(c) \/ CallEnds(c) PROVE CallsOwned'
  BY <1>2 DEF AccessTokenReceived, CallEnds, IdleCall, TypeInv, TypeOK
<1>3. CASE Crash \/ CrashInSave
  BY <1>3 DEF Crash, CrashInSave, ForgetRequests, IdleCall
<1>4. CASE UNCHANGED call
  BY <1>4
<1> QED
  BY <1>1, <1>2, <1>3, <1>4
  DEF Next, vars, callVars, OAuthStart, WasteNonce, AcceptCallback, TokenReceived,
      CallbackFails, StoreAccount, RemoveAccount, SetTokensData, LoseVolume, Tick, Restart

\* A refresh token is stored, cached and used for its owner's mailbox only,
\* however consents, removals and calls of different mailboxes interleave.
THEOREM MailboxesAreIsolated == Spec => []MailboxIsolation
<1>1. Init => AllOwned /\ CallsOwned
  <2> SUFFICES ASSUME Init PROVE AllOwned /\ CallsOwned
    OBVIOUS
  <2>1. accounts = EmptyBook /\ file = Absent /\ tokensData = Absent /\ snapshot = Absent
    BY DEF Init, StoreInit
  <2>2. CallsOwned
    BY DEF Init, CallsOwned, IdleCall
  <2> QED BY <2>1, <2>2, SentinelsApart DEF AllOwned, OwnersKept, OwnerKept, EmptyBook
<1>2. Init => CacheInv
  BY DEF Init, CacheInv, CacheCoherent, DeadCacheEmpty
<1>3. TypeInv /\ AllOwned /\ CacheInv /\ CallsOwned => MailboxIsolation
  BY OwnerOfRefreshToken
  DEF TypeInv, TypeOK, CacheInv, CacheCoherent, AllOwned, CallsOwned, MailboxIsolation
<1>4. AllOwned => OwnersKept
  BY DEF AllOwned
<1> QED
  BY <1>1, <1>2, <1>3, <1>4, TypeInit, TypeStep, CacheStep, OwnersStep, CallsOwnedStep, PTL
  DEF Spec

-----------------------------------------------------------------------------
(* The nonces.  One that is pending has its issue time plus the TTL as its  *)
(* expiry and was not accepted before; one that was accepted is issued, so  *)
(* that it is never issued again.                                           *)

NonceInv ==
  \A n \in Nonces :
    /\ pending[n] # Never =>
         issued[n] # Never /\ pending[n] = issued[n] + StateTTL /\ accepted[n] = 0
    /\ accepted[n] # 0 => issued[n] # Never

LEMMA NonceStep == TypeInv /\ NonceInv /\ [Next]_vars => NonceInv'
<1> SUFFICES ASSUME TypeInv, NonceInv, [Next]_vars PROVE NonceInv'
  OBVIOUS
<1>0. /\ now \in Nat /\ now <= MaxTime /\ StateTTL \in Nat /\ MaxTime \in Nat
      /\ pending \in [Nonces -> Nat] /\ issued \in [Nonces -> Nat]
      /\ accepted \in [Nonces -> Nat] /\ Never' = Never
  BY NaturalBounds DEF TypeInv, TypeOK, Never
<1>1. CASE UNCHANGED <<pending, issued, accepted>>
  BY <1>0, <1>1 DEF NonceInv
<1>2. ASSUME NEW n \in Nonces, OAuthStart(n) PROVE NonceInv'
  <2>1. /\ issued[n] = Never /\ issued' = [issued EXCEPT ![n] = now]
        /\ accepted' = accepted
        /\ pending'[n] = now + StateTTL
        /\ \A m \in Nonces : m # n => pending'[m] \in {Never, pending[m]}
    BY <1>2 DEF OAuthStart
  <2>2. now # Never /\ accepted[n] = 0
    BY <1>0, <2>1 DEF NonceInv, Never
  <2> QED BY <1>0, <2>1, <2>2 DEF NonceInv
<1>3. ASSUME NEW n \in Nonces, WasteNonce(n) PROVE NonceInv'
  BY <1>0, <1>3 DEF NonceInv, WasteNonce
<1>4. ASSUME NEW b \in Callbacks, NEW n \in Nonces, AcceptCallback(b, n) PROVE NonceInv'
  BY <1>0, <1>4 DEF NonceInv, AcceptCallback, isPending
<1>5. CASE Crash \/ CrashInSave
  BY <1>0, <1>5 DEF NonceInv, Crash, CrashInSave, ForgetRequests
<1> QED
  BY <1>1, <1>2, <1>3, <1>4, <1>5
  DEF Next, vars, flowVars, TokenReceived, CallbackFails, StoreAccount, RemoveAccount,
      getGmailService, AccessTokenReceived, CallEnds, SetTokensData, LoseVolume, Tick,
      Restart

\* Only a callback that gets past consumeState accepts a nonce.
LEMMA OnlyAcceptCallback ==
  ASSUME Next, NEW n \in Nonces, accepted'[n] # accepted[n]
  PROVE  \E b \in Callbacks, m \in Nonces : AcceptCallback(b, m)
<1>1. accepted' # accepted
  OBVIOUS
<1> QED BY <1>1
  DEF Next, flowVars, OAuthStart, WasteNonce, TokenReceived, CallbackFails,
      StoreAccount, RemoveAccount, getGmailService, AccessTokenReceived, CallEnds,
      SetTokensData, LoseVolume, Tick, Crash, CrashInSave, ForgetRequests, Restart

\* A nonce lets one callback through at most, while it is no older than its TTL,
\* for any number of nonces and callbacks and across restarts.
THEOREM NoncesAreSingleUse == Spec => SingleUseNonce
<1>1. Init => NonceInv
  BY DEF Init, NonceInv
<1>2. ASSUME TypeInv, NonceInv, Next, NEW n \in Nonces, accepted'[n] # accepted[n]
      PROVE  accepted[n] = 0 /\ up /\ now <= issued[n] + StateTTL
  <2>1. PICK b \in Callbacks, m \in Nonces : AcceptCallback(b, m)
    BY <1>2, OnlyAcceptCallback
  <2>2. m = n
    BY <1>2, <2>1 DEF AcceptCallback, TypeInv, TypeOK
  <2>3. up /\ pending[n] # Never /\ ~(pending[n] < now)
    BY <2>1, <2>2 DEF AcceptCallback, isPending, expired
  <2> QED BY <1>2, <2>3, NaturalBounds DEF NonceInv, TypeInv, TypeOK
<1>3. TypeInv /\ NonceInv /\ [Next]_vars =>
        [\A n \in Nonces :
           accepted'[n] # accepted[n] =>
             accepted[n] = 0 /\ up /\ now <= issued[n] + StateTTL]_vars
  BY <1>2
<1> QED BY <1>1, <1>3, TypeInit, TypeStep, NonceStep, PTL DEF Spec, SingleUseNonce

-----------------------------------------------------------------------------
(* One client for each consent.  A consent is at one place only: a callback *)
(* that has not stored it yet, or one entry of a map; and a consent that a  *)
(* client was made for is cached as long as its entry is there.             *)

HeldOnce(book) ==
  book \in Book =>
    \A e \in Emails : book[e] # NoAccount =>
      /\ book[e].token.id \in 1 .. grants
      /\ \A b \in Callbacks : cb[b].token # NoToken => cb[b].token.id # book[e].token.id
      /\ \A f \in Emails :
           book[f] # NoAccount /\ book[f].token.id = book[e].token.id => f = e

HeldByOne ==
  \A b \in Callbacks : cb[b].token # NoToken =>
    /\ cb[b].token.id \in 1 .. grants
    /\ \A d \in Callbacks :
         cb[d].token # NoToken /\ cb[d].token.id = cb[b].token.id => d = b

ConsentsApart ==
  HeldOnce(accounts) /\ HeldOnce(file) /\ HeldOnce(snapshot) /\ HeldByOne

BuiltIsCached ==
  \A g \in Grants : built[g] # 0 =>
    /\ built[g] = 1 /\ g <= grants
    /\ \A b \in Callbacks : cb[b].token # NoToken => cb[b].token.id # g
    /\ \A e \in Emails : accounts[e] # NoAccount /\ accounts[e].token.id = g =>
         clients[e] = accounts[e].token

DeadBuiltNothing == ~up => \A g \in Grants : built[g] = 0

BuiltInv == BuiltIsCached /\ DeadBuiltNothing

\* Callbacks that end or die make the conditions easier.
LEMMA SameCallbacks ==
  ASSUME ConsentsApart, UNCHANGED <<accounts, file, snapshot>>, grants' = grants,
         \A b \in Callbacks : cb'[b].token # NoToken => cb'[b].token = cb[b].token
  PROVE  ConsentsApart'
BY DEF ConsentsApart, HeldOnce, HeldByOne

LEMMA SaveHeldOnce ==
  ASSUME HeldOnce(accounts)', HeldOnce(file),
         UNCHANGED grants,
         \A b \in Callbacks : cb'[b].token # NoToken => cb'[b].token = cb[b].token,
         save(accounts')
  PROVE  HeldOnce(file)'
BY SentinelsApart DEF save, SaveOutcomes, HeldOnce

LEMMA EmptyHeldOnce ==
  ASSUME accounts' = EmptyBook
  PROVE  HeldOnce(accounts)'
BY DEF HeldOnce, EmptyBook

LEMMA TokenReceivedApart ==
  ASSUME TypeInv, ConsentsApart, NEW b \in Callbacks, NEW e \in Emails, TokenReceived(b, e)
  PROVE  ConsentsApart'
<1>1. /\ grants' = grants + 1 /\ grants \in Nat
      /\ UNCHANGED <<accounts, file, snapshot>>
      /\ cb'[b].token = [owner |-> e, id |-> grants + 1]
      /\ \A d \in Callbacks : d # b => cb'[d] = cb[d]
  BY MaxGrantsIsNat DEF TokenReceived, TypeInv, TypeOK, storeVars
<1>2. cb'[b].token.id = grants + 1
  BY <1>1
<1>3. \A d \in Callbacks : cb[d].token # NoToken => cb[d].token.id \in 1 .. grants
  BY DEF ConsentsApart, HeldByOne
<1>4. HeldByOne'
  BY <1>1, <1>2, <1>3 DEF ConsentsApart, HeldByOne
<1>5. ASSUME NEW book, HeldOnce(book), book \in Book
      PROVE  \A x \in Emails : book[x] # NoAccount =>
               /\ book[x].token.id \in 1 .. grants'
               /\ \A d \in Callbacks : cb'[d].token # NoToken =>
                    cb'[d].token.id # book[x].token.id
               /\ \A f \in Emails :
                    book[f] # NoAccount /\ book[f].token.id = book[x].token.id => f = x
  BY <1>1, <1>2, <1>5 DEF HeldOnce
<1> QED BY <1>1, <1>4, <1>5 DEF ConsentsApart, HeldOnce

LEMMA StoreAccountApart ==
  ASSUME TypeInv, ConsentsApart, NEW b \in Callbacks, StoreAccount(b)
  PROVE  ConsentsApart'
<1> DEFINE t == cb[b].token
<1>1. /\ accounts' = [accounts EXCEPT ![t.owner] = encrypt(t)]
      /\ save(accounts') /\ UNCHANGED <<snapshot, grants>>
      /\ cb' = [cb EXCEPT ![b] = IdleCallback]
  BY DEF StoreAccount, addAccount
<1>2. t \in Token /\ t # NoToken /\ t.id \in 1 .. grants
  BY DEF StoreAccount, TypeInv, TypeOK, TokenHeld, ConsentsApart, HeldByOne
<1>3. accounts \in Book /\ cb'[b].token = NoToken
      /\ \A d \in Callbacks : d # b => cb'[d] = cb[d]
  BY <1>1 DEF TypeInv, TypeOK, StoreTypeOK, IdleCallback
<1>4. \A x \in Emails : accounts'[x] = IF x = t.owner THEN encrypt(t) ELSE accounts[x]
  BY <1>1, <1>3 DEF Book
<1>5. encrypt(t).token = t
  BY DEF encrypt
<1>6. HeldOnce(accounts)'
  <2>1. \A x \in Emails : accounts[x] # NoAccount =>
          accounts[x].token.id \in 1 .. grants /\ accounts[x].token.id # t.id
    BY <1>2, <1>3 DEF ConsentsApart, HeldOnce
  <2>2. \A d \in Callbacks : d # b /\ cb[d].token # NoToken => cb[d].token.id # t.id
    BY <1>2 DEF ConsentsApart, HeldByOne
  <2>3. ASSUME NEW x \in Emails, accounts'[x] # NoAccount
        PROVE  /\ accounts'[x].token.id \in 1 .. grants'
               /\ \A d \in Callbacks : cb'[d].token # NoToken =>
                    cb'[d].token.id # accounts'[x].token.id
               /\ \A f \in Emails : accounts'[f] # NoAccount
                    /\ accounts'[f].token.id = accounts'[x].token.id => f = x
    <3>1. CASE x = t.owner
      BY <1>1, <1>2, <1>3, <1>4, <1>5, <2>1, <2>2, <3>1
    <3>2. CASE x # t.owner
      <4>1. accounts'[x] = accounts[x] /\ accounts[x] # NoAccount
        BY <1>4, <2>3, <3>2
      <4>2. \A f \in Emails : accounts[f] # NoAccount
              /\ accounts[f].token.id = accounts[x].token.id => f = x
        BY <1>3, <4>1 DEF ConsentsApart, HeldOnce
      <4>3. \A d \in Callbacks : cb[d].token # NoToken =>
              cb[d].token.id # accounts[x].token.id
        BY <1>3, <4>1 DEF ConsentsApart, HeldOnce
      <4> QED BY <1>1, <1>3, <1>4, <1>5, <2>1, <4>1, <4>2, <4>3
    <3> QED BY <3>1, <3>2
  <2> QED BY <2>3 DEF HeldOnce
<1>7. \A d \in Callbacks : cb'[d].token # NoToken => cb'[d].token = cb[d].token
  BY <1>3
<1>8. HeldOnce(file)'
  BY <1>1, <1>6, <1>7, SaveHeldOnce DEF ConsentsApart
<1>9. HeldOnce(snapshot)' /\ HeldByOne'
  BY <1>1, <1>7 DEF ConsentsApart, HeldOnce, HeldByOne
<1> QED BY <1>6, <1>8, <1>9 DEF ConsentsApart

LEMMA ConsentsStep == TypeInv /\ ConsentsApart /\ [Next]_vars => ConsentsApart'
<1> SUFFICES ASSUME TypeInv, ConsentsApart, [Next]_vars PROVE ConsentsApart'
  OBVIOUS
<1>1. CASE UNCHANGED <<storeVars, snapshot, cb, grants>>
  BY <1>1, SameCallbacks DEF storeVars
<1>2. ASSUME NEW b \in Callbacks, NEW n \in Nonces, AcceptCallback(b, n)
      PROVE  ConsentsApart'
  <2>1. \A d \in Callbacks : cb'[d].token # NoToken => cb'[d].token = cb[d].token
    BY <1>2 DEF AcceptCallback, TypeInv, TypeOK
  <2> QED BY <1>2, <2>1, SameCallbacks DEF AcceptCallback, storeVars
<1>3. ASSUME NEW b \in Callbacks, NEW e \in Emails, TokenReceived(b, e)
      PROVE  ConsentsApart'
  BY <1>3, TokenReceivedApart
<1>4. ASSUME NEW b \in Callbacks, CallbackFails(b) PROVE ConsentsApart'
  <2>1. \A d \in Callbacks : cb'[d].token # NoToken => cb'[d].token = cb[d].token
    BY <1>4 DEF CallbackFails, IdleCallback, TypeInv, TypeOK
  <2> QED BY <1>4, <2>1, SameCallbacks DEF CallbackFails, storeVars
<1>5. ASSUME NEW b \in Callbacks, StoreAccount(b) PROVE ConsentsApart'
  BY <1>5, StoreAccountApart
<1>6. ASSUME NEW e \in Emails, RemoveAccount(e) PROVE ConsentsApart'
  <2>1. /\ accounts' = [accounts EXCEPT ![e] = NoAccount]
        /\ save(accounts') /\ UNCHANGED <<snapshot, grants, cb>>
    BY <1>6 DEF RemoveAccount, removeAccount, flowVars
  <2>2. accounts \in Book
    BY DEF TypeInv, TypeOK, StoreTypeOK
  <2>3. \A x \in Emails : accounts'[x] # NoAccount => accounts'[x] = accounts[x]
    BY <2>1, <2>2 DEF Book
  <2>4. HeldOnce(accounts)'
    BY <2>1, <2>2, <2>3 DEF ConsentsApart, HeldOnce
  <2> QED BY <2>1, <2>4, SaveHeldOnce DEF ConsentsApart, HeldOnce, HeldByOne
<1>7. CASE Crash \/ CrashInSave
  <2>1. /\ accounts' = EmptyBook /\ file' \in {file, Corrupt}
        /\ UNCHANGED <<snapshot, grants>>
        /\ \A d \in Callbacks : cb'[d].token = NoToken
    BY <1>7 DEF Crash, crash, CrashInSave, crashInSave, ForgetRequests, IdleCallback
  <2>2. HeldOnce(file)'
    BY <2>1, SentinelsApart DEF ConsentsApart, HeldOnce
  <2> QED BY <2>1, <2>2, EmptyHeldOnce DEF ConsentsApart, HeldOnce, HeldByOne
<1>8. ASSUME NEW k \in Keys, Restart(k) PROVE ConsentsApart'
  <2>1. PICK disk \in ReadOutcomes : accounts' = Loaded(disk, snapshot)
    BY <1>8 DEF Restart, start
  <2>2. /\ save(accounts') \/ file' = file
        /\ UNCHANGED <<snapshot, grants, cb>>
    BY <1>8 DEF Restart, start, flowVars
  <2>3. HeldOnce(accounts)'
    BY <2>1, <2>2, DiskRead, EmptyHeldOnce DEF Loaded, ConsentsApart, HeldOnce
  <2>4. HeldOnce(file)'
    BY <2>2, <2>3, SaveHeldOnce DEF ConsentsApart, HeldOnce
  <2> QED BY <2>2, <2>3, <2>4 DEF ConsentsApart, HeldOnce, HeldByOne
<1>9. CASE SetTokensData
  <2>1. UNCHANGED <<accounts, file, grants, cb>> /\ snapshot' \in {accounts, Absent}
    BY <1>9 DEF SetTokensData, storeVars, flowVars
  <2> QED BY <2>1, SentinelsApart DEF ConsentsApart, HeldOnce, HeldByOne
<1>10. CASE LoseVolume
  <2>1. UNCHANGED <<accounts, snapshot, grants, cb>> /\ file' = Absent
    BY <1>10 DEF LoseVolume, loseVolume, flowVars
  <2> QED BY <2>1, SentinelsApart DEF ConsentsApart, HeldOnce, HeldByOne
<1> QED
  BY <1>1, <1>2, <1>3, <1>4, <1>5, <1>6, <1>7, <1>8, <1>9, <1>10
  DEF Next, vars, flowVars, callVars, OAuthStart, WasteNonce, getGmailService,
      AccessTokenReceived, CallEnds, Tick

\* Steps that make no client and touch no entry.
LEMMA SameClients ==
  ASSUME BuiltInv, UNCHANGED <<accounts, clients, built, grants, up>>,
         \A b \in Callbacks : cb'[b].token # NoToken => cb'[b].token = cb[b].token
  PROVE  BuiltInv'
BY DEF BuiltInv, BuiltIsCached, DeadBuiltNothing

LEMMA getGmailServiceBuilt ==
  ASSUME TypeInv, ConsentsApart, BuiltInv, NEW c \in Calls, NEW e \in Emails,
         getGmailService(c, e)
  PROVE  BuiltInv'
<1> DEFINE t == accounts[e].token
<1>1. accounts[e] # NoAccount /\ getRefreshToken(e) = t
  BY RefreshTokenType DEF getGmailService, TypeInv, TypeOK
<1>2. /\ up /\ UNCHANGED <<up, accounts, cb, grants>>
      /\ IF clients[e] = t THEN UNCHANGED <<clients, built>>
         ELSE /\ clients' = [clients EXCEPT ![e] = t]
              /\ built' = [built EXCEPT ![t.id] = @ + 1]
  BY <1>1 DEF getGmailService, storeVars, flowVars
<1>3. CASE clients[e] = t
  BY <1>2, <1>3, SameClients
<1>4. CASE clients[e] # t
  <2>1. /\ accounts \in Book /\ clients \in [Emails -> Token \cup {NoToken}]
        /\ built \in [Grants -> Nat] /\ grants \in 0 .. MaxGrants
    BY DEF TypeInv, TypeOK, StoreTypeOK
  <2>2. /\ t.id \in 1 .. grants
        /\ \A b \in Callbacks : cb[b].token # NoToken => cb[b].token.id # t.id
        /\ \A f \in Emails : accounts[f] # NoAccount /\ accounts[f].token.id = t.id => f = e
    BY <1>1, <2>1 DEF ConsentsApart, HeldOnce
  <2>3. t.id \in Grants /\ t.id <= grants
    BY <2>1, <2>2, MaxGrantsIsNat DEF Grants
  <2>4. built[t.id] = 0
    BY <1>1, <1>4, <2>3 DEF BuiltInv, BuiltIsCached
  <2>5. built'[t.id] = 1 /\ clients'[e] = t
    BY <1>2, <1>4, <2>1, <2>3, <2>4
  <2>6. \A g \in Grants : g # t.id => built'[g] = built[g]
    BY <1>2, <1>4, <2>1
  <2>7. \A f \in Emails : f # e => clients'[f] = clients[f]
    BY <1>2, <1>4, <2>1
  <2>8. ASSUME NEW g \in Grants, built'[g] # 0
        PROVE  /\ built'[g] = 1 /\ g <= grants'
               /\ \A b \in Callbacks : cb'[b].token # NoToken => cb'[b].token.id # g
               /\ \A f \in Emails : accounts'[f] # NoAccount /\ accounts'[f].token.id = g =>
                    clients'[f] = accounts'[f].token
    <3>1. CASE g = t.id
      BY <1>2, <2>2, <2>3, <2>5, <3>1
    <3>2. CASE g # t.id
      BY <1>2, <2>5, <2>6, <2>7, <2>8, <3>2 DEF BuiltInv, BuiltIsCached
    <3> QED BY <3>1, <3>2
  <2> QED BY <1>2, <2>8 DEF BuiltInv, BuiltIsCached, DeadBuiltNothing
<1> QED BY <1>3, <1>4

LEMMA StoreAccountBuilt ==
  ASSUME TypeInv, ConsentsApart, BuiltInv, NEW b \in Callbacks, StoreAccount(b)
  PROVE  BuiltInv'
<1> DEFINE t == cb[b].token
<1>1. /\ up /\ UNCHANGED <<up, built, grants>>
      /\ accounts' = [accounts EXCEPT ![t.owner] = encrypt(t)]
      /\ clients' = [clients EXCEPT ![t.owner] = NoToken]
      /\ cb' = [cb EXCEPT ![b] = IdleCallback]
  BY DEF StoreAccount, addAccount
<1>2. /\ accounts \in Book /\ clients \in [Emails -> Token \cup {NoToken}]
      /\ t # NoToken
      /\ \A d \in Callbacks : cb'[d].token # NoToken => cb'[d].token = cb[d].token
  BY <1>1 DEF StoreAccount, TypeInv, TypeOK, StoreTypeOK, TokenHeld, IdleCallback
<1>3. \A g \in Grants : built[g] # 0 => t.id # g
  BY <1>2 DEF BuiltInv, BuiltIsCached
<1>4. \A f \in Emails : IF f = t.owner THEN accounts'[f].token = t
                        ELSE accounts'[f] = accounts[f] /\ clients'[f] = clients[f]
  BY <1>1, <1>2 DEF Book, encrypt
<1>5. ASSUME NEW g \in Grants, built[g] # 0
      PROVE  \A f \in Emails : accounts'[f] # NoAccount /\ accounts'[f].token.id = g =>
               clients'[f] = accounts'[f].token
  BY <1>3, <1>4, <1>5 DEF BuiltInv, BuiltIsCached
<1> QED BY <1>1, <1>2, <1>5 DEF BuiltInv, BuiltIsCached, DeadBuiltNothing

LEMMA BuiltStep == TypeInv /\ ConsentsApart /\ BuiltInv /\ [Next]_vars => BuiltInv'
<1> SUFFICES ASSUME TypeInv, ConsentsApart, BuiltInv, [Next]_vars PROVE BuiltInv'
  OBVIOUS
<1>1. CASE UNCHANGED <<storeVars, cb, clients, built, grants>>
  BY <1>1, SameClients DEF storeVars
<1>2. ASSUME NEW b \in Callbacks, NEW n \in Nonces, AcceptCallback(b, n) PROVE BuiltInv'
  <2>1. \A d \in Callbacks : cb'[d].token # NoToken => cb'[d].token = cb[d].token
    BY <1>2 DEF AcceptCallback, TypeInv, TypeOK
  <2> QED BY <1>2, <2>1, SameClients DEF AcceptCallback, storeVars, callVars
<1>3. ASSUME NEW b \in Callbacks, NEW e \in Emails, TokenReceived(b, e) PROVE BuiltInv'
  <2>1. /\ grants' = grants + 1 /\ grants \in Nat
        /\ UNCHANGED <<accounts, clients, built, up>>
        /\ cb'[b].token.id = grants + 1
        /\ \A d \in Callbacks : d # b => cb'[d] = cb[d]
    BY <1>3, MaxGrantsIsNat DEF TokenReceived, TypeInv, TypeOK, storeVars, callVars
  <2>2. ASSUME NEW g \in Grants, built[g] # 0
        PROVE  /\ g <= grants + 1
               /\ \A d \in Callbacks : cb'[d].token # NoToken => cb'[d].token.id # g
    BY <2>1, <2>2 DEF BuiltInv, BuiltIsCached, Grants
  <2> QED BY <2>1, <2>2 DEF BuiltInv, BuiltIsCached, DeadBuiltNothing
<1>4. ASSUME NEW b \in Callbacks, CallbackFails(b) PROVE BuiltInv'
  <2>1. \A d \in Callbacks : cb'[d].token # NoToken => cb'[d].token = cb[d].token
    BY <1>4 DEF CallbackFails, IdleCallback, TypeInv, TypeOK
  <2> QED BY <1>4, <2>1, SameClients DEF CallbackFails, storeVars, callVars
<1>5. ASSUME NEW b \in Callbacks, StoreAccount(b) PROVE BuiltInv'
  BY <1>5, StoreAccountBuilt
<1>6. ASSUME NEW e \in Emails, RemoveAccount(e) PROVE BuiltInv'
  <2>1. /\ accounts' = [accounts EXCEPT ![e] = NoAccount]
        /\ clients' = [clients EXCEPT ![e] = NoToken]
        /\ UNCHANGED <<up, built, grants, cb>> /\ up
    BY <1>6 DEF RemoveAccount, removeAccount, flowVars
  <2>2. accounts \in Book /\ clients \in [Emails -> Token \cup {NoToken}]
    BY DEF TypeInv, TypeOK, StoreTypeOK
  <2>3. \A f \in Emails : accounts'[f] # NoAccount =>
                           accounts'[f] = accounts[f] /\ clients'[f] = clients[f]
    BY <2>1, <2>2 DEF Book
  <2> QED BY <2>1, <2>3 DEF BuiltInv, BuiltIsCached, DeadBuiltNothing
<1>7. ASSUME NEW c \in Calls, NEW e \in Emails, getGmailService(c, e) PROVE BuiltInv'
  BY <1>7, getGmailServiceBuilt
<1>8. CASE Crash \/ CrashInSave
  BY <1>8 DEF Crash, CrashInSave, ForgetRequests, BuiltInv, BuiltIsCached, DeadBuiltNothing
<1>9. ASSUME NEW k \in Keys, Restart(k) PROVE BuiltInv'
  BY <1>9 DEF Restart, start, callVars, BuiltInv, BuiltIsCached, DeadBuiltNothing
<1>10. CASE SetTokensData \/ LoseVolume
  <2>1. UNCHANGED <<up, accounts, clients, built, grants, cb>>
    BY <1>10 DEF SetTokensData, LoseVolume, loseVolume, storeVars, flowVars, callVars
  <2> QED BY <2>1, SameClients
<1> QED
  BY <1>1, <1>2, <1>3, <1>4, <1>5, <1>6, <1>7, <1>8, <1>9, <1>10
  DEF Next, vars, flowVars, callVars, OAuthStart, WasteNonce, AccessTokenReceived,
      CallEnds, Tick

\* Between two starts no consent has more than one client made for it, whatever
\* mailboxes are added, replaced and removed while calls take their clients.
THEOREM OneClientForEachConsent == Spec => []OneClientPerConsent
<1>1. Init => ConsentsApart /\ BuiltInv
  <2> SUFFICES ASSUME Init PROVE ConsentsApart /\ BuiltInv
    OBVIOUS
  <2>1. accounts = EmptyBook /\ file = Absent /\ snapshot = Absent
    BY DEF Init, StoreInit
  <2>2. HeldByOne /\ BuiltInv
    BY DEF Init, HeldByOne, IdleCallback, BuiltInv, BuiltIsCached, DeadBuiltNothing
  <2> QED BY <2>1, <2>2, SentinelsApart DEF ConsentsApart, HeldOnce, EmptyBook
<1>2. TypeInv /\ BuiltInv => OneClientPerConsent
  BY DEF BuiltInv, BuiltIsCached, OneClientPerConsent, TypeInv, TypeOK
<1> QED
  BY <1>1, <1>2, TypeInit, TypeStep, ConsentsStep, BuiltStep, PTL DEF Spec

-----------------------------------------------------------------------------
(* Consents are fresh: those of the callbacks in progress differ from each *)
(* other and from all that were stored before.                             *)

FreshConsents ==
  /\ \A t \in stored : t.id <= grants
  /\ \A b \in Callbacks :
       cb[b].pc = "userinfo" => cb[b].token.id <= grants /\ cb[b].token \notin stored
  /\ \A b, d \in Callbacks :
       b # d /\ cb[b].pc = "userinfo" /\ cb[d].pc = "userinfo" =>
         cb[b].token # cb[d].token

LEMMA FreshStep == TypeInv /\ FreshConsents /\ [Next]_vars => FreshConsents'
<1> SUFFICES ASSUME TypeInv, FreshConsents, [Next]_vars PROVE FreshConsents'
  OBVIOUS
<1> USE DEF FreshConsents
<1>t. cb \in [Callbacks -> [pc : {"idle", "getToken", "userinfo"},
                            nonce : Nonces \cup {NoNonce},
                            token : Token \cup {NoToken}]]
  BY DEF TypeInv, TypeOK
<1>1. CASE UNCHANGED <<cb, stored, grants>>
  BY <1>1
<1>2. ASSUME NEW b \in Callbacks, NEW n \in Nonces, AcceptCallback(b, n)
      PROVE  FreshConsents'
  BY <1>2, <1>t DEF AcceptCallback
<1>3. ASSUME NEW b \in Callbacks, NEW e \in Emails, TokenReceived(b, e)
      PROVE  FreshConsents'
  <2> DEFINE t == [owner |-> e, id |-> grants + 1]
  <2>1. /\ grants' = grants + 1 /\ stored' = stored
        /\ cb' = [cb EXCEPT ![b].pc = "userinfo", ![b].token = t]
    BY <1>3 DEF TokenReceived
  <2>2. grants \in Nat /\ \A u \in Token : u.id \in Nat
    BY MaxGrantsIsNat DEF TypeInv, TypeOK, Token, Grants
  <2>3. stored \subseteq Token
    BY DEF TypeInv, TypeOK
  <2>4. cb'[b].token = t /\ \A d \in Callbacks : d # b => cb'[d] = cb[d]
    BY <2>1, <1>t
  <2>5. \A d \in Callbacks : cb[d].pc = "userinfo" => cb[d].token \in Token
    BY <1>t DEF TypeInv, TokenHeld
  <2>6. t \notin stored
    BY <2>2, <2>3
  <2>7. ASSUME NEW d \in Callbacks, d # b, cb[d].pc = "userinfo"
        PROVE  cb[d].token # t /\ cb[d].token.id <= grants + 1
    BY <2>2, <2>5, <2>7
  <2>8. \A u \in stored' : u.id <= grants'
    BY <2>1, <2>2, <2>3
  <2>9. ASSUME NEW d \in Callbacks, cb'[d].pc = "userinfo"
        PROVE  cb'[d].token.id <= grants' /\ cb'[d].token \notin stored'
    <3>1. CASE d = b
      <4>1. t.id = grants' /\ grants' \in Nat /\ t \notin stored'
        BY <2>1, <2>2, <2>6
      <4>2. cb'[d].token = t
        BY <2>4, <3>1
      <4>3. cb'[d].token.id = t.id /\ cb'[d].token \notin stored'
        BY <4>1, <4>2
      <4>4. cb'[d].token.id <= grants'
        BY <4>1, <4>3
      <4> QED BY <4>3, <4>4
    <3>2. CASE d # b
      <4>1. grants' = grants + 1 /\ stored' = stored
        BY <2>1
      <4>2. cb'[d] = cb[d]
        BY <2>4, <3>2
      <4>3. cb[d].pc = "userinfo"
        BY <2>9, <4>2
      <4>4. cb[d].token.id <= grants + 1 /\ cb[d].token \notin stored
        BY <2>7, <3>2, <4>3
      <4> QED BY <4>1, <4>2, <4>4
    <3> QED BY <3>1, <3>2
  <2>10. ASSUME NEW x \in Callbacks, NEW y \in Callbacks, x # y,
                cb'[x].pc = "userinfo", cb'[y].pc = "userinfo"
         PROVE  cb'[x].token # cb'[y].token
    <3>1. CASE x = b
      BY <2>4, <2>7, <2>10, <3>1
    <3>2. CASE y = b
      BY <2>4, <2>7, <2>10, <3>2
    <3>3. CASE x # b /\ y # b
      BY <2>4, <2>10, <3>3
    <3> QED BY <3>1, <3>2, <3>3
  <2> QED BY <2>8, <2>9, <2>10
<1>4. ASSUME NEW b \in Callbacks, StoreAccount(b) PROVE FreshConsents'
  <2>1. /\ cb' = [cb EXCEPT ![b] = IdleCallback] /\ stored' = stored \cup {cb[b].token}
        /\ grants' = grants /\ cb[b].pc = "userinfo"
    BY <1>4 DEF StoreAccount
  <2>2. cb'[b].pc = "idle" /\ \A d \in Callbacks : d # b => cb'[d] = cb[d]
    BY <2>1, <1>t DEF IdleCallback
  <2> QED BY <2>1, <2>2
<1>5. ASSUME NEW b \in Callbacks, CallbackFails(b) PROVE FreshConsents'
  BY <1>5, <1>t DEF CallbackFails, IdleCallback
<1>6. CASE Crash \/ CrashInSave
  BY <1>6 DEF Crash, CrashInSave, ForgetRequests, IdleCallback
<1> QED
  BY <1>1, <1>2, <1>3, <1>4, <1>5, <1>6
  DEF Next, vars, flowVars, OAuthStart, WasteNonce, RemoveAccount, getGmailService,
      AccessTokenReceived, CallEnds, SetTokensData, LoseVolume, Tick, Restart

-----------------------------------------------------------------------------
(* On such a disk the file holds the map of the running process, or there  *)
(* is none, no account and no snapshot with one.                           *)

ObedientDisk == DiskFaults \subseteq {"killed", "volume"}

FileIsCurrent == up => Loaded(file, snapshot) = accounts

\* What the running process has when no file that parses is there.
NothingYet == up /\ file \notin Book => accounts = EmptyBook

FileInv == FileIsCurrent /\ NothingYet

LEMMA SoundSave ==
  ASSUME ObedientDisk, NEW book, save(book)
  PROVE  file' = book
BY DEF ObedientDisk, save, SaveOutcomes

LEMMA SoundRead ==
  ASSUME ObedientDisk, NEW disk \in ReadOutcomes
  PROVE  disk = file
BY DEF ObedientDisk, ReadOutcomes

LEMMA LoadedSaved ==
  ASSUME NEW book \in Book, NEW env
  PROVE  Loaded(book, env) = book
BY DEF Loaded

\* A start, as it goes on such a disk.
LEMMA SoundStart ==
  ASSUME ObedientDisk, NEW k, NEW env, start(k, env)
  PROVE  /\ ~up /\ up'
         /\ accounts' = Loaded(file, env)
         /\ file' = IF file \notin Book /\ env \in Book THEN accounts' ELSE file
<1>1. PICK disk \in ReadOutcomes :
        /\ accounts' = Loaded(disk, env)
        /\ IF disk \notin Book /\ env \in Book THEN save(accounts') ELSE file' = file
  BY DEF start
<1>2. disk = file
  BY SoundRead
<1> QED BY <1>1, <1>2, SoundSave DEF start

LEMMA FileStep ==
  ObedientDisk /\ TypeInv /\ TypeInv' /\ FileInv /\ [Next]_vars
    => FileInv'
<1> SUFFICES ASSUME ObedientDisk, TypeInv, TypeInv', FileInv, [Next]_vars
             PROVE  FileInv'
  OBVIOUS
<1> USE DEF FileInv, FileIsCurrent, NothingYet
<1>1. CASE UNCHANGED <<storeVars, snapshot>>
  BY <1>1 DEF storeVars, Loaded
<1>2. accounts' \in Book
  BY DEF TypeInv, TypeOK, StoreTypeOK
<1>3. ASSUME NEW b \in Callbacks, StoreAccount(b) PROVE FileInv'
  BY <1>2, <1>3, SoundSave, LoadedSaved DEF StoreAccount, addAccount
<1>4. ASSUME NEW e \in Emails, RemoveAccount(e) PROVE FileInv'
  BY <1>2, <1>4, SoundSave, LoadedSaved DEF RemoveAccount, removeAccount
<1>5. CASE Crash \/ CrashInSave \/ LoseVolume
  BY <1>5 DEF Crash, crash, CrashInSave, crashInSave, LoseVolume, loseVolume
<1>6. ASSUME NEW k \in Keys, Restart(k) PROVE FileInv'
  <2>1. /\ accounts' = Loaded(file, snapshot) /\ snapshot' = snapshot
        /\ file' = IF file \notin Book /\ snapshot \in Book THEN accounts' ELSE file
    BY <1>6, SoundStart DEF Restart
  <2>2. CASE file \notin Book /\ snapshot \in Book
    BY <1>2, <2>1, <2>2, LoadedSaved
  <2>3. CASE ~(file \notin Book /\ snapshot \in Book)
    BY <2>1, <2>3 DEF Loaded
  <2> QED BY <2>2, <2>3
<1>7. CASE SetTokensData
  <2>1. up /\ UNCHANGED <<up, accounts, file>> /\ snapshot' \in {accounts, Absent}
    BY <1>7 DEF SetTokensData, storeVars
  <2> QED BY <2>1, SentinelsApart DEF Loaded
<1> QED
  BY <1>1, <1>3, <1>4, <1>5, <1>6, <1>7
  DEF Next, vars, OAuthStart, WasteNonce, AcceptCallback, TokenReceived, CallbackFails,
      getGmailService, AccessTokenReceived, CallEnds, Tick

-----------------------------------------------------------------------------
(* A call holds a token exactly while it is in progress. *)

CallsHold == \A c \in Calls : call[c].pc = "idle" <=> call[c].token = NoToken

DeadCalls == ~up => \A c \in Calls : call[c].token = NoToken

LEMMA CallsHoldStep == TypeInv /\ CallsHold /\ [Next]_vars => CallsHold'
<1> SUFFICES ASSUME TypeInv, CallsHold, [Next]_vars PROVE CallsHold'
  OBVIOUS
<1> USE DEF CallsHold
<1>t. call \in [Calls -> [pc : {"idle", "getAccessToken", "gmail"},
                          email : Emails \cup {NoAccount},
                          token : Token \cup {NoToken}]]
  BY DEF TypeInv, TypeOK
<1>1. CASE UNCHANGED call
  BY <1>1
<1>2. ASSUME NEW c \in Calls, NEW e \in Emails, getGmailService(c, e) PROVE CallsHold'
  <2>1. clients'[e] # NoToken
    BY <1>2 DEF getGmailService, TypeInv, TypeOK
  <2> QED BY <1>2, <1>t, <2>1 DEF getGmailService
<1>3. ASSUME NEW c \in Calls, AccessTokenReceived(c) \/ CallEnds(c) PROVE CallsHold'
  BY <1>3, <1>t DEF AccessTokenReceived, CallEnds, IdleCall
<1>4. CASE Crash \/ CrashInSave
  BY <1>4 DEF Crash, CrashInSave, ForgetRequests, IdleCall
<1> QED
  BY <1>1, <1>2, <1>3, <1>4
  DEF Next, vars, callVars, OAuthStart, WasteNonce, AcceptCallback, TokenReceived,
      CallbackFails, StoreAccount, RemoveAccount, SetTokensData, LoseVolume, Tick, Restart

LEMMA DeadCallsStep == TypeInv /\ DeadCalls /\ [Next]_vars => DeadCalls'
<1> SUFFICES ASSUME TypeInv, DeadCalls, [Next]_vars PROVE DeadCalls'
  OBVIOUS
<1> USE DEF DeadCalls
<1>1. CASE UNCHANGED <<up, call>>
  BY <1>1
<1>2. CASE Crash \/ CrashInSave
  BY <1>2 DEF Crash, CrashInSave, ForgetRequests, IdleCall
<1>3. CASE up'
  BY <1>3
<1>4. ASSUME NEW b \in Callbacks, StoreAccount(b) PROVE DeadCalls'
  BY <1>3, <1>4 DEF StoreAccount, addAccount
<1>5. ASSUME NEW e \in Emails, RemoveAccount(e) PROVE DeadCalls'
  BY <1>3, <1>5 DEF RemoveAccount, removeAccount
<1>6. ASSUME NEW c \in Calls, NEW e \in Emails, getGmailService(c, e) PROVE DeadCalls'
  BY <1>3, <1>6 DEF getGmailService, storeVars
<1>7. ASSUME NEW c \in Calls, AccessTokenReceived(c) \/ CallEnds(c) PROVE DeadCalls'
  BY <1>3, <1>7 DEF AccessTokenReceived, CallEnds, storeVars
<1>8. ASSUME NEW k \in Keys, Restart(k) PROVE DeadCalls'
  BY <1>3, <1>8 DEF Restart, start
<1>9. CASE LoseVolume
  BY <1>1, <1>9 DEF LoseVolume, loseVolume, callVars
<1> QED
  BY <1>1, <1>2, <1>4, <1>5, <1>6, <1>7, <1>8, <1>9
  DEF Next, vars, storeVars, callVars, OAuthStart, WasteNonce, AcceptCallback, TokenReceived,
      CallbackFails, SetTokensData, Tick

-----------------------------------------------------------------------------
(* The refinement. *)

RefInv ==
  TypeInv /\ CacheInv /\ FreshConsents /\ FileInv /\ CallsHold /\ DeadCalls

LEMMA RefInvInit == Init => RefInv
<1> SUFFICES ASSUME Init PROVE RefInv
  OBVIOUS
<1>1. CacheInv
  BY DEF Init, CacheInv, CacheCoherent, DeadCacheEmpty
<1>2. FreshConsents /\ CallsHold /\ DeadCalls
  BY DEF Init, FreshConsents, CallsHold, DeadCalls, IdleCallback, IdleCall
<1>3. FileInv
  BY DEF Init, StoreInit, FileInv, FileIsCurrent, NothingYet
<1> QED BY <1>1, <1>2, <1>3, TypeInit DEF RefInv

LEMMA RefInvStep == ObedientDisk /\ RefInv /\ [Next]_vars => RefInv'
BY TypeStep, CacheStep, FreshStep, FileStep, CallsHoldStep, DeadCallsStep DEF RefInv

\* The directory shows what is durable, address by address, and the copy of it
\* what TOKENS_DATA is set to.
copied == IF snapshot = Absent THEN EmptyBook ELSE snapshot

LEMMA DurableStep ==
  ASSUME ObedientDisk, RefInv, RefInv', [Next]_vars,
         ~\E b \in Callbacks : StoreAccount(b),
         ~\E e \in Emails : RemoveAccount(e),
         ~CrashInSave, ~LoseVolume, ~SetTokensData
  PROVE  durable' = durable /\ copied' = copied
<1>1. CASE UNCHANGED <<storeVars, snapshot>>
  BY <1>1 DEF storeVars, durable, copied, Loaded
<1>2. CASE Crash
  BY <1>2 DEF Crash, crash, ForgetRequests, durable, copied, RefInv, FileInv, FileIsCurrent, Loaded
<1>3. ASSUME NEW k \in Keys, Restart(k) PROVE durable' = durable /\ copied' = copied
  BY <1>3, SoundStart DEF Restart, durable, copied
<1> QED
  BY <1>1, <1>2, <1>3
  DEF Next, vars, OAuthStart, WasteNonce, AcceptCallback, TokenReceived, CallbackFails,
      getGmailService, AccessTokenReceived, CallEnds, Tick

LEMMA StepSimulation ==
  ObedientDisk /\ RefInv /\ RefInv' /\ [Next]_vars => [Directory!Next]_(Directory!vars)
<1> SUFFICES ASSUME ObedientDisk, RefInv, RefInv', [Next]_vars
             PROVE  [Directory!Next]_(Directory!vars)
  OBVIOUS
<1> DEFINE shown == consents(durable)
           served == [c \in Calls |-> call[c].token]
<1> USE DEF consents
<1>t. /\ TypeInv /\ TypeOK /\ StoreTypeOK /\ StoreTypeOK' /\ accounts \in Book
      /\ call \in [Calls -> [pc : {"idle", "getAccessToken", "gmail"},
                             email : Emails \cup {NoAccount},
                             token : Token \cup {NoToken}]]
  BY DEF RefInv, TypeInv, TypeOK, StoreTypeOK
<1>c. ASSUME copied' = copied
      PROVE  consents(IF snapshot = Absent THEN EmptyBook ELSE snapshot)'
               = consents(IF snapshot = Absent THEN EmptyBook ELSE snapshot)
  BY <1>c DEF copied
<1>h. ASSUME durable' = durable, copied' = copied, stored' = stored, served' = served
      PROVE  [Directory!Next]_(Directory!vars)
  BY <1>h, <1>c DEF Directory!vars
<1>1. ASSUME NEW b \in Callbacks, StoreAccount(b)
      PROVE  [Directory!Next]_(Directory!vars)
  <2> DEFINE t == cb[b].token
  <2>1. t \in Token /\ t.owner \in Emails
    BY <1>1, <1>t DEF StoreAccount, TypeInv, TypeOK, TokenHeld, Token, Grants
  <2>2. t \notin stored
    BY <1>1 DEF StoreAccount, RefInv, FreshConsents
  <2>3. /\ up /\ up' /\ accounts' = [accounts EXCEPT ![t.owner] = encrypt(t)]
        /\ stored' = stored \cup {t} /\ call' = call /\ copied' = copied
    BY <1>1 DEF StoreAccount, addAccount, copied
  <2>4. encrypt(t) # NoAccount /\ encrypt(t).token = t
    BY <2>1, <1>t, SentinelsApart DEF encrypt, Blob, StoreTypeOK
  <2>5. durable = accounts /\ durable' = accounts'
    BY <2>3 DEF durable
  <2>6. shown' = [shown EXCEPT ![t.owner] = t]
    BY <1>t, <2>1, <2>3, <2>4, <2>5 DEF Book
  <2>7. PICK e \in Emails, u \in Token : e = t.owner /\ u = t
    BY <2>1
  <2>8. Directory!Connect(e, u)
    BY <1>c, <2>2, <2>3, <2>6, <2>7 DEF Directory!Connect
  <2> QED BY <2>8 DEF Directory!Next
<1>2. ASSUME NEW e \in Emails, RemoveAccount(e)
      PROVE  [Directory!Next]_(Directory!vars)
  <2>1. /\ up /\ up' /\ accounts' = [accounts EXCEPT ![e] = NoAccount]
        /\ accounts[e] # NoAccount /\ stored' = stored /\ call' = call /\ copied' = copied
    BY <1>2 DEF RemoveAccount, removeAccount, hasAccount, copied
  <2>2. durable = accounts /\ durable' = accounts'
    BY <2>1 DEF durable
  <2>3. accounts[e] \in Blob /\ accounts[e].token # NoToken
    BY <1>t, <2>1, SentinelsApart DEF Book, Blob
  <2>4. shown[e] # NoToken /\ shown' = [shown EXCEPT ![e] = NoToken]
    BY <1>t, <2>1, <2>2, <2>3 DEF Book
  <2>5. Directory!Disconnect(e)
    BY <1>c, <2>1, <2>4 DEF Directory!Disconnect
  <2> QED BY <2>5 DEF Directory!Next
<1>3. CASE CrashInSave \/ LoseVolume
  <2>1. /\ file' \notin Book /\ ~up' /\ DiskFaults # {}
        /\ stored' = stored /\ snapshot' = snapshot /\ copied' = copied
    BY <1>3, SentinelsApart
    DEF CrashInSave, crashInSave, LoseVolume, loseVolume, ForgetRequests, copied
  <2>2. durable' = copied
    BY <2>1, SentinelsApart DEF durable, copied, Loaded, TypeInv, TypeOK, RefInv
  <2>3. shown' = consents(IF snapshot = Absent THEN EmptyBook ELSE snapshot)
    BY <2>2 DEF copied
  <2>4. served' = [c \in Calls |-> NoToken]
    <3>1. CASE CrashInSave
      BY <3>1 DEF CrashInSave, ForgetRequests, IdleCall
    <3>2. CASE LoseVolume
      BY <3>2 DEF LoseVolume, loseVolume, callVars, RefInv, DeadCalls
    <3> QED BY <1>3, <3>1, <3>2
  <2>5. Directory!Lose
    BY <1>c, <2>1, <2>3, <2>4 DEF Directory!Lose
  <2> QED BY <2>5 DEF Directory!Next
<1>5. CASE SetTokensData
  <2>1. /\ up /\ up' /\ accounts' = accounts /\ snapshot' \in {accounts, Absent}
        /\ stored' = stored /\ served' = served
    BY <1>5 DEF SetTokensData, storeVars, callVars
  <2>2. durable' = durable /\ durable = accounts
    BY <2>1 DEF durable
  <2>3. copied' \in {durable, EmptyBook}
    BY <1>t, <2>1, <2>2, SentinelsApart DEF copied
  <2>4. consents(EmptyBook) = Directory!Nobody
    BY DEF EmptyBook, Directory!Nobody
  <2>5. consents(IF snapshot = Absent THEN EmptyBook ELSE snapshot)'
          \in {shown, Directory!Nobody}
    BY <2>3, <2>4 DEF copied
  <2>6. Directory!Copy
    BY <2>1, <2>2, <2>5 DEF Directory!Copy
  <2> QED BY <2>6 DEF Directory!Next
<1>4. CASE /\ ~\E b \in Callbacks : StoreAccount(b)
           /\ ~\E e \in Emails : RemoveAccount(e)
           /\ ~CrashInSave /\ ~LoseVolume /\ ~SetTokensData
  <2>1. durable' = durable /\ copied' = copied
    BY <1>4, DurableStep
  <2>2. ASSUME NEW c \in Calls, NEW e \in Emails, getGmailService(c, e)
        PROVE  [Directory!Next]_(Directory!vars)
    <3>1. /\ up /\ call[c].pc = "idle" /\ getRefreshToken(e) # NoToken /\ stored' = stored
          /\ call' = [call EXCEPT ![c] = [pc |-> "getAccessToken", email |-> e,
                                          token |-> clients'[e]]]
          /\ clients'[e] = getRefreshToken(e)
      BY <2>2, <1>t DEF getGmailService, TypeOK
    <3>2. call[c].token = NoToken
      BY <3>1 DEF RefInv, CallsHold
    <3>3. shown[e] = getRefreshToken(e)
      BY <1>t, <3>1, RefreshTokenType DEF durable
    <3>4. served[c] = NoToken /\ served' = [served EXCEPT ![c] = shown[e]]
      BY <1>t, <3>1, <3>2, <3>3
    <3>5. Directory!Acquire(c, e)
      BY <1>c, <2>1, <3>1, <3>3, <3>4 DEF Directory!Acquire
    <3> QED BY <3>5 DEF Directory!Next
  <2>3. ASSUME NEW c \in Calls, AccessTokenReceived(c)
        PROVE  [Directory!Next]_(Directory!vars)
    <3>1. served' = served /\ stored' = stored
      BY <1>t, <2>3 DEF AccessTokenReceived
    <3> QED BY <1>h, <2>1, <3>1
  <2>4. ASSUME NEW c \in Calls, CallEnds(c)
        PROVE  [Directory!Next]_(Directory!vars)
    <3>1. served[c] # NoToken /\ stored' = stored
      BY <2>4 DEF CallEnds, RefInv, CallsHold
    <3>2. served' = [served EXCEPT ![c] = NoToken]
      BY <1>t, <2>4 DEF CallEnds, IdleCall
    <3>3. Directory!Release(c)
      BY <1>c, <2>1, <3>1, <3>2 DEF Directory!Release
    <3> QED BY <3>3 DEF Directory!Next
  <2>5. CASE Crash
    <3>1. served' = [c \in Calls |-> NoToken] /\ stored' = stored
      BY <2>5 DEF Crash, ForgetRequests, IdleCall
    <3>2. Directory!Stop
      BY <1>c, <2>1, <3>1 DEF Directory!Stop
    <3> QED BY <3>2 DEF Directory!Next
  <2>6. CASE UNCHANGED <<call, stored>>
    BY <1>h, <2>1, <2>6
  <2> QED
    BY <1>4, <2>2, <2>3, <2>4, <2>5, <2>6
    DEF Next, vars, callVars, OAuthStart, WasteNonce, AcceptCallback, TokenReceived,
        CallbackFails, Tick, Restart
<1> QED BY <1>1, <1>2, <1>3, <1>4, <1>5

LEMMA InitSimulation == Init => Directory!Init
<1> SUFFICES ASSUME Init PROVE Directory!Init
  OBVIOUS
<1>1. durable = EmptyBook /\ snapshot = Absent
  BY SentinelsApart DEF Init, StoreInit, durable, Loaded
<1>2. consents(EmptyBook) = Directory!Nobody
  BY DEF EmptyBook, consents, Directory!Nobody
<1>3. [c \in Calls |-> call[c].token] = [c \in Calls |-> NoToken]
  BY DEF Init, IdleCall
<1> QED BY <1>1, <1>2, <1>3 DEF Init, Directory!Init

\* On a disk that writes and reads what it is told to, the server is a directory
\* of consents: what is connected changes by a completed consent or a removal
\* only, no consent is entered twice, a crash loses none of it, and a tool call
\* works under the consent that was in force when it began.  Only a kill inside a
\* write or the loss of the disk, where there are such, costs the directory, and
\* then all of it is what the operator last set as TOKENS_DATA.
THEOREM Refinement ==
  DiskFaults \subseteq {"killed", "volume"} => (Spec => ImplementsDirectory)
<1> SUFFICES ASSUME ObedientDisk PROVE Spec => ImplementsDirectory
  BY DEF ObedientDisk
<1>1. Init => RefInv /\ Directory!Init
  BY RefInvInit, InitSimulation
<1>2. RefInv /\ [Next]_vars => RefInv'
  BY RefInvStep
<1>3. RefInv /\ RefInv' /\ [Next]_vars => [Directory!Next]_(Directory!vars)
  BY StepSimulation
<1> QED BY <1>1, <1>2, <1>3, PTL DEF Spec, ImplementsDirectory, Directory!Spec

=============================================================================
