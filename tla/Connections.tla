----------------------------- MODULE Connections -----------------------------
(***************************************************************************)
(* The life of a connected account, src/http/oauth.ts, src/http/setup.ts   *)
(* and src/mcp/accounts.ts over the token store: an admin starts Google's  *)
(* consent flow, callbacks exchange their codes and store the refresh      *)
(* token, the setup page removes accounts and shows the value to set       *)
(* TOKENS_DATA to, and tool calls take Gmail clients out of the cache.     *)
(* A handler runs alone between two awaits, so a step is the code from one *)
(* await to the next; every interleaving of the steps of different         *)
(* requests is a behaviour.                                                *)
(*                                                                         *)
(* Admin authentication is LoginLimiter's subject: every request to        *)
(* /oauth/start and /setup/remove here has passed it.                      *)
(***************************************************************************)
EXTENDS TokenStore

CONSTANTS
  Nonces,     \* values randomBytes may return, each at most once
  Callbacks,  \* concurrent requests to /oauth/callback
  Calls,      \* concurrent tool calls
  StateTTL,   \* STATE_TTL_MS
  MaxTime,    \* bound on the clock
  NoNonce     \* a callback that has not been accepted

ASSUME NaturalBounds ==
  StateTTL \in Nat /\ MaxTime \in Nat

VARIABLES
  now,       \* Date.now(), in units the TTL is a multiple of
  pending,   \* pendingStates: when each issued nonce expires
  issued,    \* history: when each nonce was issued
  accepted,  \* history: the callbacks that got past consumeState, by nonce
  cb,        \* the callback requests in progress
  clients,   \* AccountService.clients: the refresh token of the cached client
  built,     \* history: OAuth2 clients made for each token since the start
  call,      \* the tool calls in progress
  snapshot,  \* the TOKENS_DATA the deployment has, which the next start reads
  grants,    \* refresh tokens Google has issued
  stored     \* history: those that were handed to the token store

flowVars == <<pending, issued, accepted, cb>>
callVars == <<clients, built, call>>
vars == <<storeVars, flowVars, callVars, now, snapshot, grants, stored>>

Never == MaxTime + StateTTL + 1

\* A callback is at an await or waiting for a request to serve.
IdleCallback == [pc |-> "idle", nonce |-> NoNonce, token |-> NoToken]
IdleCall == [pc |-> "idle", email |-> NoAccount, token |-> NoToken]

TypeOK ==
  /\ StoreTypeOK
  /\ now \in 0 .. MaxTime
  /\ pending \in [Nonces -> Nat]
  /\ issued \in [Nonces -> Nat]
  /\ accepted \in [Nonces -> Nat]
  /\ cb \in [Callbacks -> [pc : {"idle", "getToken", "userinfo"},
                           nonce : Nonces \cup {NoNonce},
                           token : Token \cup {NoToken}]]
  /\ clients \in [Emails -> Token \cup {NoToken}]
  /\ built \in [Grants -> Nat]
  /\ call \in [Calls -> [pc : {"idle", "getAccessToken", "gmail"},
                         email : Emails \cup {NoAccount},
                         token : Token \cup {NoToken}]]
  /\ snapshot \in Book \cup {Absent}
  /\ grants \in 0 .. MaxGrants
  /\ stored \subseteq Token

Init ==
  /\ StoreInit
  /\ now = 0
  /\ pending = [n \in Nonces |-> Never]
  /\ issued = [n \in Nonces |-> Never]
  /\ accepted = [n \in Nonces |-> 0]
  /\ cb = [b \in Callbacks |-> IdleCallback]
  /\ clients = [e \in Emails |-> NoToken]
  /\ built = [g \in Grants |-> 0]
  /\ call = [c \in Calls |-> IdleCall]
  /\ snapshot = Absent
  /\ grants = 0
  /\ stored = {}

isPending(n) == pending[n] # Never
expired(n) == pending[n] < now

-----------------------------------------------------------------------------
(* GET /oauth/start. *)

\* issueState drops the expired nonces and adds a fresh one.
OAuthStart(n) ==
  /\ up
  /\ issued[n] = Never
  /\ issued' = [issued EXCEPT ![n] = now]
  /\ pending' = [m \in Nonces |-> IF m = n THEN now + StateTTL
                                  ELSE IF expired(m) THEN Never ELSE pending[m]]
  /\ UNCHANGED <<storeVars, accepted, cb, callVars, now, snapshot, grants, stored>>

(* GET /oauth/callback, up to its first await.  consumeState deletes the   *)
(* nonce before it looks at its age.                                       *)

\* Mutated form: the nonce stays pending.
MutAcceptCallback(b, n) ==
  /\ up
  /\ cb[b].pc = "idle"
  /\ isPending(n) /\ ~expired(n)
  /\ accepted' = [accepted EXCEPT ![n] = @ + 1]
  /\ cb' = [cb EXCEPT ![b] = [pc |-> "getToken", nonce |-> n, token |-> NoToken]]
  /\ UNCHANGED <<storeVars, issued, pending, callVars, now, snapshot, grants, stored>>

\* The state is good and Google sent a code: getToken is awaited.
AcceptCallback(b, n) ==
  /\ up
  /\ cb[b].pc = "idle"
  /\ isPending(n) /\ ~expired(n)
  /\ pending' = [pending EXCEPT ![n] = Never]
  /\ accepted' = [accepted EXCEPT ![n] = @ + 1]
  /\ cb' = [cb EXCEPT ![b] = [pc |-> "getToken", nonce |-> n, token |-> NoToken]]
  /\ UNCHANGED <<storeVars, issued, callVars, now, snapshot, grants, stored>>

\* The nonce is known but too old, or Google reported an error, or sent no
\* code: it is used up and the handler is done.  An unknown state changes
\* nothing.
WasteNonce(n) ==
  /\ up
  /\ isPending(n)
  /\ pending' = [pending EXCEPT ![n] = Never]
  /\ UNCHANGED <<storeVars, issued, accepted, cb, callVars, now, snapshot, grants, stored>>

-----------------------------------------------------------------------------
(* The rest of the callback. *)

\* getToken returned the refresh token of the mailbox whose owner consented;
\* userinfo.get is awaited.
TokenReceived(b, e) ==
  /\ up
  /\ cb[b].pc = "getToken"
  /\ grants < MaxGrants
  /\ grants' = grants + 1
  /\ cb' = [cb EXCEPT ![b].pc = "userinfo",
                      ![b].token = [owner |-> e, id |-> grants + 1]]
  /\ UNCHANGED <<storeVars, pending, issued, accepted, callVars, now, snapshot, stored>>

\* Either await throws, or there is no refresh token, or no address.
CallbackFails(b) ==
  /\ up
  /\ cb[b].pc # "idle"
  /\ cb' = [cb EXCEPT ![b] = IdleCallback]
  /\ UNCHANGED <<storeVars, pending, issued, accepted, callVars, now, snapshot, grants, stored>>

\* Mutated form: the handlers share one OAuth2 client, so the token stored is
\* that of whichever consent came last.
MutStoreAccount(b) ==
  /\ cb[b].pc = "userinfo"
  /\ \E d \in Callbacks :
       /\ cb[d].pc = "userinfo" /\ cb[d].token.id >= cb[b].token.id
       /\ addAccount(cb[b].token.owner, cb[d].token)
  /\ clients' = [clients EXCEPT ![cb[b].token.owner] = NoToken]
  /\ cb' = [cb EXCEPT ![b] = IdleCallback]
  /\ stored' = stored \cup {cb[b].token}
  /\ UNCHANGED <<pending, issued, accepted, built, call, now, snapshot, grants>>

\* userinfo.get returned the address of the mailbox the token opens.
StoreAccount(b) ==
  /\ cb[b].pc = "userinfo"
  /\ addAccount(cb[b].token.owner, cb[b].token)
  /\ clients' = [clients EXCEPT ![cb[b].token.owner] = NoToken]
  /\ cb' = [cb EXCEPT ![b] = IdleCallback]
  /\ stored' = stored \cup {cb[b].token}
  /\ UNCHANGED <<pending, issued, accepted, built, call, now, snapshot, grants>>

-----------------------------------------------------------------------------
(* POST /setup/remove. *)

\* Mutated form: the cached client survives the account.
MutRemoveAccount(e) ==
  /\ removeAccount(e)
  /\ UNCHANGED <<flowVars, callVars, now, snapshot, grants, stored>>

RemoveAccount(e) ==
  /\ removeAccount(e)
  /\ clients' = [clients EXCEPT ![e] = NoToken]
  /\ UNCHANGED <<flowVars, built, call, now, snapshot, grants, stored>>

\* GET /setup, for the operator: TOKENS_DATA is set in the deployment to what the
\* page shows now, or taken out of it.  The running process does not notice.
SetTokensData ==
  /\ up
  /\ snapshot' \in {accounts, Absent}
  /\ UNCHANGED <<storeVars, flowVars, callVars, now, grants, stored>>

-----------------------------------------------------------------------------
(* A tool call: getGmailService, then requests to Gmail. *)

\* Mutated form: a client is made for every call.
MutGetGmailService(c, e) ==
  /\ up
  /\ call[c].pc = "idle"
  /\ getRefreshToken(e) # NoToken
  /\ clients' = [clients EXCEPT ![e] = getRefreshToken(e)]
  /\ built' = [built EXCEPT ![getRefreshToken(e).id] = @ + 1]
  /\ call' = [call EXCEPT ![c] =
                [pc |-> "getAccessToken", email |-> e, token |-> getRefreshToken(e)]]
  /\ UNCHANGED <<storeVars, flowVars, now, snapshot, grants, stored>>

\* Up to the await: without a token the call fails and nothing changes.
getGmailService(c, e) ==
  LET refreshToken == getRefreshToken(e) IN
  /\ up
  /\ call[c].pc = "idle"
  /\ refreshToken # NoToken
  /\ IF clients[e] = refreshToken
       THEN UNCHANGED <<clients, built>>
       ELSE /\ clients' = [clients EXCEPT ![e] = refreshToken]
            /\ built' = [built EXCEPT ![refreshToken.id] = @ + 1]
  /\ call' = [call EXCEPT ![c] =
                [pc |-> "getAccessToken", email |-> e, token |-> clients'[e]]]
  /\ UNCHANGED <<storeVars, flowVars, now, snapshot, grants, stored>>

\* getAccessToken answered: the call works on the mailbox.
AccessTokenReceived(c) ==
  /\ up
  /\ call[c].pc = "getAccessToken"
  /\ call' = [call EXCEPT ![c].pc = "gmail"]
  /\ UNCHANGED <<storeVars, flowVars, clients, built, now, snapshot, grants, stored>>

\* It gave no token or threw, or the work on the mailbox is over.  The cached
\* client stays.
CallEnds(c) ==
  /\ up
  /\ call[c].pc # "idle"
  /\ call' = [call EXCEPT ![c] = IdleCall]
  /\ UNCHANGED <<storeVars, flowVars, clients, built, now, snapshot, grants, stored>>

-----------------------------------------------------------------------------
Tick ==
  /\ now < MaxTime
  /\ now' = now + 1
  /\ UNCHANGED <<storeVars, flowVars, callVars, snapshot, grants, stored>>

\* What the process held in memory besides the store.
ForgetRequests ==
  /\ pending' = [n \in Nonces |-> Never]
  /\ cb' = [b \in Callbacks |-> IdleCallback]
  /\ clients' = [e \in Emails |-> NoToken]
  /\ built' = [g \in Grants |-> 0]
  /\ call' = [c \in Calls |-> IdleCall]
  /\ UNCHANGED <<issued, accepted, now, snapshot, grants, stored>>

Crash == crash /\ ForgetRequests

\* Death inside the save of a callback or of a removal.
CrashInSave ==
  /\ crashInSave
  /\ \/ \E b \in Callbacks : cb[b].pc = "userinfo"
     \/ \E e \in Emails : hasAccount(e)
  /\ ForgetRequests

\* The container is replaced by one without the old one's disk.
LoseVolume ==
  /\ loseVolume
  /\ UNCHANGED <<flowVars, callVars, now, snapshot, grants, stored>>

Restart(k) ==
  /\ start(k, snapshot)
  /\ UNCHANGED <<flowVars, callVars, now, snapshot, grants, stored>>

Next ==
  \/ \E n \in Nonces : OAuthStart(n) \/ WasteNonce(n)
  \/ \E b \in Callbacks, n \in Nonces : AcceptCallback(b, n)
  \/ \E b \in Callbacks, e \in Emails : TokenReceived(b, e)
  \/ \E b \in Callbacks : StoreAccount(b) \/ CallbackFails(b)
  \/ \E e \in Emails : RemoveAccount(e)
  \/ SetTokensData
  \/ \E c \in Calls, e \in Emails : getGmailService(c, e)
  \/ \E c \in Calls : AccessTokenReceived(c) \/ CallEnds(c)
  \/ Tick
  \/ Crash
  \/ CrashInSave
  \/ LoseVolume
  \/ \E k \in Keys : Restart(k)

Spec == Init /\ [][Next]_vars

-----------------------------------------------------------------------------
\* The client cache never serves an account that was removed, nor an old
\* consent of one that was re-added: a cached client was made from the refresh
\* token the store returns for that address now.
CacheCoherent ==
  \A e \in Emails : clients[e] # NoToken => clients[e] = getRefreshToken(e)

\* However callbacks, removals and calls interleave, a refresh token is stored,
\* cached and used only for the mailbox whose owner gave the consent.
MailboxIsolation ==
  /\ \A e \in Emails :
       /\ getRefreshToken(e) # NoToken => getRefreshToken(e).owner = e
       /\ clients[e] # NoToken => clients[e].owner = e
  /\ \A c \in Calls : call[c].pc # "idle" => call[c].token.owner = call[c].email

\* "Keeps one OAuth2 client per account": between two starts no more than one
\* client is made from a refresh token, so calls share its access token.
OneClientPerConsent == \A g \in Grants : built[g] <= 1

\* The README: the state parameter "is a single-use server-side nonce".  It
\* lets one callback through, while no older than STATE_TTL_MS, and none after
\* a restart.
SingleUseNonce ==
  [][\A n \in Nonces :
       accepted'[n] # accepted[n] =>
         accepted[n] = 0 /\ up /\ now <= issued[n] + StateTTL]_vars

-----------------------------------------------------------------------------
\* The accounts that the running process has, or that a start would find.
durable == IF up THEN accounts ELSE Loaded(file, snapshot)

consents(book) ==
  [e \in Emails |-> IF book[e] = NoAccount THEN NoToken ELSE book[e].token]

Directory == INSTANCE AccountDirectory WITH
  Consents <- Token,
  NoConsent <- NoToken,
  Losable <- DiskFaults # {},
  directory <- consents(durable),
  copy <- consents(IF snapshot = Absent THEN EmptyBook ELSE snapshot),
  spent <- stored,
  serving <- [c \in Calls |-> call[c].token]

\* On a disk that writes and reads what it is told to, the server is a directory
\* of consents: accounts appear only through a completed consent, each consent at
\* most once, disappear only through a removal, survive a crash, and a call works
\* under the consent in force when it began.  A kill inside a write, or a new
\* container without the old disk, costs the directory as a whole: what was last
\* set as TOKENS_DATA replaces it, accounts removed since included, and where
\* nothing was set there is none.
ImplementsDirectory == Directory!Spec

=============================================================================
