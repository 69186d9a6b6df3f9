----------------------------- MODULE TokenStore -----------------------------
(***************************************************************************)
(* The encrypted token store of src/auth/token-store.ts with the cipher of *)
(* src/auth/crypto.ts: the in-memory account map, the file accounts.json   *)
(* it is written to, the TOKENS_DATA snapshot it falls back on, and the    *)
(* process that loses its memory when it dies.  StoreSpec is one store     *)
(* over all lives of its process, whoever calls it.                        *)
(*                                                                         *)
(* A refresh token is [owner, id]: the mailbox it opens and the consent it *)
(* came from.  A stored account is the blob TokenCrypto.encrypt makes of   *)
(* it, readable only under the key that made it.  addedAt is left out.     *)
(***************************************************************************)
EXTENDS Naturals

CONSTANTS
  Emails,      \* mailbox addresses
  Keys,        \* values ENCRYPTION_KEY may have, one per process
  MaxGrants,   \* bound on the consents Google turns into refresh tokens
  DiskFaults,  \* how reading and writing accounts.json may go wrong
  NoAccount,   \* the map has no entry
  NoToken,     \* getRefreshToken returned null
  Absent,      \* accounts.json does not exist / TOKENS_DATA is not set
  Corrupt      \* it exists and JSON.parse throws

Grants == 1 .. MaxGrants
Token == [owner : Emails, id : Grants]  \* the refresh tokens there can be
Blob  == [key : Keys, token : Token]
Book  == [Emails -> Blob \cup {NoAccount}]
EmptyBook == [e \in Emails |-> NoAccount]

ASSUME SentinelsApart ==
  /\ NoAccount \notin Blob
  /\ NoToken \notin Token
  /\ {Absent, Corrupt} \cap Book = {}

ASSUME MaxGrantsIsNat == MaxGrants \in Nat

ASSUME DiskFaultKinds ==
  DiskFaults \subseteq {"unreadable", "unwritable", "torn", "killed", "volume"}

VARIABLES
  up,          \* the process is running
  key,         \* its ENCRYPTION_KEY
  accounts,    \* TokenStore.accounts, in memory
  file,        \* DATA_DIR/accounts.json
  tokensData,  \* TOKENS_DATA as this process was started with it
  misread,     \* history: the last start could not read a file that was good
  unsaved,     \* history: the map is not what was last written to the file
  last         \* history: the map as the last finished operation left it

storeVars == <<up, key, accounts, file, tokensData, misread, unsaved, last>>

StoreTypeOK ==
  /\ up \in BOOLEAN
  /\ key \in Keys
  /\ accounts \in Book
  /\ file \in Book \cup {Absent, Corrupt}
  /\ tokensData \in Book \cup {Absent, Corrupt}
  /\ misread \in BOOLEAN
  /\ unsaved \in BOOLEAN
  /\ last \in Book

-----------------------------------------------------------------------------
(* Reading. *)

encrypt(t) == [key |-> key, token |-> t]

hasAccount(e) == accounts[e] # NoAccount

\* A blob made under another key fails GCM authentication: null, not a throw.
getRefreshToken(e) ==
  IF hasAccount(e) /\ accounts[e].key = key THEN accounts[e].token ELSE NoToken

\* What existsSync and readFileSync find: the file, or they throw, which load()
\* treats like a file that does not parse.
ReadOutcomes == {file} \cup (IF "unreadable" \in DiskFaults THEN {Corrupt} ELSE {})

\* What load() puts in the map: the file when it was read and parses, else the
\* snapshot when it parses, else nothing.
Loaded(disk, env) ==
  IF disk \in Book THEN disk ELSE IF env \in Book THEN env ELSE EmptyBook

-----------------------------------------------------------------------------
(* Writing.  save() swallows its exceptions: the write may have done       *)
(* nothing ("unwritable") or have stopped half way ("torn"), and the       *)
(* caller goes on as if it had succeeded.                                  *)

SaveOutcomes(book) ==
  {book} \cup (IF "unwritable" \in DiskFaults THEN {file} ELSE {})
         \cup (IF "torn" \in DiskFaults THEN {Corrupt} ELSE {})

save(book) ==
  /\ file' \in SaveOutcomes(book)
  /\ unsaved' = (file' # book)

addAccount(e, t) ==
  /\ up
  /\ accounts' = [accounts EXCEPT ![e] = encrypt(t)]
  /\ save(accounts')
  /\ last' = accounts'
  /\ UNCHANGED <<up, key, tokensData, misread>>

\* Mutated form: the entry goes, the file is not rewritten.
MutRemoveWithoutSave(e) ==
  /\ up
  /\ hasAccount(e)
  /\ accounts' = [accounts EXCEPT ![e] = NoAccount]
  /\ last' = accounts'
  /\ UNCHANGED <<up, key, tokensData, file, misread, unsaved>>

\* The other branch, no such account, returns false and changes nothing.
removeAccount(e) ==
  /\ up
  /\ hasAccount(e)
  /\ accounts' = [accounts EXCEPT ![e] = NoAccount]
  /\ save(accounts')
  /\ last' = accounts'
  /\ UNCHANGED <<up, key, tokensData, misread>>

-----------------------------------------------------------------------------
(* The life of the process and of its disk. *)

\* The process dies between two operations.
crash ==
  /\ up
  /\ up' = FALSE
  /\ accounts' = EmptyBook
  /\ UNCHANGED <<key, file, tokensData, misread, unsaved, last>>

\* It dies inside writeFileSync, which truncates the file before writing it.
crashInSave ==
  /\ up
  /\ "killed" \in DiskFaults
  /\ up' = FALSE
  /\ accounts' = EmptyBook
  /\ file' = Corrupt
  /\ unsaved' = TRUE
  /\ UNCHANGED <<key, tokensData, misread, last>>

\* The container is replaced and DATA_DIR was not on a volume.
loseVolume ==
  /\ ~up
  /\ "volume" \in DiskFaults
  /\ file # Absent
  /\ file' = Absent
  /\ unsaved' = TRUE
  /\ UNCHANGED <<up, key, accounts, tokensData, misread, last>>

\* Mutated form: the snapshot is tried before the file.
MutLoadSnapshotFirst(k, env) ==
  /\ ~up
  /\ up' = TRUE
  /\ key' = k
  /\ tokensData' = env
  /\ accounts' = Loaded(env, file)
  /\ last' = accounts'
  /\ misread' = FALSE
  /\ IF env \in Book
       THEN save(accounts')
       ELSE file' = file /\ unsaved' = FALSE

\* The constructor with its load(), under the environment of this start.  A good
\* file that could not be read is overwritten by the snapshot at once, or else
\* by the next change.
start(k, env) ==
  /\ ~up
  /\ up' = TRUE
  /\ key' = k
  /\ tokensData' = env
  /\ \E disk \in ReadOutcomes :
       /\ accounts' = Loaded(disk, env)
       /\ misread' = (disk # file /\ file \in Book)
       /\ IF disk \notin Book /\ env \in Book
            THEN save(accounts')
            ELSE file' = file /\ unsaved' = misread'
  /\ last' = accounts'

StoreInit ==
  /\ up = FALSE
  /\ key \in Keys
  /\ accounts = EmptyBook
  /\ file = Absent
  /\ tokensData = Absent
  /\ misread = FALSE
  /\ unsaved = FALSE
  /\ last = EmptyBook

StoreNext ==
  \/ \E t \in Token : addAccount(t.owner, t)
  \/ \E e \in Emails : removeAccount(e)
  \/ crash
  \/ crashInSave
  \/ loseVolume
  \/ \E k \in Keys, env \in Book \cup {Absent, Corrupt} : start(k, env)

StoreSpec == StoreInit /\ [][StoreNext]_storeVars

-----------------------------------------------------------------------------
\* A write that failed is made up for by the next one that does not, and a file
\* that could not be read by the first: unless the last of them went wrong, what
\* load() would rebuild now, from the file or from the snapshot the process was
\* given, is exactly the map as the last operation left it, removals included.
SavedIsRecoverable == ~unsaved => Loaded(file, tokensData) = last

NothingWentWrong == ~unsaved /\ ~misread' /\ (file \in Book \/ tokensData' = tokensData)
\* TOKENS_DATA is what the setup page last showed for it.
SnapshotIsCurrent == (file \notin Book \/ misread') /\ tokensData' = last

\* A restart, under whatever key, brings back the accounts as they were, neither
\* losing one nor resurrecting a removed one: when nothing went wrong with the
\* file, unless there is none and TOKENS_DATA was changed; and when the file is
\* lost, torn or cannot be read, if TOKENS_DATA is a snapshot of the last state.
RestartKeepsAccounts ==
  [][~up /\ up' /\ (NothingWentWrong \/ SnapshotIsCurrent) => accounts' = last]_storeVars

-----------------------------------------------------------------------------
\* The README, of the directory accounts.json is in: "Mount /app/data so
\* connected accounts survive container replacement."  A server that has only
\* the volume, TOKENS_DATA unset or left as it was, may be killed while it
\* changes one account; the others are to survive it.
AccountsSurviveReplacement ==
  [][~up /\ up' /\ tokensData' = tokensData =>
       \E changing \in Emails :
         \A e \in Emails \ {changing} : accounts'[e] = last[e]]_storeVars

=============================================================================
