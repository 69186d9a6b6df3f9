------------------------- MODULE TokenStore_proofs -------------------------
(***************************************************************************)
(* What the operations of the token store preserve, for the modules that   *)
(* are built over it, and that restarting it loses nothing: for any        *)
(* mailboxes, keys and disk faults.                                        *)
(***************************************************************************)
EXTENDS TokenStore, TLAPS

LEMMA BookExcept ==
  ASSUME NEW b \in Book, NEW e \in Emails, NEW v \in Blob \cup {NoAccount}
  PROVE  [b EXCEPT ![e] = v] \in Book
BY DEF Book

LEMMA LoadedIsBook ==
  ASSUME NEW disk, NEW env
  PROVE  Loaded(disk, env) \in Book
BY DEF Loaded, EmptyBook, Book

LEMMA EmptyBookIsBook == EmptyBook \in Book
BY DEF EmptyBook, Book

LEMMA SaveType ==
  ASSUME NEW book \in Book, file \in Book \cup {Absent, Corrupt}, save(book)
  PROVE  file' \in Book \cup {Absent, Corrupt} /\ unsaved' \in BOOLEAN
BY DEF save, SaveOutcomes

LEMMA AddAccountType ==
  ASSUME StoreTypeOK, NEW e \in Emails, NEW t \in Token, addAccount(e, t)
  PROVE  StoreTypeOK'
<1>1. encrypt(t) \in Blob
  BY DEF StoreTypeOK, encrypt, Blob
<1>2. accounts' \in Book
  BY <1>1 DEF addAccount, StoreTypeOK, Book
<1> QED BY <1>2, SaveType DEF addAccount, StoreTypeOK

LEMMA RemoveAccountType ==
  ASSUME StoreTypeOK, NEW e \in Emails, removeAccount(e)
  PROVE  StoreTypeOK'
<1>1. accounts' \in Book
  BY DEF removeAccount, StoreTypeOK, Book
<1> QED BY <1>1, SaveType DEF removeAccount, StoreTypeOK

LEMMA CrashType ==
  ASSUME StoreTypeOK, crash \/ crashInSave
  PROVE  StoreTypeOK'
BY EmptyBookIsBook DEF crash, crashInSave, StoreTypeOK

LEMMA StartType ==
  ASSUME StoreTypeOK, NEW k \in Keys, NEW env \in Book \cup {Absent, Corrupt}, start(k, env)
  PROVE  StoreTypeOK'
<1>1. accounts' \in Book /\ misread' \in BOOLEAN
  BY LoadedIsBook DEF start
<1> QED BY <1>1, SaveType DEF start, StoreTypeOK

\* A refresh token that decrypts is one the store holds.
LEMMA RefreshTokenType ==
  ASSUME StoreTypeOK, NEW e \in Emails
  PROVE  /\ getRefreshToken(e) \in Token \cup {NoToken}
         /\ getRefreshToken(e) # NoToken =>
              accounts[e] # NoAccount /\ getRefreshToken(e) = accounts[e].token
<1>1. accounts[e] \in Blob \cup {NoAccount}
  BY DEF StoreTypeOK, Book
<1> QED BY <1>1 DEF getRefreshToken, hasAccount, Blob

-----------------------------------------------------------------------------
(* Every stored map, in memory, in the file or in the snapshot, holds each *)
(* consent under its owner's address.                                      *)

OwnerKept(book) ==
  book \in Book =>
    \A e \in Emails : book[e] # NoAccount => book[e].token.owner = e

OwnersKept == OwnerKept(accounts) /\ OwnerKept(file) /\ OwnerKept(tokensData)

LEMMA OwnerOfRefreshToken ==
  ASSUME StoreTypeOK, OwnersKept, NEW e \in Emails, getRefreshToken(e) # NoToken
  PROVE  getRefreshToken(e).owner = e
BY RefreshTokenType DEF OwnersKept, OwnerKept, StoreTypeOK

LEMMA SaveKeepsOwners ==
  ASSUME NEW book, OwnerKept(book), OwnerKept(file), save(book)
  PROVE  OwnerKept(file')
BY SentinelsApart DEF save, SaveOutcomes, OwnerKept

LEMMA AddAccountOwners ==
  ASSUME StoreTypeOK, OwnersKept, NEW t, addAccount(t.owner, t)
  PROVE  OwnersKept'
<1>1. /\ accounts' = [accounts EXCEPT ![t.owner] = encrypt(t)]
      /\ save(accounts') /\ tokensData' = tokensData
  BY DEF addAccount
<1>2. OwnerKept(accounts')
  BY <1>1 DEF OwnersKept, OwnerKept, encrypt, StoreTypeOK, Book
<1> QED BY <1>1, <1>2, SaveKeepsOwners DEF OwnersKept

LEMMA RemoveAccountOwners ==
  ASSUME StoreTypeOK, OwnersKept, NEW e \in Emails, removeAccount(e)
  PROVE  OwnersKept'
<1>1. /\ accounts' = [accounts EXCEPT ![e] = NoAccount]
      /\ save(accounts') /\ tokensData' = tokensData
  BY DEF removeAccount
<1>2. OwnerKept(accounts')
  BY <1>1 DEF OwnersKept, OwnerKept, StoreTypeOK, Book
<1> QED BY <1>1, <1>2, SaveKeepsOwners DEF OwnersKept

LEMMA EmptyBookOwned == OwnerKept(EmptyBook)
BY DEF OwnerKept, EmptyBook

LEMMA CrashOwners ==
  ASSUME OwnersKept, crash \/ crashInSave
  PROVE  OwnersKept'
<1>1. accounts' = EmptyBook /\ file' \in {file, Corrupt} /\ tokensData' = tokensData
  BY DEF crash, crashInSave
<1> QED BY <1>1, EmptyBookOwned, SentinelsApart DEF OwnersKept, OwnerKept

\* A start reads the file, or nothing that parses.
LEMMA DiskRead ==
  ASSUME NEW disk \in ReadOutcomes
  PROVE  disk \in Book => disk = file
BY SentinelsApart DEF ReadOutcomes

LEMMA StartOwners ==
  ASSUME OwnersKept, NEW k \in Keys, NEW env, OwnerKept(env), start(k, env)
  PROVE  OwnersKept'
<1>1. PICK disk \in ReadOutcomes : accounts' = Loaded(disk, env)
  BY DEF start
<1>2. tokensData' = env /\ (save(accounts') \/ file' = file)
  BY DEF start
<1>3. OwnerKept(accounts')
  BY <1>1, DiskRead, EmptyBookOwned DEF Loaded, OwnersKept
<1> QED BY <1>2, <1>3, SaveKeepsOwners DEF OwnersKept

LEMMA StoreInitOwners == StoreInit => StoreTypeOK /\ OwnersKept
BY EmptyBookIsBook, SentinelsApart
DEF StoreInit, StoreTypeOK, OwnersKept, OwnerKept, EmptyBook

-----------------------------------------------------------------------------
(* The store on its own. *)

LEMMA SavedIsSaved ==
  ASSUME NEW book \in Book, save(book)
  PROVE  ~unsaved' => file' = book
BY DEF save

LEMMA StoreTypeStep == StoreTypeOK /\ [StoreNext]_storeVars => StoreTypeOK'
<1> SUFFICES ASSUME StoreTypeOK, [StoreNext]_storeVars PROVE StoreTypeOK'
  OBVIOUS
<1>1. ASSUME NEW t \in Token, addAccount(t.owner, t) PROVE StoreTypeOK'
  <2>1. t.owner \in Emails
    BY DEF Token
  <2> QED BY <1>1, <2>1, AddAccountType
<1>2. ASSUME NEW e \in Emails, removeAccount(e) PROVE StoreTypeOK'
  BY <1>2, RemoveAccountType
<1>3. CASE crash \/ crashInSave
  BY <1>3, CrashType
<1>4. CASE loseVolume
  BY <1>4 DEF loseVolume, StoreTypeOK
<1>5. ASSUME NEW k \in Keys, NEW env \in Book \cup {Absent, Corrupt}, start(k, env)
      PROVE  StoreTypeOK'
  BY <1>5, StartType
<1>6. CASE UNCHANGED storeVars
  BY <1>6 DEF storeVars, StoreTypeOK
<1> QED BY <1>1, <1>2, <1>3, <1>4, <1>5, <1>6 DEF StoreNext

\* Type correctness of the store and of the environment it is run in.
THEOREM StoreTypeCorrect == StoreSpec => []StoreTypeOK
BY StoreInitOwners, StoreTypeStep, PTL DEF StoreSpec

\* The map a running process has is the one its last operation left, and while
\* no write has gone wrong load() would rebuild it.
LiveIsLast == up => accounts = last

StoreInv == StoreTypeOK /\ LiveIsLast /\ SavedIsRecoverable

LEMMA StoreInvInit == StoreInit => StoreInv
<1> SUFFICES ASSUME StoreInit PROVE StoreInv
  OBVIOUS
<1>1. StoreTypeOK
  BY StoreInitOwners
<1>2. Absent \notin Book
  BY SentinelsApart
<1> QED
  BY <1>1, <1>2 DEF StoreInit, StoreInv, LiveIsLast, SavedIsRecoverable, Loaded

LEMMA StoreInvStep ==
  ASSUME StoreInv, StoreTypeOK', [StoreNext]_storeVars
  PROVE  StoreInv'
<1> USE SentinelsApart DEF StoreInv, LiveIsLast, SavedIsRecoverable
<1>1. ASSUME NEW e \in Emails, NEW t, addAccount(e, t) \/ removeAccount(e)
      PROVE  StoreInv'
  <2>1. accounts' \in Book
    BY DEF StoreTypeOK
  <2>2. ~unsaved' => file' = accounts'
    BY <1>1, <2>1, SavedIsSaved DEF addAccount, removeAccount
  <2>3. last' = accounts'
    BY <1>1 DEF addAccount, removeAccount
  <2> QED BY <2>1, <2>2, <2>3 DEF Loaded
<1>2. CASE crash
  BY <1>2 DEF crash, Loaded
<1>3. CASE crashInSave \/ loseVolume
  BY <1>3 DEF crashInSave, loseVolume
<1>4. ASSUME NEW k \in Keys, NEW env \in Book \cup {Absent, Corrupt}, start(k, env)
      PROVE  StoreInv'
  <2>1. accounts' = last' /\ accounts' \in Book
    BY <1>4 DEF start, StoreTypeOK
  <2>2. PICK disk \in ReadOutcomes :
          /\ accounts' = Loaded(disk, env)
          /\ misread' = (disk # file /\ file \in Book)
          /\ IF disk \notin Book /\ env \in Book
               THEN save(accounts')
               ELSE file' = file /\ unsaved' = misread'
    BY <1>4 DEF start
  <2>3. tokensData' = env
    BY <1>4 DEF start
  <2>4. CASE disk \notin Book /\ env \in Book
    <3>1. ~unsaved' => file' = accounts'
      BY <2>1, <2>2, <2>4, SavedIsSaved
    <3> QED BY <2>1, <3>1 DEF Loaded
  <2>5. CASE ~(disk \notin Book /\ env \in Book) /\ ~unsaved'
    <3>1. file' = file /\ (disk = file \/ file \notin Book)
      BY <2>2, <2>5
    <3>2. Loaded(disk, env) = Loaded(file, env)
      BY <2>5, <3>1, DiskRead DEF Loaded
    <3> QED BY <2>1, <2>2, <2>3, <3>1, <3>2
  <2> QED BY <2>1, <2>4, <2>5
<1>5. CASE UNCHANGED storeVars
  BY <1>5 DEF storeVars, Loaded
<1>6. \A t \in Token : t.owner \in Emails
  BY DEF Token
<1> QED BY <1>1, <1>2, <1>3, <1>4, <1>5, <1>6 DEF StoreNext

\* As long as no write went wrong, load() would rebuild the map of the last
\* operation: whatever the mailboxes, the keys, and the faults the disk has had.
THEOREM Recoverable == StoreSpec => []SavedIsRecoverable
<1>1. StoreInv /\ StoreTypeOK' /\ [StoreNext]_storeVars => StoreInv'
  BY StoreInvStep
<1>2. StoreInv => SavedIsRecoverable
  BY DEF StoreInv
<1> QED BY StoreInvInit, <1>1, StoreTypeCorrect, <1>2, PTL DEF StoreSpec

\* A restart brings back the accounts as they were, from the file while nothing
\* has gone wrong with it, or from a current TOKENS_DATA when there is none or it
\* cannot be read.
THEOREM RestartSafe == StoreSpec => RestartKeepsAccounts
<1>1. StoreTypeOK /\ SavedIsRecoverable /\ [StoreNext]_storeVars =>
        [~up /\ up' /\ (NothingWentWrong \/ SnapshotIsCurrent) => accounts' = last]_storeVars
  <2> SUFFICES ASSUME StoreTypeOK, SavedIsRecoverable, StoreNext, ~up, up',
                      NothingWentWrong \/ SnapshotIsCurrent
               PROVE  accounts' = last
    OBVIOUS
  <2>1. PICK k \in Keys, env \in Book \cup {Absent, Corrupt} : start(k, env)
    BY DEF StoreNext, addAccount, removeAccount, crash, crashInSave, loseVolume
  <2>2. PICK disk \in ReadOutcomes :
          /\ accounts' = Loaded(disk, env)
          /\ misread' = (disk # file /\ file \in Book)
    BY <2>1 DEF start
  <2>3. tokensData' = env
    BY <2>1 DEF start
  <2>4. CASE NothingWentWrong
    <3>1. disk = file \/ file \notin Book
      BY <2>2, <2>4 DEF NothingWentWrong
    <3>2. Loaded(disk, env) = Loaded(file, tokensData)
      BY <2>3, <2>4, <3>1, DiskRead DEF NothingWentWrong, Loaded
    <3> QED BY <2>2, <2>4, <3>2 DEF NothingWentWrong, SavedIsRecoverable
  <2>5. CASE SnapshotIsCurrent
    <3>1. disk \notin Book
      BY <2>2, <2>5, DiskRead DEF SnapshotIsCurrent
    <3> QED BY <2>2, <2>3, <2>5, <3>1 DEF SnapshotIsCurrent, Loaded, StoreTypeOK
  <2> QED BY <2>4, <2>5
<1> QED
  BY <1>1, StoreTypeCorrect, Recoverable, PTL DEF StoreSpec, RestartKeepsAccounts

=============================================================================
