# A TLA+ verification of the Gmail MCP server

The server connects Gmail accounts through Google's consent flow, keeps their
refresh tokens encrypted in one file, and offers mail tools over MCP to clients
that present a bearer token. It is one Node process: a handler runs alone
between two `await`s, and everything that can go wrong between handlers goes
wrong at an `await`, at a call to Google or Gmail, at the disk, or at the death
of the process. The modules here model the code under `src/src/` at that grain.

## 1. The system

| Component | State | Operations | Hard part |
|---|---|---|---|
| Token store, `auth/token-store.ts`, `auth/crypto.ts` | map of accounts, `accounts.json`, `TOKENS_DATA` | load, save, add, remove, get, export | a save that fails silently or is interrupted, a file that cannot be read, a fallback that may be old, a changed key |
| Consent flow, `http/oauth.ts` | pending nonces | `/oauth/start`, `/oauth/callback` | two awaits per callback, replayed and expired nonces, restarts |
| Setup page, `http/setup.ts` | none of its own | list, remove, show the value for `TOKENS_DATA` | must drop the cached client with the account; the value gets old |
| Account service, `mcp/accounts.ts` | one OAuth2 client per account | `getGmailService`, `invalidate`, `resolveAccounts` | a cache beside a store that changes during its await |
| Admin guard, `http/admin.ts`, `http/login-limiter.ts` | records per IP, global list, locks | check, record a failure or a success, prune, evict | window edges, a capped table that must not forget what counts |
| MCP endpoint, `http/mcp.ts`, `http/mcp-auth.ts` | AuthKit issuer and key set, one server instance per request | authenticate, discover, build, tear down | concurrent and failing discoveries, close events before the listener |
| Trash tools, `gmail/batch.ts`, `mcp/tools/trash.ts` | none (the mailbox) | trash, untrash, batch trash, delete | answers lost after the deed, fallback loop, a cap at the page size |
| Label and filter tools, `gmail/labels.ts`, `gmail/filters.ts`, `mcp/tools/labels.ts` | none (the mailbox) | apply, remove, create a filter | a name resolved by one request and used by another |
| Unsubscribe, `gmail/unsubscribe.ts`, `gmail/links.ts`, `gmail/body.ts` | none | find the body, then POST, mail, GETs in turn | hosts that never answer, a fixed order with many failures, texts nested in multiparts |
| Search tools, `mcp/tools/search.ts`, `shared.ts` | none | search one account or all, by chunks of fetches | an account that fails or is removed in the middle, fetches that outlive their chunk |
| Compose tools, `mcp/tools/compose.ts`, `gmail/compose.ts`, `gmail/mime.ts` | none (drafts in Gmail) | send, reply, draft, list drafts | recipients and threading derived from an earlier message, answers lost after a send |
| Configuration, views | none | parse, render | none |

An admin request passes the guard and reaches the setup page or the consent
flow; both change the token store and then call `invalidate`. A request to
`/mcp` passes `mcpAuth`, gets a server instance of its own, and its tool asks
the account service for a client, which reads the store. No tool writes to the
store, and nothing but the store outlives the process.

What makes each part correct: the store rebuilds its last state from any good
copy that is left; a consent reaches exactly the mailbox of its owner, once;
the cache never outlives the token it was made from; the limiter lets no more
wrong keys through than its limits say, although it forgets; no request without
a credential reaches a tool; the tools that remove mail keep to their cap, their
gate and their report; a filter is what was asked; a search answers for every
account, whole or with an error; a reply reaches whom it should and threads,
and nothing is sent but on a request; the unsubscribe tool tries everything and
always answers.

## 2. The modules

| Module | What it is |
|---|---|
| `TokenStore` | The operations of the store as actions on the map, the file and the snapshot, with the ways a read or a write can go wrong and a process can die (`DiskFaults`), and `StoreSpec`: one store over the lives of its process, each started with any snapshot, whoever calls it. `TokenStore_proofs` proves its properties and what its operations preserve, for the modules built over it. |
| `SharedVolume` | Several processes over one `accounts.json`. |
| `Connections` | EXTENDS `TokenStore`: the consent flow, the setup page's removal and the value it shows for `TOKENS_DATA`, the account service and the tool calls, one action per piece of a handler between awaits. |
| `AccountDirectory` | What connecting accounts promises, without nonces, caches, files or awaits: a directory of consents, and a copy of it that is all that is left where the directory can be lost. `Connections` implements it. `Connections_proofs` proves this, that `Connections` also implements `StoreSpec`, and the other properties of `Connections`. |
| `SearchTools` | EXTENDS `TokenStore`: one call of `list_emails`, `batch_process` or `list_drafts` over a store that admins change. `SearchTools_proofs` proves all of its safety properties. |
| `MailHeaders` | The headers of `mime.ts`: how address lines are put together and taken apart, and what is let out. No state. |
| `Compose` | EXTENDS `MailHeaders`: the tools that send mail and keep drafts, concurrent in one conversation. `Compose_proofs` proves all of its properties. |
| `LoginLimiter` | The limiter and its guard. |
| `McpEndpoint` | Authentication with lazy discovery, and the life of the server instance of a request. |
| `Admission_proofs` | The proofs about the two gates: all properties of `LoginLimiter`, types and admission of `McpEndpoint`. |
| `TrashTools` | The tools that remove mail, concurrent on one mailbox. `TrashTools_proofs` proves all of its properties. |
| `LabelTools` | The tools that change labels and make filters, concurrent on one message, with a user who deletes labels. `LabelTools_proofs` proves all of its properties. |
| `MessageBody` | `extractBody`, a recursive function over a set of MIME trees, and what it promises (`IsBodyOf`). No state. |
| `Unsubscribe` | EXTENDS `MessageBody`: one call of the unsubscribe tool, from the body of the message to the last link. `Unsubscribe_proofs` proves all of its safety properties. |
| `MCConnections`, `MCLoginLimiter`, `MCLabelTools`, `MCCompose`, `MCSearchTools`, `MCUnsubscribe` | Symmetry sets, messages and MIME trees for TLC. |

Correspondence of state and code, where names differ:

- *Store.* A refresh token is the mailbox it opens and the number of the
  consent it came from; an encrypted blob is a token with the key that made it,
  and decrypts under no other. `unsaved` and `last` are history. `Corrupt`
  stands for any file that does not parse, and for one that exists and cannot be
  read: `load()` treats all of them alike. `misread` is history too: the last
  start could not read a file that was good. From then on the file is not what
  the process has, until the next write.
- *Connections.* `cb` and `call` hold the handlers at an await, by the await
  they are at. `clients` is `AccountService.clients`; a client is the refresh
  token it was made from. `issued`, `accepted`, `built` and `stored` are history.
  `snapshot` is the `TOKENS_DATA` of the deployment, which each start reads;
  `tokensData`, of the store, is what the running process was started with. The
  operator sets it to what the setup page shows, or takes it out, in one step
  (`SetTokensData`): that is, it is always a value the page showed, though
  perhaps long ago. A value that was put together by hand is left to
  `TokenStore`, where a start is given any.
- *Limiter.* `log` is the history of wrong keys; the arrays of timestamps in
  the code are sets of positions in it, since the code only appends the current
  time and filters. The insertion order of the `Map` is the order of each
  address's last failure, because every failure deletes and re-inserts. The
  clock moves between requests only: `check` and `recordFailure` of one request
  read it some microseconds apart, without an await in between.
- *MCP endpoint.* `issuer` and `jwks` are the two fields of the verifier; each
  answer of a discovery overwrites the first before the second is made. During an
  outage the document may be unreachable, without an issuer or without keys. The
  instance is built in the step that lets the request in (`next`), since the
  middleware awaits nothing after its decision. The two environment variables are
  the variable `config`, fixed at the start.
- *Search.* `search` is the call at its await: the accounts still to be asked
  with the current one at the head, the page of ids, the position of the chunk
  and the fetches that are out. The two halves of a turn without an await
  between them, `results.push` and the head of the loop, are one step (`pushes`).
  `strays` are the fetches that `Promise.all` left running; `asked`, `seen` and
  `late` are history. The client cache is left to `Connections`, whose
  `CacheCoherent` says that a cached client is for the token the store has. A
  start is given one of `Snapshots`, values that the setup page may have shown.
- *Compose.* A header is a list of mailboxes, a mailbox a list of words of which
  the last is the address; commas, quotes, quotes that are escaped and line breaks
  are words too, so that joining and splitting a header is what the code does with
  it. An address is one word, with the angle brackets that the code looks for, so
  that an address in a quoted name is there for `bareAddress` to find. What a
  header may be (`isMailbox`) lets a quoted name have anything. The names that the
  code reads as RFC 5322 does are the plain ones (`isPlain`): who is reached by a
  reply is stated for these, everything else for all. A subject is empty or how
  often it begins with `Re:`; a Message-ID is a number. Of the headers that are no
  address line, `broken` has the names of those with a line break. Bcc goes wherever Cc goes.
  `mail` holds every message and draft of the conversation; `parent`, `all`, `own`
  (the headers a caller gave), `madeBy` and `sentBy` are history.
- *Bodies.* A MIME part is a type, data and parts; a text is the number of
  unsubscribe links in it. The parts there may be are the constant `Payloads`,
  and `Nesting` says of each how deep it is; that the parts in a part are less
  deep is all that is assumed, and true of every tree. The five `return`s of
  `extractBody` are the five texts of `bodyOf`, the first of which that is not
  empty is taken; the recursion happens for all parts and counts for the first
  that gives something.
- *Unsubscribe.* `attempt` is the request that is out, `tried` those made so
  far. The stages of the function follow each other as `Before` says, and a stage
  without a link or an address is passed over (`opens`). `mailto` counts the
  addresses in the header, of which the first is written to. The awaits before the
  message is there, for a client and for `messages.get`, are one (`MessageGot`,
  `MessageFails`): nothing of the call changes between them.
- *Mail tools.* A step is one answer of Gmail. Gmail's side is external and
  modelled by how the code uses it: `batchModify` ignores unknown ids, `trash`
  rejects them, and a call that fails may have been carried out, `batchModify` for
  any part of its messages.

## 3. The runs

| Run | Shows | Bounds |
|---|---|---|
| `store_faults` | `SavedIsRecoverable`, `RestartKeepsAccounts` under every fault | 2 mailboxes, 2 consents: a change and a later one; unlimited restarts, each with any snapshot |
| `store_killed` | violation of `AccountsSurviveReplacement` | as above, kills only: both accounts are connected and a third write is killed |
| `volume_two_admins` | violation of `VolumeIsWhatAdminsWanted` | 2 replicas, 2 mailboxes |
| `connections` | `CacheCoherent`, `MailboxIsolation`, `OneClientPerConsent`, `SingleUseNonce`, `ImplementsDirectory` | 2 mailboxes, 2 keys, 3 nonces, 2 callbacks and 2 calls at once, 2 consents, so that an account is removed and connected again; `TOKENS_DATA` set and taken out, crashes, kills inside a write, lost disks and restarts without a limit; a clock of two ticks reaches past a nonce's life |
| `limiter` | the budgets, `RemainingIsExact`, `RetryAfterIsExact`, `TableIsBounded`, `LockoutHolds` | 3 addresses over a table of 2, window 2, lock 3, prune interval 2, 5 wrong keys in 6 ticks: failures age out, locks end, the table overflows |
| `mcp` | `AdmittedWithCredential`, `ServedAfterOutage`, `TornDownWhenListening` | 3 requests, all 4 configurations |
| `mcp_teardown` | violation of `TornDown` | 1 request |
| `labels` | `AnswersAreTrue`, `FilterIsWhatWasAsked` | 2 calls, 1 user label made at most twice, 2 system labels |
| `trash_tools` | the cap, the gate, the dry run, the reports | 2 calls, 3 messages, page size 2, lists of up to 2 ids, repetitions included |
| `unsubscribe` | `MostReliableFirst`, `FailureIsExhaustive`, `BodyIsFound`, `Answered` | up to 2 links and 2 addresses in the header, every combination of offers, MIME trees of three levels with up to 2 parts each and texts without data, without links and with 2 |
| `search` | `EveryAccountAnswers`, `AnswerIsWhole`, `RemovedIsNotRead`, `FetchesAreCapped`, `CallEnds` | 2 mailboxes of 3 messages and 1, chunks of 2 and pages of 3, so that a page takes two chunks and the last one is short; 2 keys, unlimited removals and restarts, each start with no `TOKENS_DATA` or with one that holds the first mailbox |
| `compose` | `RepliesReachEveryone`, `ConversationThreads`, `SentByRequest`, `HeadersAreSafe` | 2 calls, 3 messages: a reply to a reply; 41 original messages, from others or oneself, with and without Reply-To (of two mailboxes), plain names with commas or with escaped quotes and names that are not plain, a Message-ID and earlier references, a subject with `Re:` twice, a folded header; recipients and subjects given or not, blank, with a line break |

The type invariants of `McpEndpoint`, `TrashTools`, `Unsubscribe`, `SearchTools`
and `Compose` are checked with these; those of the other modules are proved.
Deadlock is checked where the system never stops (`store_faults`, `search`);
elsewhere requests, nonces or the clock run out, and the configuration says so.
The disk of `connections` fails only by a kill inside a write and by a lost volume,
since a server whose disk does not do what it is told to, or is read wrong, is no
directory of consents. The disk of `search` does not fail. The invariants of both
are proved for every disk fault.

The bounds are small because the properties are about pairs: two callbacks, two
calls, a change and the next one, a table one record short. `Messages`,
`Emails`, `Nonces`, `Callbacks`, `Calls`, `IPs` and `Requests` are sets of model
values; symmetry is used on those no action tells apart, and only in runs without
a liveness property. `MaxTime`, `MaxLog`, `MaxGrants`, `MaxGens`, `MaxMail`,
`MaxIds` and `MaxLinks` bound counters that grow without limit in the system.

### Fairness

`McpEndpoint`, `Unsubscribe` and `SearchTools` have liveness properties.

- `McpEndpoint`: every await is answered or fails in the end, and a finished
  response closes. That a request arrives, that an outage ends and that a
  client hangs up are not assumed. `ServedAfterOutage` starts from a state in
  which the outage is over.
- `Unsubscribe`: timers fire (`AbortSignal.timeout` on every fetch), and calls
  to Gmail end; the client library sets no timeout on them, so this is an
  assumption on Gmail. Nothing is assumed of the hosts behind the links.
- `SearchTools`: an await of the call is answered or rejected in the end, one
  weak fairness condition on all of them together. It does not say which: every
  account may fail, and the removals, the messages that go and the crash are not
  fair.

## 4. Disagreements with the documents

- **A kill during a save loses every account** (`store_killed`). `save()`
  truncates `accounts.json` and then writes it; if the process dies in between,
  the next start finds a file that does not parse. In the run two accounts are
  connected, a write is killed, and the next start, with `TOKENS_DATA` unset as
  before, has neither. The README promises that a mounted volume keeps the
  accounts.
- **Replicas overwrite each other** (`volume_two_admins`). Each reads the file
  once and writes its whole map. The README says that scaling only needs a
  shared volume.
- **An instance may never be torn down** (`mcp_teardown`). The `close` listener
  is registered after `handleRequest` returned, and not at all if it throws.
  `TornDownWhenListening` shows that this is the only way to miss it.

Met while modelling and without a run of their own; the first four are behaviours
of the modules, and the properties there are worded so as not to deny them:

- *HTML may hide plain text.* `extractBody` looks for plain text and then for HTML
  among the parts of a multipart before it looks into the multiparts among them
  (`gmail/body.ts:18-31`): an HTML part beside a multipart is taken before the
  plain text inside, although the comment at `gmail/body.ts:4` says that it prefers
  plain text. `BodyIsFound` says less: a text is found whenever there is one, and
  of two in one multipart not the HTML.
- *A recipient of one's own drops the sender.* For a draft that replies to all, the
  Cc line is filtered against the sender the reply would go to (`gmail/compose.ts:128`);
  then an explicit `to` takes that sender's place (`gmail/service.ts:300`), who is left
  on no line, even when the lines of the original name him. The parameter's
  description at `mcp/tools/compose.ts:99` promises everyone on the original's To
  and Cc lines. Whom the caller gave may also be on both lines.
  `RepliesReachEveryone` says of such a draft only that its Cc line has nobody who
  is not on the original's.
- *Escaped quotes split names.* `splitAddressList` (`gmail/mime.ts:101`) takes an
  escaped quote for a quote, so that a comma after an odd number of them in a name
  splits the mailbox in two; the comment at `gmail/mime.ts:92` says that commas
  inside quoted names do not split. `RepliesReachEveryone` and `LinesComeThrough`
  are about plain names.
- *Brackets in a name mislead.* `bareAddress` (`gmail/mime.ts:115`) takes the first
  text in angle brackets, which may be in the quoted name: a mailbox named by the
  sender's address counts as the sender's and is left out of a reply to all. Such
  names are not plain either.
- Two calls that want the same missing label: the lookup and the creation are two
  requests, so the second creation is rejected (`CreateConflicts`) and that call
  fails, although `README.md` says that labels are created on demand. The call
  reports the error, and what it answers stays true (`AnswersAreTrue`).
- The comment at `gmail/mime.ts:5` says that non-ASCII names are RFC 2047 encoded;
  only the subject is.
- The comment at `mcp/tools/compose.ts:8` says that results echo exactly what was
  sent; they echo `to` and the subject, not the Cc line.
- A reply to a message one has sent oneself goes to oneself.
- `extractBody` returns one text, so that links that are only in the HTML
  alternative are not found.
- An account removed on the setup page comes back when the file is lost, or cannot
  be read at one start, and `TOKENS_DATA` is older than the removal. This is how
  the fallback works; `ImplementsDirectory` says as much (`Lose`), and
  `RestartKeepsAccounts` when it does not happen.

## 5. The proofs

Proved with TLAPS for every value of the constants the assumptions allow.

**Store** (`TokenStore_proofs`; assumes that the sentinels are not data).
`SavedIsRecoverable` speaks of the map as the last operation left it, which is
a history variable; it becomes inductive with the fact that a running process
has exactly that map in memory (`LiveIsLast`), so that every save either writes
it or is marked as having gone wrong. `RestartSafe` follows from this invariant
for a readable file and from `Loaded` for a current snapshot. `Connections` does
to the map and the file only what a store does (`ImplementsStore`: every action
of the server is one of the store or leaves it alone), so that both properties
hold of the whole server as well (`AccountsAreRecoverable`). A start that could not
read a good file counts as unsaved from the beginning; the snapshot it writes over
the file, or the next change, makes up for it.
`SearchTools`, whose calls only read the store while admins change it, implements
it in the same way.

**Connections** (`Connections_proofs`). `CacheIsCoherent` needs that a process
that is down has an empty cache (`DeadCacheEmpty`): a start replaces the map and
the key under it. Then only `StoreAccount` and `RemoveAccount` change the store
of a running process, and both drop the address they change.
`MailboxesAreIsolated` extends the property to the file and the two snapshots a
start may load or has loaded (`OwnersKept`) and to the calls at their await (`CallsOwned`); a
token found at any of these places is its owner's. `NoncesAreSingleUse` rests on
the counts of codes exchanged for each nonce and what is still pending
(`NonceInv`). `OneClientForEachConsent` needs that no consent is in two places,
neither under two addresses of a map nor held by two callbacks nor both
(`ConsentsApart`), so that a second client for it could only be made if the
first were gone from the cache, which `BuiltIsCached` excludes for a consent
that the store still has.

**Refinement** (the last part of `Connections_proofs`; assumes that `DiskFaults` has
no fault but `"killed"` and `"volume"`).
The directory is the map while the process is up and what the next start would
load while it is down, from the file or else from `snapshot`; its copy is
`snapshot`. Every step maps to a step of `AccountDirectory` or stutters. The
invariant says that a file which is there and parses is the running map
(`FileIsCurrent`), that a callback holds a consent no one else holds and that was
not stored before (`FreshConsents`), and that a call has a token exactly while it
is in progress (`CallsHold`). A crash maps to `Stop`: it ends the calls and leaves
the directory. A kill inside a write and a lost volume map to `Lose`, after which
the directory is the copy, and which is enabled in `AccountDirectory` only where
such things can happen (`Losable`); setting or taking out `TOKENS_DATA` maps to
`Copy`, which may be done at any time. With `DiskFaults = {}` the theorem says
that a crash at any point loses nothing and that `TOKENS_DATA` is never looked at
again once there is a file.

**Search** (`SearchTools_proofs`; assumes finitely many mailboxes and messages,
positive sizes). `TurnInv` ties the call to the accounts it resolved to: the
answered ones, in order, then those to come. A turn moves the head of the second
list to the end of the first (`MoveHead`), whichever of the five ways it ends.
Within a turn, what is fetched is the part of the page before the chunk, so that
the last chunk completes it (`NextChunkTurn`). `LateInv` says that a removed
account has no token; with `TurnsApart`, the account at its turn is not one that
was removed while it waited, and one that was gets an error when its turn comes.
`FetchesCapped` needs a second invariant, `CapInv`: the fetches that a chunk left
behind are never of a mailbox that is still to be asked, and are at most a chunk
of each. A chunk is at most the cap because it is the image of an interval
(`ChunkIsCapped`); it is only given up by ending its turn, and the account does
not come again (`HeadIsNotInTail`).

**Trash tools** (`TrashTools_proofs`; assumes a finite mailbox). `RequestInv` is
about one request and what it touched: the ids are within the cap from the step
that resolves them on, a dry run and a refusal never leave the steps that only
read, and in the fallback loop each id before the position is trashed or
unknown. Since no request changes what another one touched, one lemma frames it
over all the others.

**Labels and filters** (`LabelTools_proofs`). `CallInv` says that the ids a call
has collected and the names it has still to resolve are together the names it
was asked for. `StoredOnce`, that a filter's request has ended, gives that no
request stores two. An answer is true because the step that gives it is the one
Gmail carried out, or the one that looked.

**MCP endpoint** (`Admission_proofs`). `CheckedOn` says, for each place a
request can be in, which of its credentials was compared; discoveries of other
requests change what is known, not what was compared.

**Limiter** (`Admission_proofs`; assumes the limits `loadConfig` accepts).
The code forgets by design: it keeps at most `globalMaxFailures` timestamps,
drops an address's failures when they trip a lock, prunes and evicts. The
invariants say what is never forgotten: the global list holds every failure
that is still in the window, and once it is full no key is compared
(`GlobalIsComplete`); the live part of an address's list is exactly what the
history says must count (`ListInv`); the failures in a window before a lock
are outlived by the lock when it is at least a window long (`BudgetInv`); a
locked record is neither pruned nor, unless the table is full of records that
all count, evicted. `LockoutsStay` adds that with the default proportions (50
failures globally, 10,000 records, lock as long as the window) eviction cannot
reach a locked address at all; it is proved without a run of its own.

**Unsubscribe** (`Unsubscribe_proofs`; assumes of `MaxLinks` that it is a number,
of the trees what is said in section 2). `InOrderOfReliability` says where the
call is in its order: what was tried is the first part of `Reliability`, up to
the request that is out, whose place is the work of the stages before its own
and its number in it (`made`, `base`). A request that fails moves one place on,
to the next link or to the first link of the next stage that has one; when there
is none, the place was the last (`total`). `MostReliableFirst` and
`FailureIsExhaustive` are read off it.

*Bodies.* What is proved first is stronger than `ExtractBodyFinds` and follows the
walk of the code: the text that `extractBody` takes is before all others in the
order of the walk, which looks, where the ways to two texts part, at the place and
the type of each (`IsFirstOf`, `fork`, `walksFirst`). The proof is by induction over
the trees (`TreeInduction`, from the least `Nesting` of a counterexample): the parts
of a part are less deep, so what the recursion gives for each of them is its first
text, and one step compares what `bodyOf` takes with every other text of the tree.
Two texts of one multipart part at their last step, so that HTML is never before
the plain text beside it (`BesideIt`). That the recursive functions `extractBody`
and `textLeaves` exist is proved before: there is a solution below every depth, and
two of them agree as far as both go (`TreeRecursion`).

**Compose** (`Compose_proofs`; assumes of callers only that they give strings and
subjects, and of the message that arrived that its lines are mailboxes, whatever
their names, `ComposeConfig`).
`LinesComeThrough` says that splitting undoes joining, for plain names. Its
invariant runs along the words of the joined line: after each mailbox, the parts cut
off so far are the mailboxes before it, the current part is it, and the quotes are
closed; inside a mailbox the quotes are open exactly where `isPlain` says, so that
no comma there splits. `ConversationSound`, the inductive invariant, says of each
message that its references are of messages before it and none twice (`Chains`),
that no header of it has a line break if it was made here, and that a reply has the
thread, the references, the In-Reply-To and, unless they were given, the subject and
the recipients that its original calls for (`Answers`; the recipients if the
original's names are plain, `Addressed`); of a call, that the message it is about to
send is one like that (`WellMade`), whatever happens to the original meanwhile; and
that who sent a message has ended, is a call of the tool for it and sent no other
(`SentSound`). The step that derives a reply is where the lines have to come
through, since the names are split out of a joined header: `ReplyContextIs` says
what `buildReplyContext` gives in terms of the headers of the original alone.

**How recursion is treated.** The modules proved about write recursion as functions
on an interval, a finite sequence or the set of trees. The library's induction
rules take an operator that the provers cannot instantiate; the proofs use the
set of the values for which a claim holds instead: a set of naturals that is not
empty has a least element (`LeastExists`), and one that contains 0 and each
successor in an interval contains the interval (`AlongTheList`). That a recursive
function exists is proved once for each kind (`RecursionExists`, `TreeRecursion`).

Only model-checked: liveness (`ServedAfterOutage`, `TornDownWhenListening`,
`Answered`, `CallEnds`), which needs `ENABLED` and rules about fairness that the
prover does not have. Every invariant and every action property that a passing
run checks is also proved.

## 6. What is left out

- Views and formatting; the encoding of subjects and bodies; hints added to error
  messages. They have no state, and no property here is about them.
- Which links and addresses the patterns of `links.ts` find in a text. A text
  offers some number of them.
- The OAuth2 client's own refresh of access tokens, the comparison of keys in
  constant time, and the parsing of the environment. What `loadConfig` accepts
  appears as assumptions on constants. (A blank `ADMIN_LOGIN_GLOBAL_MAX_FAILURES`
  is read as 0, which turns the global cap off.)
- Tools that only read one thing and keep nothing: `list_accounts`, `list_labels`,
  `get_email`.
- Mailboxes are modelled per tool family, so that a label tool and a trash tool on
  the same message do not meet. Neither keeps anything between its requests that
  the other could make stale.
- The kill inside a save, the two replicas and the teardown are shown as
  violations only; the modules do not model a repaired server.

## 7. What remains to be done

1. An abstract specification of the limiter, a guard over the bare history of
   wrong keys, with `LoginLimiter` shown to implement it up to its lockouts.
2. The same for the conversation: what `ConversationSound` says of a message as
   a specification of its own, without calls and headers, that `Compose`
   implements.
